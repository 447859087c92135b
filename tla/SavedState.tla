----------------------------- MODULE SavedState -----------------------------
(***************************************************************************)
(* The files of the cognitive components (causal graph, lexicon, skills,   *)
(* episodes, affect, parameters, sensors, proposals): one pass of          *)
(* save_v35_state writes them in a fixed order, a process loads them all   *)
(* or gives up all components (degraded mode), and epoch_reset, a command  *)
(* of its own, moves the statistical ones to the archive of an era.  Most  *)
(* files are replaced by a temporary one; a file of InPlace is opened to   *)
(* be written, so that a kill or a full disk leaves it cut.                *)
(*                                                                         *)
(* What a file or a component holds is the era it began in and its worth:  *)
(* how much of what was lived went into it.  A component that finds no     *)
(* file starts fresh, at worth 0.                                          *)
(***************************************************************************)
EXTENDS Integers, FiniteSets

CONSTANTS
    NumFiles,       \* the files, 1..NumFiles in the order of the pass
    InPlace,        \* those written in place: affect_engine.json
    Statistical,    \* those that a reset moves: STATISTICAL_FILES
    MaxEras,        \* bound: names for the archives of resets
    MaxWorth,       \* bound: what is lived
    MaxMishaps      \* bound: kills and writes that fail

ASSUME SavedAssumption ==
    /\ NumFiles \in Nat /\ MaxEras \in Nat /\ MaxWorth \in Nat /\ MaxMishaps \in Nat
    /\ InPlace \subseteq 1..NumFiles /\ Statistical \subseteq 1..NumFiles

Files == 1..NumFiles

VARIABLES
    proc,           \* "down", "up", or "degraded": its components are None
    mem,            \* the components of a process that is up
    hot,            \* the files
    pass,           \* the file a pass of saves is at, 0 between passes
    era,            \* resets begun
    moving,         \* a reset is on its way
    toMove,         \* the files that it has listed and not yet moved
    archive,        \* the archive of each reset
    disturbed,      \* a process lived beside a reset, or a reset was killed
    mishaps

savedVars == <<proc, mem, hot, pass, era, moving, toMove, archive, disturbed, mishaps>>
resetVars == <<era, moving, toMove, archive>>

Cut == [era |-> 0, worth |-> -1]
Contents == [era : 0..MaxEras, worth : 0..MaxWorth]
Fresh == [era |-> era, worth |-> 0]     \* also a file that is not there

SavedTypeOK ==
    /\ proc \in {"down", "up", "degraded"}
    /\ mem \in [Files -> Contents]
    /\ hot \in [Files -> Contents \cup {Cut}]
    /\ \A f \in Files : hot[f] = Cut => f \in InPlace
    /\ pass \in 0..NumFiles /\ (pass # 0 => proc = "up")
    /\ era \in 0..MaxEras
    /\ moving \in BOOLEAN /\ toMove \subseteq Statistical
    /\ archive \in [1..MaxEras -> [Files -> Contents \cup {Cut}]]
    /\ disturbed \in BOOLEAN
    /\ mishaps \in 0..MaxMishaps

Nothing == [f \in Files |-> [era |-> 0, worth |-> 0]]

SavedInit ==
    /\ proc = "down"
    /\ mem = Nothing /\ hot = Nothing
    /\ pass = 0
    /\ era = 0 /\ moving = FALSE /\ toMove = {}
    /\ archive = [e \in 1..MaxEras |-> Nothing]
    /\ disturbed = FALSE
    /\ mishaps = 0

Mishap == mishaps < MaxMishaps /\ mishaps' = mishaps + 1

-----------------------------------------------------------------------------
(* Processes.                                                              *)

\* Mutant of Loaded: the components are not loaded.
LoadedFresh == [f \in Files |-> Fresh]

\* A file that is not there is met as a fresh component of the current era.
Loaded == [f \in Files |-> IF hot[f].worth = 0 THEN Fresh ELSE hot[f]]

Boot ==
    /\ proc = "down"
    /\ \A f \in Files : hot[f] # Cut
    /\ proc' = "up"
    /\ mem' = Loaded
    /\ disturbed' = (disturbed \/ moving)
    /\ UNCHANGED <<hot, pass, resetVars, mishaps>>

\* One component fails to load, and all of them are set to None.
BootDegraded ==
    /\ proc = "down"
    /\ \E f \in Files : hot[f] = Cut
    /\ proc' = "degraded"
    /\ disturbed' = (disturbed \/ moving)
    /\ UNCHANGED <<mem, hot, pass, resetVars, mishaps>>

\* A turn, a tick or a dream changes the components.
Live ==
    /\ proc = "up" /\ pass = 0
    /\ \A f \in Files : mem[f].worth < MaxWorth
    /\ mem' = [f \in Files |-> [era |-> mem[f].era, worth |-> mem[f].worth + 1]]
    /\ UNCHANGED <<proc, hot, pass, resetVars, disturbed, mishaps>>

SaveBegins ==
    /\ proc = "up" /\ pass = 0 /\ NumFiles > 0
    /\ pass' = 1
    /\ UNCHANGED <<proc, mem, hot, resetVars, disturbed, mishaps>>

SaveFile ==
    /\ pass # 0
    /\ hot' = [hot EXCEPT ![pass] = mem[pass]]
    /\ pass' = IF pass = NumFiles THEN 0 ELSE pass + 1
    /\ UNCHANGED <<proc, mem, resetVars, disturbed, mishaps>>

\* A write that does not come to its end leaves the old file, or a cut one.
Interrupted ==
    hot' = IF pass \in InPlace THEN [hot EXCEPT ![pass] = Cut] ELSE hot

\* A write raises: the pass is given up, and the files after it keep what they held.
SaveFails ==
    /\ pass # 0 /\ Mishap
    /\ Interrupted
    /\ pass' = 0
    /\ UNCHANGED <<proc, mem, resetVars, disturbed>>

\* A process ends between passes.  A degraded one has saved nothing.
Exit ==
    /\ proc # "down" /\ pass = 0
    /\ proc' = "down"
    /\ UNCHANGED <<mem, hot, pass, resetVars, disturbed, mishaps>>

Kill ==
    /\ proc # "down" /\ Mishap
    /\ proc' = "down" /\ pass' = 0
    /\ UNCHANGED hot \/ Interrupted
    /\ UNCHANGED <<mem, resetVars, disturbed>>

-----------------------------------------------------------------------------
(* epoch_reset.                                                            *)

\* An archive that exists is refused: each reset has a new one.
ResetBegins ==
    /\ ~moving /\ era < MaxEras
    /\ era' = era + 1
    /\ moving' = TRUE
    /\ toMove' = {f \in Statistical : hot[f].worth # 0}
    /\ disturbed' = (disturbed \/ proc # "down")
    /\ UNCHANGED <<proc, mem, hot, pass, archive, mishaps>>

MoveFile(f) ==
    /\ moving /\ f \in toMove
    /\ toMove' = toMove \ {f}
    /\ archive' = [archive EXCEPT ![era][f] = hot[f]]
    /\ hot' = [hot EXCEPT ![f] = Fresh]
    /\ UNCHANGED <<proc, mem, pass, era, moving, disturbed, mishaps>>

\* Mutant of ResetEnds: a reset gives up its list when a file cannot be moved, and ends well.
ResetEndsEarly ==
    /\ moving
    /\ moving' = FALSE /\ toMove' = {}
    /\ UNCHANGED <<proc, mem, hot, pass, era, archive, disturbed, mishaps>>

ResetEnds ==
    /\ moving /\ toMove = {}
    /\ moving' = FALSE
    /\ UNCHANGED <<proc, mem, hot, pass, era, toMove, archive, disturbed, mishaps>>

ResetKilled ==
    /\ moving /\ Mishap
    /\ moving' = FALSE /\ toMove' = {}
    /\ disturbed' = TRUE
    /\ UNCHANGED <<proc, mem, hot, pass, era, archive>>

SavedNext ==
    \/ Boot \/ BootDegraded \/ Live
    \/ SaveBegins \/ SaveFile \/ SaveFails
    \/ Exit \/ Kill
    \/ ResetBegins \/ (\E f \in Files : MoveFile(f)) \/ ResetEnds \/ ResetKilled

SavedSpec == SavedInit /\ [][SavedNext]_savedVars

-----------------------------------------------------------------------------
(* Properties.                                                             *)

\* What was lived and saved is only ever topped: no save, of a process that
\* loaded everything or nothing, after whatever interruption, replaces a file
\* by one that holds less.  A file loses what it holds to the archive of a
\* reset, or to a cut write in place.
WorthGrows ==
    [][\A f \in Files :
         \/ hot'[f].worth >= hot[f].worth
         \/ hot'[f] = Cut
         \/ moving /\ archive'[era][f] = hot[f]]_savedVars

\* The files of a statistical component begin in the current era, unless a
\* process lived while the reset ran, or the reset did not come to its end.
EraIsolated ==
    ~moving /\ ~disturbed =>
        \A f \in Statistical : hot[f].worth > 0 => hot[f].era = era

\* Between resets, a file is never behind one that the pass saves after it: a
\* pass that is killed or fails has saved a prefix.
SavedInOrder ==
    era = 0 => \A f, g \in Files :
                  f < g /\ Cut \notin {hot[f], hot[g]} => hot[f].worth >= hot[g].worth

\* The next pass of the same process mends a file that was cut.  Once that
\* process is gone, no process does: each finds the file, has no components and
\* nothing to save.  Only a reset moves the file away.
OnlyResetsMend ==
    [][\A f \in Files :
         hot[f] = Cut /\ proc # "up" => moving \/ (hot'[f] = Cut /\ proc' # "up")]_savedVars
=============================================================================
