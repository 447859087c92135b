------------------------------ MODULE Autonomy ------------------------------
(***************************************************************************)
(* The AutonomyWindow: the level W, its cooldown and its escalation, which *)
(* every recorded cycle advances, and the automatic application of changes *)
(* with a snapshot, smoke tests and a rollback, which awaits while cycles  *)
(* go on.  SafeAction takes the same steps around any action.  Nothing of  *)
(* the window is saved.                                                    *)
(***************************************************************************)
EXTENDS Naturals, Sequences

CONSTANTS
    NumTargets,         \* files of a change, in the order they are written
    Beside,             \* those in the directory of the first
    Existing,           \* those that exist before
    InitialW,           \* 1 when the mode is autonomous
    CooldownCycles,     \* _COOLDOWN_CYCLES
    EscalationWindow,   \* _ESCALATION_WINDOW
    RollbackThreshold,  \* _ESCALATION_ROLLBACK_THRESHOLD
    MaxW                \* bound: the level

ASSUME AutonomyAssumption ==
    /\ NumTargets \in Nat /\ 1 \in Beside
    /\ Beside \subseteq 1 .. NumTargets /\ Existing \subseteq 1 .. NumTargets
    /\ {CooldownCycles, EscalationWindow, RollbackThreshold} \subseteq Nat \ {0}
    /\ {InitialW, MaxW} \subseteq Nat

Targets == 1 .. NumTargets
Absent == "absent"

VARIABLES
    level,      \* _w
    cooldown,   \* _cooldown_remaining
    outcomes,   \* the last EscalationWindow entries of _history: "good", "thin" or "rollback"
    applying,   \* auto_apply: "no", "snapshot", "write", "test", "rollback"
    written,    \* files written so far
    content,    \* of each target: Absent, "old" or "new"
    snapped,    \* what the snapshot holds
    undone,     \* history: the last change that failed was taken back
    ticked      \* history: cycles since the last rollback, up to CooldownCycles

autonomyVars == <<level, cooldown, outcomes, applying, written, content, snapped, undone, ticked>>
windowVars == <<level, cooldown, outcomes, ticked>>
changeVars == <<applying, written, content, snapped, undone>>

\* The gates of a change, and what the ghost evaluation, which ignores W, says of them.
Gates == {"verdict", "confidence", "scope_lines", "scope_files", "veto", "simplex_margin"}
GhostCandidate(failed) == failed = {}
EffectiveW == IF cooldown > 0 THEN 0 ELSE level
CanAutoApply(failed) == EffectiveW >= 1 /\ GhostCandidate(failed)

RecordOutcome(o) ==
    LET all == Append(outcomes, o) IN
    outcomes' = IF Len(all) > EscalationWindow THEN Tail(all) ELSE all

Rollbacks == Len(SelectSeq(outcomes, LAMBDA o : o = "rollback"))
Clean == \A i \in DOMAIN outcomes : outcomes[i] = "good"

\* The same outcomes are weighed at every cycle.
EvaluateEscalation ==
    CASE Len(outcomes) < EscalationWindow -> level
      [] Rollbacks >= RollbackThreshold -> IF level > 0 THEN level - 1 ELSE 0
      [] Clean /\ level < MaxW -> level + 1
      [] OTHER -> level

\* A recorded cycle ticks the cooldown, then weighs the history.
CycleRecorded ==
    /\ cooldown' = IF cooldown > 0 THEN cooldown - 1 ELSE 0
    /\ level' = EvaluateEscalation
    /\ ticked' = IF ticked < CooldownCycles THEN ticked + 1 ELSE CooldownCycles
    /\ UNCHANGED <<outcomes, changeVars>>

\* A change begins: what is there now counts as old.
AutoApply ==
    /\ applying = "no"
    /\ \E failed \in SUBSET Gates : CanAutoApply(failed)
    /\ content' = [f \in Targets |-> IF f \in Existing THEN "old" ELSE Absent]
    /\ written' = 0
    /\ applying' = "snapshot"
    /\ UNCHANGED <<windowVars, snapped, undone>>

\* Only the directory of the first file; without a snapshot nothing is applied.
CreateSnapshot ==
    /\ applying = "snapshot"
    /\ \/ /\ snapped' = [f \in {g \in Beside : content[g] # Absent} |-> content[f]]
          /\ applying' = "write"
       \/ applying' = "no" /\ UNCHANGED snapped
    /\ UNCHANGED <<windowVars, written, content, undone>>

\* Each file is replaced; an error rolls back what was written.
WriteTarget ==
    /\ applying = "write"
    /\ \/ /\ content' = [content EXCEPT ![written + 1] = "new"]
          /\ written' = written + 1
          /\ applying' = IF written' = NumTargets THEN "test" ELSE "write"
       \/ applying' = "rollback" /\ UNCHANGED <<content, written>>
    /\ UNCHANGED <<windowVars, snapped, undone>>

\* Tests that fail, cannot be run or take too long are one.
SmokeTests ==
    /\ applying = "test"
    /\ \/ applying' = "rollback" /\ UNCHANGED <<outcomes, undone>>
       \/ applying' = "no" /\ RecordOutcome("good") /\ undone' = TRUE
       \/ applying' = "no" /\ RecordOutcome("thin") /\ undone' = TRUE
    /\ UNCHANGED <<level, cooldown, ticked, written, content, snapped>>

\* Mutant of Rollback: the cooldown is entered when the snapshot was restored.
RollbackCalm ==
    /\ applying = "rollback"
    /\ \/ /\ content' = [f \in Targets |-> IF f \in DOMAIN snapped THEN snapped[f] ELSE content[f]]
          /\ undone' = TRUE /\ cooldown' = CooldownCycles
       \/ UNCHANGED <<content, cooldown>> /\ undone' = FALSE
    /\ ticked' = 0
    /\ RecordOutcome("rollback")
    /\ applying' = "no"
    /\ UNCHANGED <<level, written, snapped>>

\* The archive is extracted over the directory; whether or not that succeeds, W rests.
Rollback ==
    /\ applying = "rollback"
    /\ \/ /\ content' = [f \in Targets |-> IF f \in DOMAIN snapped THEN snapped[f] ELSE content[f]]
          /\ undone' = TRUE
       \/ UNCHANGED content /\ undone' = FALSE
    /\ cooldown' = CooldownCycles
    /\ ticked' = 0
    /\ RecordOutcome("rollback")
    /\ applying' = "no"
    /\ UNCHANGED <<level, written, snapped>>

\* A new process knows of no change, no outcome and no cooldown.
RestartWindow ==
    /\ level' = InitialW /\ cooldown' = 0 /\ outcomes' = <<>>
    /\ ticked' = CooldownCycles
    /\ applying' = "no" /\ undone' = FALSE
    /\ UNCHANGED <<written, content, snapped>>

AutonomyInit ==
    /\ level = InitialW /\ cooldown = 0 /\ outcomes = <<>>
    /\ applying = "no" /\ written = 0
    /\ content = [f \in Targets |-> IF f \in Existing THEN "old" ELSE Absent]
    /\ snapped = [f \in {} |-> "old"]
    /\ undone = FALSE /\ ticked = CooldownCycles

AutonomyNext ==
    \/ CycleRecorded \/ AutoApply \/ CreateSnapshot \/ WriteTarget
    \/ SmokeTests \/ Rollback \/ RestartWindow

AutonomySpec == AutonomyInit /\ [][AutonomyNext]_autonomyVars

-----------------------------------------------------------------------------
(* Properties.                                                             *)

(* After a rollback no change is applied for three cycles of the process,  *)
(* even if the restoration failed or cycles went by while the change ran;  *)
(* and a restored change left nothing behind in its directory but files    *)
(* that were not there before.                                             *)
RollbackIsFelt ==
    /\ ticked < CooldownCycles => EffectiveW = 0
    /\ applying = "no" /\ undone /\ ticked = 0 =>
         \A f \in Beside \cap Existing : content[f] = "old"
=============================================================================
