---------------------------- MODULE EmergentPhi ----------------------------
(***************************************************************************)
(* The emergent phi: estimated at Fibonacci steps, refined there to more   *)
(* decimals, and frozen when memory runs out.  A checkpoint keeps all of   *)
(* it but the step of the freeze.  An estimate is what it comes from; what *)
(* the ratios of energies amount to is left out.                           *)
(***************************************************************************)
EXTENDS Naturals, FiniteSetsExt

CONSTANTS
    Fibonacci,          \* _FIB
    MinSteps,           \* _MIN_STEPS
    GrowthRate,         \* _PRECISION_GROWTH_RATE
    PrecisionMin,       \* _PRECISION_MIN
    RetryInterval,      \* _RAM_RETRY_INTERVAL
    MaxEnergySteps      \* bound: steps of psi

ASSUME EmergentAssumption ==
    /\ Fibonacci \subseteq Nat
    /\ GrowthRate \in Nat \ {0}
    /\ {MinSteps, PrecisionMin, RetryInterval, MaxEnergySteps} \subseteq Nat

VARIABLES
    energySteps,    \* _step_count
    estimate,       \* _current_phi: "seed", "ratios" or "golden"
    target,         \* _target_precision
    achieved,       \* _max_precision_achieved
    refined,        \* _hp_phi is there
    ramFrozen,      \* _ram_frozen
    freezeStep,     \* _ram_freeze_step
    snapshotted     \* the snapshot in the checkpoint

emergentVars == <<energySteps, estimate, target, achieved, refined, ramFrozen, freezeStep, snapshotted>>

Seed == [steps |-> 0, estimate |-> "seed", target |-> PrecisionMin, achieved |-> PrecisionMin,
         refined |-> FALSE, frozen |-> FALSE]

Desired == Max({PrecisionMin, energySteps' \div GrowthRate})

\* A freeze is thought over only when the interval is past, and only here.
MayRefine ==
    /\ ~(ramFrozen /\ energySteps' - freezeStep < RetryInterval)
    /\ Desired > target

\* Precision grows, and with it the estimate becomes the golden ratio itself.
Grows ==
    /\ target' = Desired /\ achieved' = Desired
    /\ refined' = TRUE /\ estimate' = "golden"
    /\ ramFrozen' = FALSE
    /\ UNCHANGED freezeStep

\* Mutant of OutOfMemory: the target is not taken back.
OutOfMemoryKeepsTarget ==
    /\ target' = Desired
    /\ ramFrozen' = TRUE /\ freezeStep' = energySteps'
    /\ estimate' = "ratios"
    /\ UNCHANGED <<achieved, refined>>

\* Memory runs out: the target goes back to what was achieved.
OutOfMemory ==
    /\ target' = achieved
    /\ ramFrozen' = TRUE /\ freezeStep' = energySteps'
    /\ estimate' = "ratios"
    /\ UNCHANGED <<achieved, refined>>

\* Nothing to refine; the retry that is due clears the freeze all the same.
NotRefined ==
    /\ ramFrozen' = (ramFrozen /\ energySteps' - freezeStep < RetryInterval)
    /\ estimate' = "ratios"
    /\ UNCHANGED <<target, achieved, refined, freezeStep>>

\* Energies may all be zero, or not finite: then there is no ratio to go by.
ComputeAtFibonacci ==
    \/ UNCHANGED <<estimate, target, achieved, refined, ramFrozen, freezeStep>>
    \/ MayRefine /\ (Grows \/ OutOfMemory)
    \/ ~MayRefine /\ NotRefined

UpdateEnergy ==
    /\ energySteps < MaxEnergySteps
    /\ energySteps' = energySteps + 1
    /\ IF energySteps' >= MinSteps /\ energySteps' \in Fibonacci THEN ComputeAtFibonacci
       ELSE UNCHANGED <<estimate, target, achieved, refined, ramFrozen, freezeStep>>
    /\ UNCHANGED snapshotted

SaveSnapshot ==
    /\ snapshotted' = [steps |-> energySteps, estimate |-> estimate, target |-> target,
                       achieved |-> achieved, refined |-> refined, frozen |-> ramFrozen]
    /\ UNCHANGED <<energySteps, estimate, target, achieved, refined, ramFrozen, freezeStep>>

RestoreSnapshot ==
    /\ energySteps' = snapshotted.steps /\ estimate' = snapshotted.estimate
    /\ target' = snapshotted.target /\ achieved' = snapshotted.achieved
    /\ refined' = snapshotted.refined /\ ramFrozen' = snapshotted.frozen
    /\ freezeStep' = 0
    /\ UNCHANGED snapshotted

EmergentInit ==
    /\ snapshotted = Seed
    /\ energySteps = 0 /\ estimate = "seed"
    /\ target = PrecisionMin /\ achieved = PrecisionMin
    /\ refined = FALSE /\ ramFrozen = FALSE /\ freezeStep = 0

EmergentNext == UpdateEnergy \/ SaveSnapshot \/ RestoreSnapshot

EmergentSpec == EmergentInit /\ [][EmergentNext]_emergentVars

-----------------------------------------------------------------------------
(* Properties.                                                             *)

(* Through failures, retries and restarts the precision reported is one    *)
(* that was computed, the target never runs ahead of it, so that a growth  *)
(* that failed is tried again, and nothing is refined during bootstrap.    *)
PrecisionHonest ==
    /\ target = achieved
    /\ achieved > PrecisionMin => refined
    /\ refined => energySteps >= MinSteps /\ achieved <= Max({PrecisionMin, energySteps \div GrowthRate})
    /\ freezeStep <= energySteps
=============================================================================
