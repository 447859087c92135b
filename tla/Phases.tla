------------------------------- MODULE Phases -------------------------------
(***************************************************************************)
(* The phase of the cognitive state: hysteresis over phi_iit, thresholds   *)
(* that move with the emergent phi, and the checkpoint that carries both   *)
(* to the next process.  PhaseTransitionMachine is a second implementation *)
(* of the same hysteresis and serves as its reference.                     *)
(*                                                                         *)
(* Phi is counted in eighths, so that thresholds of the golden ratio are   *)
(* 2, 5, 8 and 13; what it is after a step is left open, and so is the     *)
(* emergent phi, the subject of EmergentPhi.                               *)
(***************************************************************************)
EXTENDS Integers, FiniteSetsExt

CONSTANTS
    TopPhi,     \* bound: the largest phi_iit
    Band        \* HYSTERESIS_BAND

ASSUME PhaseAssumption == TopPhi \in Nat /\ Band \in Nat

\* BROKEN, FRAGILE, FUNCTIONAL, SOLID, EXCELLENT.
PhaseOrder == 1 .. 5
Worst == 1
Best == 5

\* Of the emergent phi 1.618, which is also the fallback; of 1, its least value; of 2.
EmergentValues == {"golden", "least", "large"}
DynamicThresholds(e) ==
    CASE e = "golden" -> <<0, 2, 5, 8, 13>>
      [] e = "least"  -> <<0, 8, 8, 8, 8>>
      [] e = "large"  -> <<0, 1, 4, 8, 16>>

VARIABLES
    psiPhi,     \* phi_iit of the history
    emergent,   \* the emergent phi
    phase,      \* _phase
    phaseFile  \* the checkpoint file: a set of at most one record; {} when there is none

phaseVars == <<psiPhi, emergent, phase, phaseFile>>

\* Of the phases whose thresholds are reached, the last in order.
PhaseFromScratch(p, t) == Max({i \in PhaseOrder : p >= t[i]})

\* Mutant of Upgraded: one level a step.
UpgradedOnce(from, p, t) ==
    IF from < Best /\ p >= t[from + 1] + Band THEN from + 1 ELSE from

\* As far up as every threshold on the way is passed by the band ...
Upgraded(from, p, t) ==
    Max({to \in from .. Best : \A i \in from + 1 .. to : p >= t[i] + Band})

\* ... and then as far down as every one is missed by it.
Downgraded(from, p, t) ==
    CHOOSE to \in 1 .. from :
        /\ \A i \in to + 1 .. from : p < t[i] - Band
        /\ to = 1 \/ p >= t[to] - Band

ApplyHysteresis(from, p, t) == Downgraded(Upgraded(from, p, t), p, t)

\* PhaseTransitionMachine.update: up, else down, else as it was.
MachineUpdate(from, p, t) ==
    CASE from < Best /\ p >= t[from + 1] + Band ->
            Max({to \in from + 1 .. Best : \A i \in from + 2 .. to : p >= t[i] + Band})
      [] from > Worst /\ p < t[from] - Band /\ (from = Best \/ p < t[from + 1] + Band) ->
            Min({to \in 1 .. from - 1 : \A i \in to + 1 .. from - 1 : p < t[i] - Band})
      [] OTHER -> from

\* The phase is computed from the thresholds before the emergent phi is updated.
EvolvePhase ==
    /\ psiPhi' \in 0 .. TopPhi
    /\ phase' = ApplyHysteresis(phase, psiPhi', DynamicThresholds(emergent))
    /\ emergent' \in EmergentValues
    /\ UNCHANGED phaseFile

SavePhase ==
    /\ phaseFile' = {[phi |-> psiPhi, phase |-> phase, emergent |-> emergent]}
    /\ UNCHANGED <<psiPhi, emergent, phase>>

FreshState ==
    /\ psiPhi' = 0 /\ emergent' = "golden"
    /\ phase' = PhaseFromScratch(0, DynamicThresholds("golden"))

\* The better of the saved phase and the one of the saved history; the emergent
\* phi is restored when that is computed, and it counts as in bootstrap till then.
LoadCheckpoint ==
    /\ IF phaseFile = {} THEN FreshState
       ELSE \E saved \in phaseFile :
            /\ psiPhi' = saved.phi /\ emergent' = saved.emergent
            /\ phase' = Max({saved.phase, PhaseFromScratch(saved.phi, DynamicThresholds("golden"))})
    /\ UNCHANGED phaseFile

PhasesInit ==
    /\ psiPhi = 0 /\ emergent = "golden"
    /\ phase = PhaseFromScratch(0, DynamicThresholds("golden"))
    /\ phaseFile = {}

PhasesNext == EvolvePhase \/ SavePhase \/ LoadCheckpoint

PhasesSpec == PhasesInit /\ [][PhasesNext]_phaseVars

-----------------------------------------------------------------------------
(* Properties.                                                             *)

Fits(i, p, t) ==
    /\ i < Best => p < t[i + 1] + Band
    /\ i > Worst => p >= t[i] - Band

(* Wherever phi jumps, and whatever a load or a move of the thresholds has *)
(* left behind, one step of psi brings the phase to one that fits, where a *)
(* further one would not move it, and it is the one that the machine of    *)
(* the phi engine would be in; a restart without a step since the save     *)
(* costs no level that the band had kept.                                  *)
PhaseConverges ==
    [][/\ EvolvePhase =>
            /\ Fits(phase', psiPhi', DynamicThresholds(emergent))
            /\ phase' = MachineUpdate(phase, psiPhi', DynamicThresholds(emergent))
       /\ LoadCheckpoint => \A saved \in phaseFile : phase' >= saved.phase]_phaseVars
=============================================================================
