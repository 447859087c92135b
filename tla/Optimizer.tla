------------------------------ MODULE Optimizer ------------------------------
(***************************************************************************)
(* How a dream tunes the learnable parameters (CEMOptimizer.optimize,      *)
(* luna/dream/learnable_optimizer.py): samples of parameters are judged by *)
(* replaying the recent cycles as if they had been in force, generation    *)
(* after generation, and the best is installed in the parameters that the  *)
(* whole process shares.                                                   *)
(*                                                                         *)
(* Parameters are thousandths but for max_scope_lines; rewards are hundred *)
(* thousandths, so that the bonus is exact.  A generation may draw any     *)
(* vectors of Draws: a normal distribution excludes none.                  *)
(***************************************************************************)
EXTENDS Sums

CONSTANTS
    Draws,          \* vectors rng.normal may return, outside of the bounds too
    ReplayCycles,   \* the CycleRecords turns leave
    ReplayK,        \* _REPLAY_K: 5
    Generations     \* _GENERATIONS: 10

VARIABLES
    tuned,          \* LearnableParams in force
    paramsFile,     \* learnable_params.json; NoVector before the first save
    replayed,       \* the last cycles in the store
    best,           \* best_vector of the CEM that runs, else NoVector
    generation

optimizerVars == <<tuned, paramsFile, replayed, best, generation>>

-----------------------------------------------------------------------------
(* LearnableParams: the five the replay can judge, in their bounds.        *)
ParamNames == {"regression_aversion", "exploration_rate", "max_scope_lines",
               "need_weight_expression", "veto_aversion"}
Lo == [regression_aversion |-> 300, exploration_rate |-> 10, max_scope_lines |-> 100,
       need_weight_expression |-> 100, veto_aversion |-> 100]
Hi == [regression_aversion |-> 1000, exploration_rate |-> 400, max_scope_lines |-> 2000,
       need_weight_expression |-> 500, veto_aversion |-> 1000]
Defaults == [regression_aversion |-> 800, exploration_rate |-> 100, max_scope_lines |-> 500,
             need_weight_expression |-> 250, veto_aversion |-> 500]
NoVector == [n \in ParamNames |-> 0]

Clip(x, lo, hi) == IF x < lo THEN lo ELSE IF x > hi THEN hi ELSE x
ClampParams(v) == [n \in ParamNames |-> Clip(v[n], Lo[n], Hi[n])]

ASSUME OptimizerAssumption ==
    /\ ReplayK \in Nat \ {0} /\ Generations \in Nat \ {0}
    /\ Draws \subseteq [ParamNames -> Int]
    /\ \A c \in ReplayCycles :
          /\ c.duration \in Nat /\ c.lines \in Nat \ {0}     \* max(old_max_lines, 1.0)
          /\ c.components \in Seq(Int) /\ Len(c.components) = 8

-----------------------------------------------------------------------------
(* _param_alignment_bonus *)
AlignmentBonus(cycle, v) ==
    LET aversion == IF cycle.dropped THEN 2 * v.regression_aversion
                                     ELSE 1000 - v.regression_aversion
        novelty == IF "factory" \in cycle.observed THEN 3 * v.exploration_rate
                                                   ELSE -v.exploration_rate
        expression == IF "weak_Expression" \in cycle.observed
                      THEN 2 * v.need_weight_expression ELSE 0
        caution == IF "phi_critical" \in cycle.observed THEN 2 * v.veto_aversion ELSE 0
    IN  Clip(aversion + novelty + expression + caution, -5000, 5000)

(* The replayed duration, in milliseconds: the lines allowed stretch it.   *)
ReplayDuration(cycle, v) ==
    LET d == (cycle.duration * v.max_scope_lines) \div cycle.lines IN IF d < 100 THEN 100 ELSE d

(* Evaluator._compute_memory_vitality: only it sees the duration. *)
ReplayVitality(cycle, v) ==
    LET seen == IF cycle.observed # {} THEN 40000 ELSE 0
        needs == IF cycle.needs THEN 30000 ELSE 0
        quick == IF 1000 < ReplayDuration(cycle, v) /\ ReplayDuration(cycle, v) < 60000
                 THEN 30000 ELSE 0
    IN  2 * (seen + needs + quick) - 100000

Weights == <<21, 17, 16, 13, 12, 8, 6, 4, 3>>

(* counterfactual_replay and its J: each component bears the bonus.        *)
ReplayJ(cycle, v) ==
    LET value == Append(cycle.components, ReplayVitality(cycle, v))
        bonus == AlignmentBonus(cycle, v)
    IN  SumOfAll([i \in 1..9 |-> Weights[i] * Clip(value[i] + bonus, -100000, 100000)])

(* _evaluate_candidate; the sum orders candidates as the mean does.        *)
EvaluateCandidate(v) == SumOfAll([k \in DOMAIN replayed |-> ReplayJ(replayed[k], v)])

-----------------------------------------------------------------------------
OptimizerInit ==
    /\ tuned = Defaults /\ paramsFile = NoVector
    /\ replayed = <<>> /\ best = NoVector /\ generation = 0

Idle == best = NoVector

(* A turn leaves a cycle, of which the last are replayed. *)
CycleLived(c) ==
    /\ Idle
    /\ replayed' = LET all == Append(replayed, c)
                   IN  SubSeq(all, 1 + (IF Len(all) > ReplayK THEN Len(all) - ReplayK ELSE 0), Len(all))
    /\ UNCHANGED <<tuned, paramsFile, best, generation>>

(* Nothing is tuned without cycles. *)
StartCEM ==
    /\ Idle /\ replayed # <<>>
    /\ best' = tuned /\ generation' = 0
    /\ UNCHANGED <<tuned, paramsFile, replayed>>

(* Mutant: the elite of the last generation is the result. *)
LatestElite(elite) == elite

(* A generation's elite replaces the best it beats. *)
BestOf(elite) == IF EvaluateCandidate(elite) > EvaluateCandidate(best) THEN elite ELSE best

Generation ==
    /\ ~Idle /\ generation < Generations
    /\ \E draw \in Draws : best' = BestOf(ClampParams(draw))
    /\ generation' = generation + 1
    /\ UNCHANGED <<tuned, paramsFile, replayed>>

(* DreamCycle.run: params.restore *)
InstallParams ==
    /\ ~Idle /\ generation = Generations
    /\ tuned' = ClampParams(best)
    /\ best' = NoVector /\ generation' = 0
    /\ UNCHANGED <<paramsFile, replayed>>

(* _save_v35_state; nothing of a dream is on disk before it. *)
SaveParams ==
    /\ Idle
    /\ paramsFile' = tuned
    /\ UNCHANGED <<tuned, replayed, best, generation>>

(* A kill at any moment, and LearnableParams.load; the cycles are on disk. *)
RestartParams ==
    /\ tuned' = IF paramsFile = NoVector THEN Defaults ELSE ClampParams(paramsFile)
    /\ best' = NoVector /\ generation' = 0
    /\ UNCHANGED <<paramsFile, replayed>>

OptimizerNext ==
    \/ \E c \in ReplayCycles : CycleLived(c)
    \/ StartCEM \/ Generation \/ InstallParams \/ SaveParams \/ RestartParams

OptimizerSpec == OptimizerInit /\ [][OptimizerNext]_optimizerVars

-----------------------------------------------------------------------------
(* However the samples fall, what a dream installs is judged by the last   *)
(* cycles no worse than what was in force, whatever generation found it.   *)
NeverWorse ==
    [][InstallParams => EvaluateCandidate(tuned') >= EvaluateCandidate(tuned)]_optimizerVars
=============================================================================
