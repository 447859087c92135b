------------------------------- MODULE MCMind -------------------------------
(* What Luna thinks, feels, says, learns and holds herself to be: thoughts *)
(* and their turns, feelings, replies, dreams' consolidation and tuning,   *)
(* memories, phases, the estimate of phi, her autonomy, what thinking is   *)
(* worth.  The first state chooses the part that moves.                    *)
EXTENDS TurnRules, Consolidation, Recall, Phases, EmergentPhi, Autonomy,
        Voice, Affect, Optimizer, Verdict

VARIABLE part

mindVars ==
    <<turnVars, consolidationVars, recallVars, phaseVars, emergentVars, autonomyVars,
      voiceVars, affectVars, optimizerVars, verdictVars, part>>

MindInit ==
    /\ TurnInit /\ ConsolidationInit /\ RecallInit
    /\ PhasesInit /\ EmergentInit /\ AutonomyInit
    /\ VoiceInit /\ AffectInit /\ OptimizerInit /\ VerdictInit
    /\ part \in {"turn", "dream", "recall", "phase", "emergent", "autonomy",
                "voice", "affect", "optimizer", "verdict"}
    /\ part # "turn" => stimulus = CHOOSE s \in FeltAs : TRUE

(* Everything but the part that moves stays. *)
Others(name) ==
    /\ IF name = "turn" THEN TRUE ELSE UNCHANGED turnVars
    /\ IF name = "dream" THEN TRUE ELSE UNCHANGED consolidationVars
    /\ IF name = "recall" THEN TRUE ELSE UNCHANGED recallVars
    /\ IF name = "phase" THEN TRUE ELSE UNCHANGED phaseVars
    /\ IF name = "emergent" THEN TRUE ELSE UNCHANGED emergentVars
    /\ IF name = "autonomy" THEN TRUE ELSE UNCHANGED autonomyVars
    /\ IF name = "voice" THEN TRUE ELSE UNCHANGED voiceVars
    /\ IF name = "affect" THEN TRUE ELSE UNCHANGED affectVars
    /\ IF name = "optimizer" THEN TRUE ELSE UNCHANGED optimizerVars
    /\ IF name = "verdict" THEN TRUE ELSE UNCHANGED verdictVars

MindNext ==
    /\ UNCHANGED part
    /\ Others(part)
    /\ \/ part = "turn" /\ TurnRulesNext
       \/ part = "dream" /\ ConsolidationNext
       \/ part = "recall" /\ RecallNext
       \/ part = "phase" /\ PhasesNext
       \/ part = "emergent" /\ EmergentNext
       \/ part = "autonomy" /\ AutonomyNext
       \/ part = "voice" /\ VoiceNext
       \/ part = "affect" /\ AffectNext
       \/ part = "optimizer" /\ OptimizerNext
       \/ part = "verdict" /\ VerdictNext

MindSpec == MindInit /\ [][MindNext]_mindVars

MCTendencies == {<<970, 10, 10, 10>>}
MCHeuristic == {<<"a", "b">>}

(* Turns that lowered phi or not, with and without news, slow and quick.   *)
Lived(dropped, observed, needs, milliseconds, coherence) ==
    [dropped |-> dropped, observed |-> observed, needs |-> needs, duration |-> milliseconds,
     lines |-> 500, components |-> <<100000, 20000, coherence, 90000, -100000, 0, 100000, 0>>]
MCReplayCycles ==
    {Lived(TRUE, {"factory"}, FALSE, 90000, -100000), Lived(FALSE, {}, TRUE, 3000, 0),
     Lived(TRUE, {"weak_Expression", "phi_critical"}, TRUE, 20000, 98000)}

(* Draws within the bounds, on them and beyond them. *)
Drawn(aversion, exploration, lines) ==
    [regression_aversion |-> aversion, exploration_rate |-> exploration,
     max_scope_lines |-> lines, need_weight_expression |-> 250, veto_aversion |-> 500]
MCDraws ==
    {Drawn(a, e, l) : a \in {200, 1100}, e \in {0, 500}, l \in {150, 2500}}
    \cup {[Drawn(800, 100, 500) EXCEPT !.need_weight_expression = 600, !.veto_aversion = 1100]}

(* A task of each kind. *)
MCCorpus ==
    <<[category |-> "convergence", steps |-> 2], [category |-> "resilience", steps |-> 1],
      [category |-> "coherence", steps |-> 1]>>

MCPhiMoves == {-400, 300}
=============================================================================
