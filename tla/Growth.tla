------------------------------- MODULE Growth -------------------------------
(***************************************************************************)
(* When Luna proposes an improvement of herself                            *)
(* (luna/consciousness/self_improvement.py) and which words she learns     *)
(* (lexicon.py): her maturity, the proposals of turns and ticks, what is   *)
(* saved and what a kill loses.                                            *)
(*                                                                         *)
(* Numbers are thousandths.  A skill is what a dream learnt; one with a    *)
(* negative outcome names an idea that failed.                             *)
(***************************************************************************)
EXTENDS Integers, Sequences, FiniteSets

CONSTANTS
    PhiIits,        \* values of phi_iit
    Ideas,          \* proposals of the Thinker: [name, impact]
    Vocabulary,     \* words of the user
    EdgesKnown,     \* edges of a causal graph that is known, 50
    SkillsKnown,    \* skills enough, 20
    Period,         \* turns, and ticks, between two proposals, 5
    MaxSeen,        \* times a word is heard (bound)
    MaxEdges,       \* edges of the graph (bound)
    MaxSkills       \* skills (bound)

ASSUME GrowthAssumption ==
    /\ PhiIits \subseteq 0..2000
    /\ \A i \in Ideas : i.impact \in Nat
    /\ {EdgesKnown, SkillsKnown, Period, MaxSeen, MaxEdges, MaxSkills} \subseteq Nat \ {0}

VARIABLES
    up,             \* there is a process
    phiIit, edges, skills, failed,  \* what maturity is made of; contexts of negative skills
    turns, ticks,   \* step_count and _tick_count, modulo Period
    threshold,      \* SelfImprovement._threshold
    heard,          \* Lexicon._words: how often each was learnt
    kept,           \* lexicon.json, self_improvement.json
    proposal        \* the last that the endogenous source was given

growthVars ==
    <<up, phiIit, edges, skills, failed, turns, ticks, threshold, heard, kept, proposal>>

knownVars == <<phiIit, edges, skills, failed>>

-----------------------------------------------------------------------------
InvPhi == 618
InvPhi2 == 382
(* The bounds of the model. *)
Bounded(n, most) == IF n > most THEN most ELSE n

NoProposal == [idea |-> "none", phi |-> 0]

(* min(1.0, n / enough).                                                    *)
(* Mutant: without the cap. *)
Uncapped(n, enough) == n

Capped(n, enough) == IF n > enough THEN enough ELSE n

(* compute_maturity > threshold.  The average confidence is the one of an  *)
(* empty history: record_result has no caller.                             *)
ShouldActivate(phi, known) ==
    phi * Capped(known, EdgesKnown) * InvPhi2 * Capped(skills, SkillsKnown)
        > threshold * 1000 * EdgesKnown * SkillsKnown

(* SelfImprovement.propose: the idea that promises most, or none; that it   *)
(* failed before is not a reason to take the second best.                  *)
BestIdeas(ideas) == {i \in ideas : \A j \in ideas : j.impact <= i.impact}

Propose(ideas, phi, known) ==
    IF ShouldActivate(phi, known) /\ ideas # {}
    THEN LET best == CHOOSE i \in BestIdeas(ideas) : TRUE IN
         IF best.name \in failed THEN proposal ELSE [idea |-> best.name, phi |-> phi]
    ELSE proposal

(* Lexicon.learn, for words heard in one message. *)
Learn(words) ==
    [w \in Vocabulary |-> IF w \in words THEN Bounded(heard[w] + 1, MaxSeen) ELSE heard[w]]

(* What the files keep, and what a start makes of them. *)
SavedWords == heard
SavedThreshold(written) == IF written THEN threshold ELSE kept.threshold
LoadedWords == kept.heard
LoadedThreshold ==
    IF kept.threshold < 236 THEN 236 ELSE IF kept.threshold > 1618 THEN 1618 ELSE kept.threshold

-----------------------------------------------------------------------------
GrowthInit ==
    /\ up = FALSE
    /\ phiIit = 0 /\ edges = 0 /\ skills = 0 /\ failed = {}
    /\ turns = 0 /\ ticks = 0
    /\ threshold = InvPhi
    /\ heard = [w \in Vocabulary |-> 0]
    /\ kept = [threshold |-> InvPhi, heard |-> heard]
    /\ proposal = NoProposal

(* CognitiveLoop._init_v35_components: a new process learns from the files. *)
StartGrowth ==
    /\ ~up
    /\ up' = TRUE
    /\ threshold' = LoadedThreshold
    /\ heard' = LoadedWords
    /\ ticks' = 0
    /\ proposal' = NoProposal
    /\ UNCHANGED <<phiIit, edges, skills, failed, turns, kept>>

(* A turn: a step of psi, new edges by co-occurrence, the words, and every  *)
(* Period steps a proposal.                                                *)
GrowthTurn ==
    /\ up
    /\ turns' = (turns + 1) % Period
    /\ \E phi \in PhiIits : phiIit' = phi
    /\ \E words \in SUBSET Vocabulary : heard' = Learn(words)
    /\ \E more \in {0, 1} : edges' = Bounded(edges + more, MaxEdges)
    /\ \E ideas \in SUBSET Ideas :
        proposal' = IF turns' = 0 THEN Propose(ideas, phiIit', edges') ELSE proposal
    /\ UNCHANGED <<up, skills, failed, ticks, threshold, kept>>

(* A tick, which evolves psi while no chat is attached. *)
GrowthTick ==
    /\ up
    /\ ticks' = (ticks + 1) % Period
    /\ \E phi \in PhiIits : phiIit' = phi
    /\ \E ideas \in SUBSET Ideas :
        proposal' = IF ticks' = 0 THEN Propose(ideas, phiIit', edges) ELSE proposal
    /\ UNCHANGED <<up, edges, skills, failed, turns, threshold, heard, kept>>

(* DreamLearning.learn_from_cycles: a skill for each cycle that moved phi,  *)
(* the same cycles again in the next dream.                                *)
LearnSkill ==
    /\ up
    /\ skills' = Bounded(skills + 1, MaxSkills)
    /\ \E i \in Ideas : failed' \in {failed, failed \cup {i.name}}
    /\ UNCHANGED <<up, phiIit, edges, turns, ticks, threshold, heard, kept, proposal>>

(* save_v35_state writes file after file; an error leaves out the rest.    *)
SaveGrowth ==
    /\ up
    /\ \E all \in BOOLEAN : kept' = [heard |-> SavedWords, threshold |-> SavedThreshold(all)]
    /\ UNCHANGED <<up, turns, ticks, threshold, heard, proposal>> /\ UNCHANGED knownVars

KillGrowth ==
    /\ up
    /\ up' = FALSE
    /\ UNCHANGED <<turns, ticks, threshold, heard, kept, proposal>> /\ UNCHANGED knownVars

GrowthNext ==
    StartGrowth \/ GrowthTurn \/ GrowthTick \/ LearnSkill \/ SaveGrowth \/ KillGrowth

GrowthSpec == GrowthInit /\ [][GrowthNext]_growthVars

-----------------------------------------------------------------------------
(* Nothing but integration makes Luna propose: with the threshold and the  *)
(* confidence that no result ever moves, no number of edges and skills,    *)
(* even of the same cycles dreamt again and again, stands in for a phi_iit *)
(* of at least phi.  And a word, once saved, is heard no less by whatever  *)
(* process follows.                                                        *)
RipeByIntegration ==
    /\ threshold = InvPhi /\ kept.threshold = InvPhi
    /\ proposal # NoProposal => 382 * proposal.phi > 618 * 1000
    /\ up => \A w \in Vocabulary : kept.heard[w] <= heard[w]
=============================================================================
