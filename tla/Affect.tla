------------------------------- MODULE Affect -------------------------------
(***************************************************************************)
(* What Luna feels: the affect and the mood a turn or a remembered episode *)
(* moves (luna/consciousness/affect.py, appraisal.py), the dreams that     *)
(* bring episodes back and rest (dream_cycle.py _dream_affect), and the    *)
(* impulses of a change of feeling (endogenous.py register_affect).        *)
(*                                                                         *)
(* Numbers are thousandths; a feeling is <<valence, arousal, dominance>>.  *)
(* The words for feelings are data outside the repository and left out.    *)
(***************************************************************************)
EXTENDS Integers, Sequences, FiniteSets

CONSTANTS
    PhiMoves,       \* values of reward_delta: phi after a turn less phi before
    RankMoves,      \* differences of two dominance ranks
    Drifts,         \* values of compute_psi0_drift
    MaxTurns, MaxNights     \* bounds

ASSUME AffectAssumption ==
    /\ PhiMoves \subseteq -1000..1000 /\ RankMoves \subseteq Int /\ Drifts \subseteq 0..1000
    /\ MaxTurns \in Nat /\ MaxNights \in Nat

VARIABLES
    feeling, mood,  \* AffectState and Mood
    remembered,     \* episodes with an AffectiveTrace
    lastValence,    \* EndogenousSource._last_valence
    impulse,        \* what register_affect pushed last
    feelingsFile,   \* affect_engine.json and the traces of episodic_memory.json
    turns, nights   \* turns and dreams felt (bounds)

affectVars == <<feeling, mood, remembered, lastValence, impulse, feelingsFile, turns, nights>>

Rest == <<0, 0, 500>>
Part(a, b) == (a * b) \div 1000
Within01(x) == IF x < 0 THEN 0 ELSE IF x > 1000 THEN 1000 ELSE x
Within11(x) == IF x < -1000 THEN -1000 ELSE IF x > 1000 THEN 1000 ELSE x
Size(x) == IF x < 0 THEN -x ELSE x
Of(v, a, d) == <<Within11(v), Within01(a), Within01(d)>>

-----------------------------------------------------------------------------
(* The appraisal of a turn.  The session sends no streaks, no veto, no     *)
(* autonomy and no identity_integrity: novelty, coping and agency are the  *)
(* same every time.                                                        *)
GoalCongruence(move, rank) == Within11(Part(700, Within11(2 * move)) + Part(300, Within11(1000 * rank)))

NormAlignment(drift, move) ==
    LET self == Within01(1000 - (1000 * drift) \div 618)
        pipeline == IF move < -100 THEN 236 ELSE 1000
    IN  (1618 * self + 1000 * 1000 + 618 * pipeline) \div 3236

Appraise(move, rank, drift) ==
    [novelty |-> 800, congruence |-> GoalCongruence(move, rank), coping |-> 500, agency |-> 500,
     norm |-> NormAlignment(drift, move)]

(* Of an episode: what it was then against the mood of now. *)
AppraiseRecall(valence, now) ==
    [novelty |-> 236, congruence |-> Within11(now[1] - valence), coping |-> now[3], agency |-> 0,
     norm |-> Within01(valence \div 2 + 500)]

(* Mutant: being able to cope does not calm. *)
ToPadUncalmed(a) == Of(Part(a.congruence, a.norm), a.novelty, Part(a.coping, a.agency))

ToPad(a) ==
    Of(Part(a.congruence, a.norm), Part(a.novelty, 1000 - Part(a.coping, 618)), Part(a.coping, a.agency))

Moved1(from, to, share) == Part(1000 - share, from) + Part(share, to)
Toward(from, to, share) ==
    Of(Moved1(from[1], to[1], share), Moved1(from[2], to[2], share), Moved1(from[3], to[3], share))

Impulsed(m, significance, change) ==
    LET force == Part(significance, 618)
    IN  Of(m[1] + Part(change, force), m[2] + Part(Part(Size(change), force), 618), m[3])

(* AffectEngine.process; what it makes of a heart, <<affect, mood>>. *)
Process(heart, appraisal, significance) ==
    LET next == Toward(heart[1], ToPad(appraisal), 382)
        slow == Toward(heart[2], next, 236)
    IN  <<next, IF significance > 700 THEN Impulsed(slow, significance, appraisal.congruence) ELSE slow>>

(* Episodes felt again, each with the mood the one before it left. *)
Relive(heart, relived) ==
    LET recalled(h, e) == Process(h, AppraiseRecall(e.valence, h[2]), e.significance)
        felt[i \in 0..Len(relived)] == IF i = 0 THEN heart ELSE recalled(felt[i - 1], relived[i])
    IN  felt[Len(relived)]

(* register_affect *)
RegisterAffect(f) ==
    /\ lastValence' = f[1]
    /\ impulse' = IF f[2] > 618 THEN "arousal"
                  ELSE IF Size(f[1] - lastValence) > 382 /\ lastValence * f[1] < 0 THEN "inversion"
                  ELSE "none"

-----------------------------------------------------------------------------
AffectInit ==
    /\ feeling = Rest /\ mood = Rest /\ remembered = {} /\ turns = 0 /\ nights = 0
    /\ lastValence = 0 /\ impulse = "none"
    /\ feelingsFile = [feeling |-> Rest, mood |-> Rest, remembered |-> {}]

(* ChatSession.send, 7.6 to 9.5. *)
FeelTurn ==
    /\ turns < MaxTurns /\ turns' = turns + 1
    /\ \E move \in PhiMoves, rank \in RankMoves, drift \in Drifts :
          LET significance == Within01((1000 * Size(move)) \div 382)
              heart == Process(<<feeling, mood>>, Appraise(move, rank, drift), significance)
          IN  /\ feeling' = heart[1] /\ mood' = heart[2]
              /\ remembered' = IF significance > 700
                     THEN remembered \cup {[valence |-> heart[1][1], significance |-> significance]}
                     ELSE remembered
    /\ RegisterAffect(feeling')
    /\ UNCHANGED <<feelingsFile, nights>>

(* An idle tick. *)
FeelIdle ==
    /\ RegisterAffect(feeling)
    /\ UNCHANGED <<feeling, mood, remembered, feelingsFile, turns, nights>>

(* _dream_affect: up to three episodes are felt again; then rest. *)
DreamAffect ==
    /\ nights < MaxNights /\ nights' = nights + 1
    /\ \E n \in 0..3 : \E relived \in [1..n -> remembered] :
          LET heart == Relive(<<feeling, mood>>, relived)
              m == heart[2]
          IN  /\ \A i, j \in 1..n : relived[i] = relived[j] => i = j
              /\ feeling' = heart[1]
              /\ mood' = <<Part(850, m[1]), Part(700, m[2]), m[3]>>
    /\ UNCHANGED <<remembered, lastValence, impulse, feelingsFile, turns>>

SaveFeelings ==
    /\ feelingsFile' = [feeling |-> feeling, mood |-> mood, remembered |-> remembered]
    /\ UNCHANGED <<feeling, mood, remembered, lastValence, impulse, turns, nights>>

(* A restart: what was not saved is lost, and the source starts anew. *)
RestartFeelings ==
    /\ feeling' = feelingsFile.feeling /\ mood' = feelingsFile.mood
    /\ remembered' = feelingsFile.remembered
    /\ lastValence' = 0 /\ impulse' = "none"
    /\ UNCHANGED <<feelingsFile, turns, nights>>

AffectNext == FeelTurn \/ FeelIdle \/ DreamAffect \/ SaveFeelings \/ RestartFeelings

AffectSpec == AffectInit /\ [][AffectNext]_affectVars

-----------------------------------------------------------------------------
(* Luna is never aroused, whatever happened and was remembered: the rules  *)
(* for high arousal in the thinker, the decider and the endogenous source  *)
(* never fire (thinker.py:545, decider.py:358, 403, endogenous.py:187).    *)
StaysCalm == feeling[2] < 618 /\ impulse # "arousal"
=============================================================================
