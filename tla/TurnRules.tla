----------------------------- MODULE TurnRules -----------------------------
(***************************************************************************)
(* What a turn makes of a thought: the deltas it evolves psi with, the     *)
(* promoted sensors under their cap (luna/consciousness/reactor.py,        *)
(* ChatSession._input_evolve), the decision (decider.py), the reward of    *)
(* the cycle (evaluator.py), which the next thought observes.              *)
(***************************************************************************)
EXTENDS Thinker

CONSTANTS
    Promoted,       \* confidences of a promoted sensor's observation
    Divergences,    \* values of JS(psi, Psi0) when psi is not Psi0
    HistoryMost,    \* rewards remembered (50 in the code)
    HistoryKept     \* rewards kept when there are more (30)

ASSUME TurnAssumption ==
    /\ Promoted \subseteq 0..1000
    /\ Divergences \subseteq 1..1000
    /\ HistoryKept \in 1..HistoryMost

VARIABLES
    asked,          \* the message's kind and the SessionContext
    sensors,        \* observations of promoted sensors
    reaction,       \* the deltas given to evolve
    decision,       \* the ConsciousDecision
    rewards         \* _reward_history

turnVars == <<thinkerVars, asked, sensors, reaction, decision, rewards>>

(* The magnitude of four deltas. *)
SumOf(f) == Magnitude(f[1]) + Magnitude(f[2]) + Magnitude(f[3]) + Magnitude(f[4])
Clamped(v) == IF v > 1000 THEN 1000 ELSE IF v < -1000 THEN -1000 ELSE v

-----------------------------------------------------------------------------
(* The reactor. *)
ObsWeight == InvPhi2
DeltaClamp == InvPhi

(* compute_observation_deltas, component c. *)
ObservationDelta(obs, c) ==
    SumOfAll([i \in DOMAIN obs |-> IF obs[i].comp = c THEN Times(obs[i].conf, ObsWeight) ELSE 0])

(* The share of observations some cause or effect names. *)
CausalDensity(t) ==
    LET linked == UNION {{e[1], e[2]} : e \in DOMAIN t.causal}
        some == {i \in DOMAIN t.obs : t.obs[i].tag \in linked}
    IN  IF t.obs = <<>> THEN 0 ELSE (1000 * Cardinality(some)) \div Len(t.obs)

(* Causes are reflexion, needs integration, proposals expression. *)
ThoughtDelta(t, synthesized, c) ==
    LET links == SetToSeq(DOMAIN t.causal) IN
    CASE c = 0 -> 0
      [] c = 1 -> InvPhi2 + SumOfAll([i \in DOMAIN links |->
                                Times(Times(t.causal[links[i]], ObsWeight), InvPhi3)])
      [] c = 2 -> SumOfAll([i \in DOMAIN t.needs |->
                                Times(Times(t.needs[i].priority, ObsWeight), InvPhi3)])
      [] c = 3 -> SumOfAll([i \in DOMAIN t.proposals |->
                                Times(Times(AtMost(t.proposals[i].impact, 1000), ObsWeight), InvPhi2)])
                  + (IF synthesized THEN Times(CausalDensity(t), InvPhi2) ELSE 0)

React(t, synthesized) == [i \in 1..4 |->
    AtMost(DeltaClamp, ObservationDelta(t.obs, i - 1) + ThoughtDelta(t, synthesized, i - 1))]

(* Mutant: what the sensors say is added as it is. *)
AddInfoDeltas(base, factory) == [i \in 1..4 |-> base[i] + factory[i]]

(* cap_info_deltas: promoted sensors add a quarter of the base at most.    *)
CapInfoDeltas(base, factory) ==
    LET most == SumOf(base) \div 4
        capped == [i \in 1..4 |->
            IF SumOf(base) # 0 /\ SumOf(factory) > most
            THEN (factory[i] * most) \div SumOf(factory) ELSE factory[i]]
    IN  [i \in 1..4 |-> base[i] + capped[i]]

(* Two passes with promoted sensors: the thought handed to the reactor is  *)
(* a copy of it without them, and without its synthesis.                   *)
InputDeltas(t, factory) ==
    IF factory = <<>> THEN React(t, TRUE)
    ELSE CapInfoDeltas(React(t, FALSE), [i \in 1..4 |-> ObservationDelta(factory, i - 1)])

-----------------------------------------------------------------------------
(* The decider. *)
Rank(order, x) == CHOOSE i \in DOMAIN order : order[i] = x
Capped(order, x, most) == IF Rank(order, x) > Rank(order, most) THEN most ELSE x

Tones == <<"prudent", "stable", "confident", "creative", "contemplative">>
Depths == <<"minimal", "concise", "detailed", "profound">>
Phases == <<"BROKEN", "FRAGILE", "FUNCTIONAL", "SOLID", "EXCELLENT">>

Aroused(s) == s.affect # <<>> /\ s.affect[2] > InvPhi

ResolveIntent(s, message, done) ==
    CASE s.identity = "altered" -> "alert"
      [] s.identity # "altered" /\ message = "/dream" -> "dream"
      [] s.identity # "altered" /\ message = "/status" -> "introspect"
      [] s.identity # "altered" /\ message \notin {"/dream", "/status"} ->
            IF s.phase = "BROKEN" /\ s.phi < 100 /\ done >= 5 THEN "alert"
            ELSE IF Aroused(s) /\ s.affect[1] < -InvPhi2 THEN "introspect" ELSE "respond"

(* The component observed most, or else psi's. *)
Heaviest(w) == CHOOSE i \in 1..4 : (\A j \in 1..4 : w[i] >= w[j]) /\ (\A j \in 1..(i - 1) : w[j] < w[i])
Focus(t, v) ==
    LET weights == [i \in 1..4 |-> SumOfAll([k \in DOMAIN t.obs |->
                        IF t.obs[k].comp = i - 1 THEN t.obs[k].conf ELSE 0])]
    IN  Heaviest(IF SumOf(weights) = 0 THEN v ELSE weights)

PhiDepth(s) ==
    LET base == CASE s.phi < 300 -> 1 [] s.phi \in 300..499 -> 2
                  [] s.phi \in 500..699 -> 3 [] s.phi >= 700 -> 4
    IN  Depths[IF Aroused(s) THEN AtMost(4, base + 1) ELSE base]

(* One initiative, the first whose rule holds. *)
Declining(phis) ==
    /\ Len(phis) >= 5
    /\ LET last == SubSeq(phis, Len(phis) - 4, Len(phis)) IN
       (\A i \in 1..4 : last[i] >= last[i + 1]) /\ last[1] - last[5] > 50

CheckInitiative(c) ==
    CASE Declining(c.phis) -> "steady yourself"
      [] ~Declining(c.phis) /\ c.turns - (IF c.lastDream < 0 THEN 0 ELSE c.lastDream) >= 50 -> "dream"
      [] OTHER -> IF c.repeated THEN "change angle" ELSE "none"

SelfReflection(s, c) ==
    LET before == c.phis[Len(c.phis)] known == Len(c.phis) >= 2 IN
    CASE known /\ s.phi - before > 50 -> "rising"
      [] known /\ before - s.phi > 50 -> "falling"
      [] known /\ Magnitude(s.phi - before) <= 50 /\ before < 500 /\ s.phi >= 500 -> "firmer"
      [] known /\ Magnitude(s.phi - before) <= 50 /\ s.phi < 500 /\ before >= 500 -> "weaker"
      [] OTHER -> IF c.dreamt THEN "dream" ELSE "none"

(* With equal priors psi's greatest component chooses the mode; of equal   *)
(* ones the first by name.                                                 *)
SelectMode(v) ==
    LET score == [architect |-> v[4], debugger |-> v[1], mentor |-> v[2], reviewer |-> v[3]]
        names == <<"architect", "debugger", "mentor", "reviewer">>
    IN  names[Heaviest([i \in 1..4 |-> score[names[i]]])]

Decide(t, s, a) ==
    LET brief == a.message = "brief"
        tone == Tones[Rank(Phases, s.phase)]
    IN  [intent |-> ResolveIntent(s, a.message, a.steps),
         tone |-> IF brief THEN Capped(Tones, tone, "stable") ELSE tone,
         focus |-> Focus(t, s.psi),
         depth |-> IF brief THEN Capped(Depths, PhiDepth(s), "concise") ELSE PhiDepth(s),
         initiative |-> CheckInitiative(a), reflection |-> SelfReflection(s, a),
         mode |-> SelectMode(s.psi)]

-----------------------------------------------------------------------------
(* The evaluator: nine components of a cycle, in -1000..1000. *)
Least(v) == CHOOSE x \in {v[i] : i \in 1..4} : \A i \in 1..4 : x <= v[i]
Unit(v) == IF v < 0 THEN 0 ELSE AtMost(v, 1000)

AntiCollapse(v) == Clamped(8 * Least(v) - 1000)
IntegrationCoherence(phi) ==
    IF phi <= 330 THEN -1000 ELSE Clamped((2000 * (phi - 330)) \div 1288 - 1000)
ReflectionDepth(t) ==
    Unit((1000 * (t.conf - InvPhi3)) \div 264)
    + Unit((1000 * (Cardinality(DOMAIN t.causal) - 5)) \div 45) - 1000
PerceptionAcuity(obs) ==
    IF obs = <<>> THEN -1000
    ELSE 2 * (120 * AtMost(Len(obs), 5) + 100 * AtMost(Cardinality(Tags(obs)), 4)) - 1000
AffectRegulation(s) ==
    IF s.affect = <<>> THEN 0
    ELSE LET gloom == -s.affect[1] - 500 IN
         Clamped(1000 - 2 * Magnitude(s.affect[2] - 300) - (IF gloom > 0 THEN gloom ELSE 0))
MemoryVitality(t, timely) ==
    2 * ((IF t.obs # <<>> THEN 400 ELSE 0) + (IF t.needs # <<>> THEN 300 ELSE 0)
         + (IF timely THEN 300 ELSE 0)) - 1000

Evaluate(t, s, stability, severity, timely) ==
    [constitution_integrity |-> IF s.identity = "altered" THEN -1000 ELSE 1000,
     anti_collapse |-> AntiCollapse(s.psi), integration_coherence |-> IntegrationCoherence(s.phi),
     identity_stability |-> stability, reflection_depth |-> ReflectionDepth(t),
     perception_acuity |-> PerceptionAcuity(t.obs), expression_fidelity |-> 1000 - severity,
     affect_regulation |-> AffectRegulation(s), memory_vitality |-> MemoryVitality(t, timely)]

(* Rewards compare by the first group of components they differ in. *)
Groups(r) == <<r.constitution_integrity + r.anti_collapse,
    r.integration_coherence + r.identity_stability, r.reflection_depth, r.perception_acuity,
    r.expression_fidelity, r.affect_regulation + r.memory_vitality>>

Dominates(r, q) == \E g \in 1..6 :
    Groups(r)[g] > Groups(q)[g] /\ \A h \in 1..(g - 1) : Groups(r)[h] = Groups(q)[h]

DominanceRank(r, past) == Cardinality({i \in DOMAIN past : Dominates(past[i].reward, r)})

-----------------------------------------------------------------------------
(* A turn: the thought, the reaction, the decision, the record. *)
UserTurn == [mode |-> "RESPONSIVE", max |-> 10]

Plain == [message |-> "plain", steps |-> 5, turns |-> 1, lastDream |-> -1, repeated |-> FALSE,
          phis |-> <<700, 700>>, dreamt |-> FALSE]

Contexts ==
    {[Plain EXCEPT !.message = m, !.steps = n] :
        m \in {"plain", "brief", "/dream", "/status"}, n \in {0, 5}}
    \cup {[Plain EXCEPT !.phis = p, !.turns = n, !.lastDream = d, !.repeated = r, !.dreamt = ~r] :
        p \in {<<>>, <<700, 690, 680, 660, 640>>, <<450, 490>>}, n \in {5, 60}, d \in {-1, 4, 20},
        r \in BOOLEAN}

SensorObs == {<<>>} \cup {Obs(TRUE, "env", x[1], x[2]) : x \in {0, 3} \X Promoted}

(* The sensors' observations become the thought's last ones. *)
InputEvolve ==
    /\ ended = "thought" /\ call = UserTurn
    /\ \E factory \in SensorObs :
          /\ sensors' = factory
          /\ reaction' = InputDeltas(thought, factory)
          /\ thought' = [thought EXCEPT !.obs = @ \o factory]
    /\ ended' = "evolved"
    /\ UNCHANGED <<stimulus, call, previous, asked, decision, rewards>>

Respond ==
    /\ ended = "evolved"
    /\ decision' = Decide(thought, stimulus, asked)
    /\ ended' = "decided"
    /\ UNCHANGED <<stimulus, call, previous, thought, asked, sensors, reaction, rewards>>

Stabilities(v) == IF v = Psi0 THEN {1000} ELSE {1000 - 2 * js : js \in Divergences}

Remembered(history, r) ==
    LET longer == Append(history, [reward |-> r, rank |-> DominanceRank(r, history)])
        n == Len(longer)
    IN  IF n > HistoryMost THEN SubSeq(longer, n - HistoryKept + 1, n) ELSE longer

(* _record_cycle, and the next message: its thinker sees the reward. *)
RecordCycle ==
    /\ ended = "decided"
    /\ \E stability \in Stabilities(stimulus.psi), troubled \in BOOLEAN :
          LET r == Evaluate(thought, stimulus, stability, IF troubled THEN 500 ELSE 0, ~troubled) IN
          /\ rewards' = Remembered(rewards, r)
          /\ stimulus' = [Calm EXCEPT !.psi = stimulus.psi, !.before = stimulus.psi,
                              !.affect = stimulus.affect, !.reward = r]
    /\ asked' = Plain
    /\ thought' = Blank
    /\ ended' = "new"
    /\ UNCHANGED <<call, previous, sensors, reaction, decision>>

(* The thoughts outside turns (idle, dream, self-improvement) change       *)
(* nothing here.                                                           *)
NextThought ==
    /\ ended = "thought" /\ call # UserTurn
    /\ ended' = "new" /\ thought' = Blank
    /\ UNCHANGED <<stimulus, call, previous, asked, sensors, reaction, decision, rewards>>

TurnInit ==
    /\ \/ stimulus \in ToldOf /\ call \in Calls /\ asked = Plain
       \/ stimulus \in FeltAs /\ call = UserTurn /\ asked = Plain
       \/ stimulus \in Moods /\ call = UserTurn /\ asked = Plain
       \/ stimulus \in Moods /\ stimulus.psi = Psi0 /\ call = UserTurn /\ asked \in Contexts
    /\ thought = Blank /\ previous = 0 /\ ended = "new"
    /\ sensors = <<>> /\ reaction = <<0, 0, 0, 0>> /\ decision = "none" /\ rewards = <<>>

TurnRulesNext ==
    \/ ThinkerNext /\ UNCHANGED <<asked, sensors, reaction, decision, rewards>>
    \/ InputEvolve \/ Respond \/ RecordCycle \/ NextThought

TurnRulesSpec == TurnInit /\ [][TurnRulesNext]_turnVars

-----------------------------------------------------------------------------
SensorDeltas(base, reacted) == SumOf([i \in 1..4 |-> reacted[i] - base[i]])
OwnObservations == SubSeq(thought.obs, 1, Len(thought.obs) - Len(sensors))
Own(synthesized) == React([thought EXCEPT !.obs = OwnObservations], synthesized)

(* Promoted sensors move psi by at most a fifth of a turn's deltas, when   *)
(* the turn has any of its own (cap_info_deltas), compared with the pass   *)
(* that left the synthesis out.                                            *)
FifthAtMost ==
    ended = "evolved" /\ sensors # <<>> =>
        5 * SensorDeltas(Own(FALSE), reaction) <= SumOf(reaction)

=============================================================================
