------------------------------ MODULE Thinker ------------------------------
(***************************************************************************)
(* One call of Thinker.think (luna/consciousness/thinker.py): what is      *)
(* observed in a stimulus, the causes, needs and proposals found in it,    *)
(* and the iterations that deepen the thought until it converges.          *)
(*                                                                         *)
(* Numbers are thousandths.  The confidence of a thought is a correlation  *)
(* of its four vectors: any value, but the same for the same vectors.      *)
(***************************************************************************)
EXTENDS Integers, Sequences, FiniteSets, FiniteSetsExt, SequencesExt, Sums

CONSTANTS
    Confidences,    \* the values a correlation may take
    MetricValues,   \* the values of a measured metric
    Factor          \* 4 x the learnable weight of the needs of Integration

ASSUME ThinkerAssumption ==
    /\ Confidences \subseteq 0..1000 /\ 0 \in Confidences
    /\ MetricValues \subseteq 0..1000
    /\ Factor \in 400..2000             \* bounds of LearnableParams

VARIABLES
    stimulus,       \* the Stimulus, the causal graph included
    call,           \* mode and max_iterations of the call
    thought,        \* the Thought
    previous,       \* prev_conf
    ended           \* "found", "deepening" or "thought"

thinkerVars == <<stimulus, call, thought, previous, ended>>

InvPhi == 618
InvPhi2 == 382
InvPhi3 == 236
Times(a, b) == (a * b) \div 1000
(* The weights of the other three components are at their default.          *)
Weight(comp) == IF comp = 2 THEN Factor ELSE 1000
AtMost(a, b) == IF a < b THEN a ELSE b
Magnitude(a) == IF a < 0 THEN -a ELSE a
Square(a) == a * a

CompNames == <<"Perception", "Reflexion", "Integration", "Expression">>
Psi0 == <<260, 322, 250, 168>>
MetricNames == <<"integration_coherence", "identity_anchoring", "reflection_depth",
    "perception_acuity", "expression_fidelity", "affect_regulation", "memory_vitality">>
MetricComponent == <<2, 2, 1, 0, 3, 1, 2>>

(* What is observed of a component and of a metric is named after it.      *)
Dominant == <<"dominant_Perception", "dominant_Reflexion", "dominant_Integration",
    "dominant_Expression">>
Weak == <<"weak_Perception", "weak_Reflexion", "weak_Integration", "weak_Expression">>
Emergent == <<"emergent_Perception", "emergent_Reflexion", "emergent_Integration",
    "emergent_Expression">>
Active == <<"active_Perception", "active_Reflexion", "active_Integration", "active_Expression">>
MetricLow == <<"metric_low_integration_coherence", "metric_low_identity_anchoring",
    "metric_low_reflection_depth", "metric_low_perception_acuity",
    "metric_low_expression_fidelity", "metric_low_affect_regulation",
    "metric_low_memory_vitality">>

-----------------------------------------------------------------------------
(* Observations: a tag, the component it belongs to, a confidence.         *)
Obs(when, tag, comp, conf) ==
    IF when THEN <<[tag |-> tag, comp |-> comp, conf |-> conf]>> ELSE <<>>

PhaseAndPhi(s) ==
    Obs(s.phase \in {"BROKEN", "FRAGILE"}, "low_phase", 0, 1000)
    \o Obs(s.phi < InvPhi2, "phi_critical", 0, 1000)
    \o Obs(s.phi \in InvPhi2..(InvPhi - 1), "phi_low", 0, 800)

(* A component is judged against Psi0: weak, active or emergent. *)
ComponentObs(x, i) ==
    LET ratio == (1000 * x) \div Psi0[i] IN
    Obs(x > InvPhi, Dominant[i], i - 1, x)
    \o Obs(ratio < 1000, Weak[i], i - 1, 1000 - ratio)
    \o Obs(ratio >= 1618, Emergent[i], i - 1, 1000)
    \o Obs(ratio \in 1236..1617, Active[i], i - 1, ratio - 1000)

PsiObs(s) == FlattenSeq([i \in 1..4 |-> ComponentObs(s.psi[i], i)])

(* metrics holds what was measured; a metric that was not is absent. *)
MetricObs(s) == FlattenSeq([i \in 1..7 |->
    IF MetricNames[i] \notin DOMAIN s.metrics THEN <<>>
    ELSE LET v == s.metrics[MetricNames[i]] IN
         Obs(v < InvPhi, MetricLow[i], MetricComponent[i], 1000 - v)])

(* The mean of the difference of two states of the trajectory. *)
Drift(old, new) ==
    (new[1] - old[1] + new[2] - old[2] + new[3] - old[3] + new[4] - old[4]) \div 4

TrajectoryObs(s) ==
    LET drift == Drift(s.before, s.psi) IN
    Obs(drift < -InvPhi3, "trajectory_declining", 1, AtMost(1000, -drift))
    \o Obs(drift > InvPhi3, "trajectory_rising", 1, AtMost(1000, drift))

(* The standard deviation of the components, whose mean is 250. *)
Deviation(v) ==
    LET variance == (Square(v[1] - 250) + Square(v[2] - 250)
                     + Square(v[3] - 250) + Square(v[4] - 250)) \div 4
    IN  CHOOSE r \in 0..1000 : Square(r) <= variance /\ variance < Square(r + 1)

HealthObs(s) ==
    Obs(s.phase \in {"SOLID", "EXCELLENT"}, "high_phase", 2, 800)
    \o Obs(s.phi >= InvPhi, "phi_healthy", 2, AtMost(1000, s.phi))
    \o Obs(s.phi > 1000, "phi_excellent", 2, AtMost(1000, Times(s.phi, InvPhi)))
    \o Obs(Deviation(s.psi) < InvPhi3, "psi_balanced", 1,
           1000 - (1000 * Deviation(s.psi)) \div InvPhi3)
    \o Obs(s.message, "user_stimulus", 0, 1000)

(* affect is <<valence, arousal, dominance>>, <<>> without an engine. *)
AffectObs(s) ==
    IF s.affect = <<>> THEN <<>>
    ELSE LET valence == s.affect[1] arousal == s.affect[2] dominance == s.affect[3] IN
         Obs(valence >= InvPhi2, "affect_positive", 1, Times(InvPhi2, valence))
         \o Obs(-valence >= InvPhi2, "affect_negative", 1, Times(InvPhi2, -valence))
         \o Obs(arousal >= InvPhi, "affect_aroused", 0, Times(InvPhi2, arousal))
         \o Obs(dominance < InvPhi3, "affect_vulnerable", 2, Times(InvPhi2, 1000 - dominance))

EpisodeObs(s) == FlattenSeq([i \in DOMAIN s.episodes |->
    LET e == s.episodes[i] IN
    Obs(e.gain > InvPhi3, "episodic_positive", 2, Times(e.similarity, InvPhi2))
    \o Obs(e.gain < -InvPhi3, "episodic_negative", 0, Times(e.similarity, InvPhi2))
    \o Obs(Magnitude(e.gain) <= InvPhi3, "episodic_neutral", 1, Times(e.similarity, InvPhi3))
    \o Obs(e.pinned, "episodic_founding", 1, Times(e.similarity, InvPhi))])

(* What the subsystems have done: counts of which only "any" matters. *)
SelfObs(s) ==
    Obs("episodes" \in s.self, "self_episodic_memory", 1, InvPhi3)
    \o Obs("dreams" \in s.self, "self_dream_history", 2, InvPhi3)
    \o Obs("dreams" \notin s.self /\ "can_dream" \in s.self, "self_no_dreams", 1, InvPhi3)
    \o Obs("corrections" \in s.self, "self_voice_corrected", 0, InvPhi2)
    \o Obs("ticks" \in s.self, "self_autonomous_life", 1, InvPhi3)
    \o Obs("impulses" \in s.self, "self_endogenous_active", 3, InvPhi3)

(* The last dream: its skills one by one, its simulations as a whole, the  *)
(* first three needs and two proposals of its reflection.                  *)
Stability(sims) == SumOfAll([i \in DOMAIN sims |-> sims[i].stability]) \div Len(sims)
BestGain(sims) == Max({0} \cup {sims[i].gain : i \in DOMAIN sims})

DreamObs(s) ==
    FlattenSeq([i \in DOMAIN s.skills |-> LET k == s.skills[i] IN
        Obs(k.good, "dream_skill_positive", k.comp, Times(k.conf, InvPhi2))
        \o Obs(~k.good, "dream_skill_negative", 0, Times(k.conf, InvPhi2))])
    \o (IF s.sims = <<>> THEN <<>> ELSE
        LET risk == 1000 - Stability(s.sims) gain == BestGain(s.sims) IN
        Obs(risk > InvPhi3, "dream_sim_risk", 2, Times(risk, InvPhi3))
        \o Obs(gain > InvPhi3, "dream_sim_opportunity", 3, Times(AtMost(gain, 1000), InvPhi3)))
    \o FlattenSeq([i \in 1..AtMost(3, Len(s.reflection.needs)) |->
        Obs(TRUE, "dream_unresolved_need", 2,
            Times(Times(s.reflection.needs[i], s.reflection.conf), InvPhi2))])
    \o FlattenSeq([i \in 1..AtMost(2, Len(s.reflection.proposals)) |->
        Obs(TRUE, "dream_pending_proposal", 3,
            Times(Times(AtMost(s.reflection.proposals[i], 1000), s.reflection.conf), InvPhi2))])
    \o Obs(s.journal, "dream_journal_recall", 1, Times(InvPhi3, InvPhi3))

(* The reward of the cycle before, a component of which speaks up only     *)
(* when it is bad.  reward is <<>> before the first cycle.                 *)
Breach(when, tag, comp, value) ==
    Obs(when, tag, comp, Times(AtMost(Magnitude(value), 1000), InvPhi3))

RewardObs(s) ==
    IF DOMAIN s.reward = {} THEN <<>>
    ELSE LET r == s.reward IN
         Obs(r.constitution_integrity < 0, "reward_constitution_breach", 0, InvPhi3)
         \o Obs(r.anti_collapse < 0, "reward_collapse_risk", 0, InvPhi3)
         \o Breach(r.identity_stability < -InvPhi3, "reward_identity_drift", 2, r.identity_stability)
         \o Breach(r.reflection_depth < -InvPhi2, "reward_reflection_shallow", 1, r.reflection_depth)
         \o Breach(r.integration_coherence < -InvPhi2, "reward_integration_low", 2,
                   r.integration_coherence)
         \o Breach(r.affect_regulation < -InvPhi2, "reward_affect_dysregulated", 1,
                   r.affect_regulation)
         \o Obs(\A c \in {"constitution_integrity", "anti_collapse", "integration_coherence",
                          "identity_stability", "reflection_depth"} : r[c] >= 0,
                "reward_healthy_cycle", 2, Times(InvPhi3, InvPhi2))

(* The promoted sensors are not here: the Thinker is built without the     *)
(* observation factory, and the session appends them to the thought.       *)
IdentityObs(s) ==
    Obs(s.identity = "intact", "identity_anchored", 1, 1000)
    \o Obs(s.identity = "altered", "identity_anchored", 1, InvPhi3)
    \o Obs(s.identity = "altered", "identity_drift", 0, 1000)

Observe(s) ==
    PhaseAndPhi(s) \o PsiObs(s) \o MetricObs(s) \o TrajectoryObs(s) \o HealthObs(s)
    \o AffectObs(s) \o EpisodeObs(s) \o SelfObs(s) \o DreamObs(s) \o RewardObs(s)
    \o IdentityObs(s)

Tags(obs) == {obs[i].tag : i \in DOMAIN obs}

-----------------------------------------------------------------------------
(* Causes: pairs written down, and those of the causal graph, between tags *)
(* both observed; of two strengths the greater.                            *)
HeuristicPairs == {
    <<"metric_low_identity_anchoring", "phi_low">>,
    <<"metric_low_integration_coherence", "phi_critical">>,
    <<"metric_low_reflection_depth", "weak_Reflexion">>,
    <<"metric_low_perception_acuity", "phi_low">>,
    <<"weak_Perception", "low_phase">>,
    <<"metric_low_memory_vitality", "weak_Expression">>,
    <<"trajectory_declining", "phi_low">>}

(* graph maps an edge <<cause, effect>> to whether it is confirmed. *)
FindCausalities(obs, graph) ==
    LET tags == Tags(obs)
        seen == {e \in HeuristicPairs \cup DOMAIN graph : e[1] \in tags /\ e[2] \in tags}
    IN  [e \in seen |-> IF e \in HeuristicPairs \/ graph[e] THEN InvPhi ELSE InvPhi2]

(* Needs: what to do about it, by which method, how pressing. *)
Need(what, priority, method, sources) ==
    [what |-> what, priority |-> priority, method |-> method, sources |-> sources]

NeedIf(tags, tag, what, priority, method) ==
    IF tag \in tags THEN <<Need(what, priority, method, {tag})>> ELSE <<>>

ConfidenceOf(obs, tag) == obs[CHOOSE i \in DOMAIN obs : obs[i].tag = tag].conf

MetricNeeds(obs) == FlattenSeq([i \in 1..7 |->
    LET tag == MetricLow[i] IN
    IF tag \notin Tags(obs) THEN <<>>
    ELSE <<Need(MetricNames[i], Times(ConfidenceOf(obs, tag), Weight(MetricComponent[i])),
                "pipeline", {tag})>>])

WeakNeeds(tags) == FlattenSeq([i \in 1..4 |->
    NeedIf(tags, Weak[i], CompNames[i], Times(700, Weight(i - 1)),
           IF i = 4 THEN "pipeline" ELSE "introspect")])

(* Of the causes only the bad ones are worth addressing. *)
Negative ==
    {Weak[i] : i \in 1..4} \cup {MetricLow[i] : i \in 1..7}
    \cup {"phi_critical", "phi_low", "low_phase", "trajectory_declining", "identity_drift"}

RootNeeds(causal) ==
    LET edge(c) == CHOOSE e \in DOMAIN causal : e[1] = c
    IN  [i \in 1..Cardinality({e[1] : e \in DOMAIN causal} \cap Negative) |->
            LET c == SetToSeq({e[1] : e \in DOMAIN causal} \cap Negative)[i]
            IN  Need(c, causal[edge(c)] \div 2, "pipeline", {c, edge(c)[2]})]

(* Mutant: the order in which the rules found them. *)
AsFound(needs) == needs

(* The sort is stable: a need goes behind all those as pressing.           *)
Behind(list, need) ==
    CHOOSE k \in 0..Len(list) :
        \A j \in 1..Len(list) : j <= k <=> list[j].priority >= need.priority

ByPriority(needs) ==
    LET sorted[i \in 0..Len(needs)] ==
            IF i = 0 THEN <<>>
            ELSE InsertAt(sorted[i - 1], Behind(sorted[i - 1], needs[i]) + 1, needs[i])
    IN  sorted[Len(needs)]

IdentifyNeeds(obs, causal) ==
    LET tags == Tags(obs) IN ByPriority(
        MetricNeeds(obs)
        \o NeedIf(tags, "low_phase", "consolidation", 1000, "dream")
        \o NeedIf(tags, "phi_critical", "deep reflection", 1000, "dream")
        \o NeedIf(tags, "phi_low", "improvement", 800, "introspect")
        \o NeedIf(tags, "trajectory_declining", "stabilization", 900, "introspect")
        \o WeakNeeds(tags) \o RootNeeds(causal))

(* A proposal for every need, its impact that of the need as it was then. *)
GenerateProposals(needs) == [i \in DOMAIN needs |->
    [for |-> needs[i].what,
     impact |-> Times(needs[i].priority, IF needs[i].method = "dream" THEN InvPhi3 ELSE InvPhi2)]]

(* The correlation of the vectors that are not empty. *)
Vectors(t) == <<t.obs, t.causal, t.needs, t.proposals>>
Correlations(t) ==
    IF Cardinality({i \in 1..4 : Vectors(t)[i] # <<>>}) < 2 THEN {0} ELSE Confidences

(* A calm state of mind, and what may differ from it: the state of the     *)
(* engine, and one of the senses at a time.                                *)
Calm == [message |-> TRUE, phase |-> "SOLID", phi |-> 700, psi |-> Psi0, before |-> Psi0,
    metrics |-> <<>>, affect |-> <<>>, episodes |-> <<>>, self |-> {}, skills |-> <<>>,
    sims |-> <<>>, reflection |-> [needs |-> <<>>, proposals |-> <<>>, conf |-> 0],
    journal |-> FALSE, reward |-> <<>>, identity |-> "none", graph |-> <<>>]

Psis == {Psi0, <<700, 100, 100, 100>>, <<200, 200, 200, 400>>, <<250, 250, 250, 250>>}

Earlier == <<50, 50, 50, 850>>
MoodPhases == {"BROKEN", "FUNCTIONAL", "EXCELLENT"}
MoodPhis == {200, 500, 700, 1200}
Moods == {[Calm EXCEPT !.phase = m[1], !.phi = m[2], !.psi = m[3], !.before = Earlier] :
    m \in MoodPhases \X MoodPhis \X Psis}

Affects == {<<v, a, d>> : v \in {-800, 0, 500}, a \in {300, 550}, d \in {100, 500}}
Memories == {<<[similarity |-> sim, gain |-> g, pinned |-> p]>> :
    sim \in {300, 1000}, g \in {-500, 0, 500}, p \in BOOLEAN}
Measured == UNION {[ns -> MetricValues] : ns \in {{MetricNames[i]} : i \in 1..7}
    \cup {{MetricNames[i] : i \in 1..7}}}
Skills == {<<[good |-> g, comp |-> c, conf |-> 236]>> : g \in BOOLEAN, c \in 0..3}
Sims == {<<[stability |-> st, gain |-> 500], [stability |-> 900, gain |-> 0]>> : st \in {100, 900}}
Rewards == [{"constitution_integrity", "anti_collapse", "integration_coherence",
             "identity_stability", "reflection_depth", "affect_regulation"} -> {-1000, 0}]
Graphs == {[e \in {<<"low_phase", "phi_low">>} |-> TRUE]} \cup {[e \in {p} |-> FALSE] : p \in {
    <<"phi_critical", "low_phase">>, <<"low_phase", "weak_Expression">>,
    <<"high_phase", "phi_healthy">>, <<"phi_low", "weak_Reflexion">>}}
Dreamt == [needs |-> <<1000, 500>>, proposals |-> <<600>>, conf |-> 200]

Felt(s) ==
    {[s EXCEPT !.affect = x[1], !.reward = x[2]] : x \in Affects \X Rewards}
    \cup {[s EXCEPT !.episodes = x] : x \in Memories}
    \cup {[s EXCEPT !.self = x] : x \in SUBSET {"episodes", "dreams", "can_dream", "corrections"}}
    \cup {[s EXCEPT !.self = {"ticks", "impulses"}, !.journal = TRUE]}
    \cup {[s EXCEPT !.skills = x[1], !.sims = x[2]] : x \in Skills \X Sims}
    \cup {[s EXCEPT !.reflection = Dreamt]}
    \cup {[s EXCEPT !.identity = x, !.message = FALSE] : x \in {"intact", "altered"}}

Caused(s) == {[s EXCEPT !.metrics = x[1], !.graph = x[2]] : x \in Measured \X Graphs}

Calls == {
    [mode |-> "RESPONSIVE", max |-> 10],    \* a turn of the user
    [mode |-> "RESPONSIVE", max |-> 5],     \* an idle thought
    [mode |-> "REFLECTIVE", max |-> 100],   \* the reflection of a dream
    [mode |-> "CREATIVE", max |-> 50]}      \* self-improvement

Found(s) ==
    LET obs == Observe(s)
        causal == FindCausalities(obs, s.graph)
        needs == IdentifyNeeds(obs, causal)
    IN  [obs |-> obs, causal |-> causal, needs |-> needs,
         proposals |-> GenerateProposals(needs), unsure |-> {}, depth |-> 5, conf |-> 0,
         tension |-> 0]

-----------------------------------------------------------------------------
(* Deepening: iteration i looks at the thought from the angle i % 4.  An   *)
(* insight is the set of needs it questions, of tags it chains, or a flag. *)
Questions(t) == {i \in 1..AtMost(2, Len(t.needs)) : t.needs[i].priority > InvPhi}
WeakLinks(t) == {e \in DOMAIN t.causal : t.causal[e] < InvPhi2}
Chains(t) == {p \in (DOMAIN t.causal) \X (DOMAIN t.causal) : p[1][2] = p[2][1]}

(* Only the need for a root cause names a tag, the cause. *)
Names(p, tag) == p.for = tag
Connections(t) ==
    {c \in (DOMAIN t.proposals) \X (DOMAIN t.obs) : Names(t.proposals[c[1]], t.obs[c[2]].tag)}

ComputeBudget(t) ==
    LET raw == <<Len(t.obs), Cardinality(DOMAIN t.causal), Len(t.needs), Len(t.proposals)>>
        total == raw[1] + raw[2] + raw[3] + raw[4]
    IN  [i \in 1..4 |-> (1000 * raw[i]) \div (IF total = 0 THEN 1 ELSE total)]
Imbalance(t) == \E i, j \in 1..4 : ComputeBudget(t)[i] - ComputeBudget(t)[j] > InvPhi

(* Mutant: the angles from the first iteration on. *)
DeepenFromFirst(t, i) ==
    CASE i % 4 = 1 -> (IF Imbalance(t) THEN {<<"meta", "imbalance">>} ELSE {})
                      \cup (IF t.conf < InvPhi2 THEN {<<"meta", "low">>} ELSE {})
      [] i % 4 = 2 -> {<<"counterfactual", n>> : n \in Questions(t)}
                      \cup {<<"weak", e>> : e \in WeakLinks(t)}
      [] i % 4 = 3 -> {<<"causal_chain", c>> : c \in Chains(t)}
      [] i % 4 = 0 -> {<<"connection", c>> : c \in Connections(t)}

Deepen(t, i) ==
    CASE i % 4 = 0 -> (IF Imbalance(t) THEN {<<"meta", "imbalance">>} ELSE {})
                      \cup (IF t.conf < InvPhi2 THEN {<<"meta", "low">>} ELSE {})
      [] i % 4 = 1 -> {<<"counterfactual", n>> : n \in Questions(t)}
                      \cup {<<"weak", e>> : e \in WeakLinks(t)}
      [] i % 4 = 2 -> {<<"causal_chain", c>> : c \in Chains(t)}
      [] i % 4 = 3 -> {<<"connection", c>> : c \in Connections(t)}

(* CREATIVE always finds something, which changes nothing. *)
Insights(t, i, mode) ==
    LET found == Deepen(t, i)
    IN  IF mode = "CREATIVE" /\ found = {} THEN {<<"meta", "creative">>} ELSE found

(* A questioned need loses priority and keeps its place; a chain makes the *)
(* links between its tags stronger.                                        *)
IntegrateInsights(t, insights) ==
    LET through(e) == {x \in insights : /\ x[1] = "causal_chain"
                                        /\ {e[1], e[2]} \subseteq
                                              {x[2][1][1], x[2][1][2], x[2][2][2]}}
    IN  [t EXCEPT
            !.needs = [n \in DOMAIN t.needs |->
                IF <<"counterfactual", n>> \in insights
                THEN [t.needs[n] EXCEPT !.priority = Times(@, 1000 - InvPhi2)] ELSE t.needs[n]],
            !.causal = [e \in DOMAIN t.causal |->
                AtMost(1000, t.causal[e] + 191 * Cardinality(through(e)))],
            !.unsure = @ \cup {"imbalance" : x \in insights \cap {<<"meta", "imbalance">>}}]

-----------------------------------------------------------------------------
(* The thought's end: what stays uncertain, and the need its synthesis is  *)
(* about, the first in the list that a cause backs.                        *)
Uncertainties(t) == t.unsure \cup
    {u \in {"blind", "no causes", "many methods", "unreliable"} :
        CASE u = "blind" -> t.obs = <<>>
          [] u = "no causes" -> t.obs # <<>> /\ DOMAIN t.causal = {}
          [] u = "many methods" -> Cardinality({t.needs[i].method : i \in DOMAIN t.needs}) > 2
          [] u = "unreliable" -> t.conf < InvPhi3}

Backed(t) == {i \in DOMAIN t.needs : \E e \in DOMAIN t.causal : e[1] \in t.needs[i].sources}

SelectTension(t) ==
    IF t.needs = <<>> THEN 0
    ELSE IF Backed(t) = {} THEN 1
    ELSE CHOOSE i \in Backed(t) : \A j \in Backed(t) : i <= j

Synthesize(t) == [t EXCEPT !.unsure = Uncertainties(t), !.tension = SelectTension(t)]

-----------------------------------------------------------------------------
(* think: the foundation, then an iteration at a time. *)
Foundation ==
    /\ ended = "new"
    /\ \E c \in Correlations(Found(stimulus)) : thought' = [Found(stimulus) EXCEPT !.conf = c]
    /\ previous' = 0
    /\ ended' = "deepening"
    /\ UNCHANGED <<stimulus, call>>

Iterate ==
    /\ ended = "deepening" /\ thought.depth < call.max
    /\ LET insights == Insights(thought, thought.depth, call.mode)
           deeper == IntegrateInsights(thought, insights)
       IN  /\ insights # {}
           /\ \E c \in IF Vectors(deeper) = Vectors(thought) THEN {thought.conf}
                        ELSE Correlations(deeper) :
                 /\ thought' = [deeper EXCEPT !.depth = @ + 1, !.conf = c]
                 /\ previous' = c
                 /\ ended' = IF Magnitude(c - previous) < InvPhi2 THEN "deep" ELSE "deepening"
    /\ UNCHANGED <<stimulus, call>>

NoInsight ==
    /\ ended = "deepening"
    /\ thought.depth = call.max \/ Insights(thought, thought.depth, call.mode) = {}
    /\ ended' = "deep"
    /\ UNCHANGED <<stimulus, call, thought, previous>>

Conclude ==
    /\ ended = "deep"
    /\ thought' = Synthesize(thought)
    /\ ended' = "thought"
    /\ UNCHANGED <<stimulus, call, previous>>

ThinkerNext == Foundation \/ Iterate \/ NoInsight \/ Conclude

(* Stimuli to think of. *)
Blank == [obs |-> <<>>, causal |-> <<>>, needs |-> <<>>, proposals |-> <<>>, unsure |-> {},
          depth |-> 0, conf |-> 0, tension |-> 0]

Extremes == {s \in Moods : s.phase # "FUNCTIONAL" /\ s.psi \in {Psi0, <<700, 100, 100, 100>>}}

ToldOf == UNION {Caused(s) : s \in Extremes}
FeltAs == UNION {Felt([Calm EXCEPT !.phi = phi]) : phi \in {300, 700}}

-----------------------------------------------------------------------------
(* The questioning of needs lowers priorities without sorting them again:  *)
(* the tension a thought is summed up by may no longer be the most         *)
(* pressing backed need, and is never far below it (INV_PHI of it).        *)
TensionNearTop ==
    ended = "thought" /\ thought.tension # 0 =>
        \A i \in Backed(thought) :
            thought.needs[thought.tension].priority >= Times(InvPhi, thought.needs[i].priority)

(* Three rules of the Thinker are never reached: no mode goes beyond eight *)
(* iterations, so the angle of metacognition is met at none; no link is    *)
(* weak; and no trajectory declines or rises, as a point of the simplex    *)
(* differs from another by zero in the mean.                               *)
UnreachedRules ==
    /\ thought.depth <= 8
    /\ "imbalance" \notin thought.unsure
    /\ WeakLinks(thought) = {}
    /\ Tags(thought.obs) \cap {"trajectory_declining", "trajectory_rising"} = {}

(* Both: what a thought is summed up by, and the rules it never meets. *)
ThoughtsHold == TensionNearTop /\ UnreachedRules
=============================================================================
