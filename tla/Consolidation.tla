--------------------------- MODULE Consolidation ---------------------------
(***************************************************************************)
(* What a cognitive dream leaves behind (luna/dream/dream_cycle.py run and *)
(* the dreams of ChatSession and CognitiveLoop): the skills learned from   *)
(* the recent cycles, the identity anchor Psi0, the priors of the next     *)
(* thoughts, the journal, and their files.  DreamSimulation is external:   *)
(* dream/simulation.py is not in the repository.  Until the causal graph   *)
(* is mature only the catch-up dreams so, which does not ask; the others   *)
(* are those of Dreams.                                                    *)
(*                                                                         *)
(* Numbers are thousandths.  The exponential is its Taylor polynomial.     *)
(***************************************************************************)
EXTENDS Integers, Sequences, SequencesExt, FiniteSets

CONSTANTS
    Tendencies,     \* values of the mean of psi_after over the recent cycles
    MaxDelta,       \* _PSI0_MAX_DELTA: 20
    Window,         \* _PSI0_HISTORY_WINDOW: 10 dreams
    MaxAge,         \* MAX_AGE_CYCLES: 50 turns
    MaxDreams, MaxCuts      \* bounds: dreams recorded, lines cut short

ASSUME ConsolidationAssumption ==
    /\ MaxDelta \in Nat \ {0} /\ Window \in Nat \ {0} /\ MaxAge \in Nat \ {0}
    /\ MaxDreams \in Nat \ {0} /\ MaxCuts \in Nat

VARIABLES
    alive, saving,      \* the process runs; the dreamer's next step: "catchup", "state",
                        \* "checkpoint" or "no"
    chatting,           \* the process serves a chat, whose session dreams; else the loop does
    psi0, anchor,       \* ConsciousnessState.psi0, Evaluator._psi_0
    params,             \* one LearnableParam, in the bounds of its ParamSpec
    priors,             \* DreamPriors
    learned,            \* DreamLearning._skills
    lived,              \* the recent cycles in the CycleStore
    dreamJournal,       \* lines of dream_journal.jsonl: what they hold, and whether a
                        \* newline ends them
    disk,               \* dream_priors.json, dream_skills.json, checkpoint
    dreams, cuts        \* dreams that went to the journal, lines of it cut short

consolidationVars ==
    <<alive, saving, chatting, psi0, anchor, params, priors, learned, lived, dreamJournal, disk, dreams, cuts>>

Core == <<260, 322, 250, 168>>
Tau == 1618
Cap == 236
SkillThreshold == 56
Share(a, b) == (a * b) \div 1000
Total(v) == v[1] + v[2] + v[3] + v[4]
Dist(a) == IF a < 0 THEN -a ELSE a
Between(v, lo, hi) == IF v < lo THEN lo ELSE IF v > hi THEN hi ELSE v

(* e to y thousandths, 0 <= y < 700, and e to -y, y < 2800. *)
Exp(y) == 1000 + y + (y * y) \div 2000 + (y * y * y) \div 6000000
ExpMinus(y) == LET q == Exp(y \div 4) IN 1000000000 \div (Share(q, q) * Share(q, q))

(* project_simplex: a softmax, also of what is on the simplex already. *)
ProjectSimplex(v) ==
    LET e == [i \in 1..4 |-> Exp((1000 * v[i]) \div Tau)]
    IN  [i \in 1..4 |-> (1000 * e[i]) \div Total(e)]

(* consolidate_psi0: towards the tendency, by MaxDelta, by what the last   *)
(* dreams left of the cap, and the less the lower the component is.        *)
Moved(v, tendency, history, i) ==
    LET spent == FoldLeft(LAMBDA sum, d : sum + d[i], 0, history)
        step == Between(Between(tendency[i] - v[i], -MaxDelta, MaxDelta),
                        -Between(Cap + spent, 0, 2 * Cap), Between(Cap - spent, 0, 2 * Cap))
        depth == (1000 * (618 - v[i] - step)) \div 382
    IN  IF step < 0 /\ depth > 0 THEN -Share(-step, ExpMinus(Share(Tau, depth))) ELSE step

ConsolidatePsi0(v, tendency, history) ==
    LET moved == [i \in 1..4 |-> Between(v[i] + Moved(v, tendency, history, i), 10, 1000)]
    IN  [i \in 1..4 |-> (1000 * moved[i]) \div Total(moved)]

(* update_psi0, which projects what it is given once more. *)
UpdatePsi0(v, wanted) == IF wanted = v THEN v ELSE ProjectSimplex(wanted)

-----------------------------------------------------------------------------
(* learn_from_cycles: a skill for every recent cycle that moved phi; the   *)
(* same cycle teaches it again in the next dream.                          *)
Components == [respond |-> 3, dream |-> 1, introspect |-> 1, chat |-> 0]
ComponentOf(trigger) == IF trigger \in DOMAIN Components THEN Components[trigger] ELSE 1

LearnFromCycles(cycles) ==
    {[trigger |-> c.intent, good |-> c.gain > 0] : c \in {x \in cycles : Dist(x.gain) >= SkillThreshold}}

NoPriors == [skills |-> {}, sims |-> FALSE, history |-> <<>>, age |-> 0, old |-> FALSE]

(* populate_dream_priors *)
Populated(former, skills, sims, delta) ==
    LET longer == IF delta = <<0, 0, 0, 0>> THEN former.history ELSE Append(former.history, delta)
        n == Len(longer)
    IN  [skills |-> {[comp |-> ComponentOf(s.trigger), good |-> s.good] : s \in skills},
         sims |-> sims, age |-> 0, old |-> FALSE,
         history |-> IF n > Window THEN SubSeq(longer, n - Window + 1, n) ELSE longer]

-----------------------------------------------------------------------------
(* A turn: the thought is given the priors, and its cycle is stored.       *)
Cycles == {[intent |-> "respond", gain |-> 60], [intent |-> "introspect", gain |-> -60],
           [intent |-> "respond", gain |-> 0]}

Turn ==
    /\ alive /\ chatting /\ saving = "no"
    /\ \E c \in Cycles, t \in Tendencies : lived' = [cycles |-> {c}, mean |-> t]
    /\ priors' = [priors EXCEPT !.age = Between(@ + 1, 0, MaxAge)]
    /\ UNCHANGED <<alive, saving, chatting, psi0, anchor, params, learned, dreamJournal, disk, dreams, cuts>>

(* 24 hours without a dream. *)
DayPasses ==
    /\ priors' = [priors EXCEPT !.old = TRUE]
    /\ UNCHANGED <<alive, saving, chatting, psi0, anchor, params, learned, lived, dreamJournal, disk, dreams, cuts>>

(* A line holds an entry, or what is no JSON, or half a character.         *)
Entry == [kind |-> "entry", ended |-> TRUE]
Open(lines) == lines # <<>> /\ ~Last(lines).ended

(* Mutant: a line cut short stays open. *)
StaysTorn(lines, new) == IF Open(lines) THEN lines ELSE Append(lines, new)

(* A line appended: one after an open line is glued to it, and two entries *)
(* on one line are none.                                                   *)
Appended(lines, new) ==
    IF Open(lines)
    THEN [lines EXCEPT ![Len(lines)] =
            [kind |-> IF "split" \in {@.kind, new.kind} THEN "split" ELSE "bad", ended |-> new.ended]]
    ELSE Append(lines, new)

(* An entry cut short: before its line, in it, inside a character of it    *)
(* (ensure_ascii is off), or before the newline.                           *)
CutShort(lines) ==
    {lines} \cup {Appended(lines, [kind |-> k, ended |-> FALSE]) : k \in {"bad", "split", "entry"}}

(* The file is decoded as it is read: half a character raises past the     *)
(* `except OSError` of _load.                                              *)
Legible(lines) == \A i \in DOMAIN lines : lines[i].kind # "split"

(* _load: the lines that cannot be parsed are left out. *)
Entries(lines) == {i \in DOMAIN lines : lines[i].kind = "entry"}
Recallable(lines) == IF Legible(lines) THEN Entries(lines) ELSE {}

(* Mutant: the loop's dreams leave the evaluator its anchor. *)
KeepsAnchor(old, new) == old

SyncedAnchor(old, new) == new

(* DreamCycle.run, without an await: learning, reflection, simulation, CEM *)
(* and Psi0, then the journal, which may fail to be written; the dreamer   *)
(* takes the priors and the anchor over before it saves.                   *)
Dream ==
    /\ alive /\ dreams < MaxDreams
    /\ LET skills == LearnFromCycles(lived.cycles)
           wanted == ConsolidatePsi0(psi0, lived.mean, priors.history)
           delta == [i \in 1..4 |-> wanted[i] - psi0[i]]
       IN  /\ learned' = learned \cup skills
           /\ psi0' = UpdatePsi0(psi0, wanted)
           /\ anchor' = IF wanted = psi0 THEN anchor ELSE SyncedAnchor(anchor, psi0')
           /\ \E sims \in BOOLEAN : priors' = Populated(priors, skills, sims, delta)
    /\ params' \in {"initial", "tuned"}
    /\ \/ dreamJournal' = Appended(dreamJournal, Entry) /\ UNCHANGED cuts
       \/ cuts < MaxCuts /\ cuts' = cuts + 1 /\ dreamJournal' \in CutShort(dreamJournal)
    /\ dreams' = dreams + 1
    /\ saving' = "state"
    /\ UNCHANGED <<alive, chatting, lived, disk>>

(* _maybe_catch_up_dream, when a chat starts after a long absence. *)
CatchUpDream == chatting /\ saving = "catchup" /\ Dream

(* _run_dream_from_send: a turn does not dream without a recent cycle. *)
DreamFromSend == chatting /\ saving = "no" /\ lived.cycles # {} /\ Dream

(* _watch_inactivity *)
InactiveDream == chatting /\ saving = "no" /\ Dream

(* _trigger_autonomous_dream, while no session is attached. *)
TriggerAutonomousDream == ~chatting /\ saving = "no" /\ Dream

(* _save_v35_state, one file after the other, then the checkpoint. *)
SaveState ==
    /\ alive /\ saving = "state"
    /\ disk' = [disk EXCEPT !.learned = learned, !.params = params, !.priors = priors]
    /\ saving' = "checkpoint"
    /\ UNCHANGED <<alive, chatting, psi0, anchor, params, priors, learned, lived, dreamJournal, dreams, cuts>>

SaveAnchor ==
    /\ alive /\ saving = "checkpoint"
    /\ disk' = [disk EXCEPT !.psi0 = psi0]
    /\ saving' = "no"
    /\ UNCHANGED <<alive, chatting, psi0, anchor, params, priors, learned, lived, dreamJournal, dreams, cuts>>

(* A kill, maybe while a dream writes its line of the journal. *)
KillDreamer ==
    /\ alive
    /\ \/ UNCHANGED <<dreamJournal, dreams, cuts>>
       \/ /\ saving \in {"no", "catchup"} /\ dreams < MaxDreams /\ cuts < MaxCuts
          /\ dreams' = dreams + 1 /\ cuts' = cuts + 1
          /\ dreamJournal' \in CutShort(dreamJournal)
    /\ alive' = FALSE /\ saving' = "no"
    /\ UNCHANGED <<chatting, psi0, anchor, params, priors, learned, lived, disk>>

(* The evaluator is built after the checkpoint is loaded, and the dream    *)
(* cycle after the journal: over one that cannot be decoded the process    *)
(* runs without any of what is modelled here.                              *)
RestartDreamer ==
    /\ ~alive /\ Legible(dreamJournal)
    /\ alive' = TRUE
    /\ chatting' \in BOOLEAN
    /\ saving' \in {"no"} \cup IF chatting' /\ dreams < MaxDreams THEN {"catchup"} ELSE {}
    /\ psi0' = disk.psi0 /\ anchor' = disk.psi0
    /\ learned' = disk.learned /\ params' = disk.params
    /\ priors' = [disk.priors EXCEPT !.old = priors.old]
    /\ UNCHANGED <<lived, dreamJournal, disk, dreams, cuts>>

ConsolidationInit ==
    /\ alive = TRUE /\ saving = "no" /\ chatting = TRUE /\ psi0 = Core /\ anchor = Core /\ params = "initial"
    /\ priors = NoPriors /\ learned = {} /\ lived = [cycles |-> {}, mean |-> Core]
    /\ dreamJournal = <<>> /\ dreams = 0 /\ cuts = 0
    /\ disk = [psi0 |-> Core, learned |-> {}, params |-> "initial", priors |-> NoPriors]

ConsolidationNext ==
    \/ Turn \/ DayPasses
    \/ CatchUpDream \/ DreamFromSend \/ InactiveDream \/ TriggerAutonomousDream
    \/ SaveState \/ SaveAnchor \/ KillDreamer \/ RestartDreamer

ConsolidationSpec == ConsolidationInit /\ [][ConsolidationNext]_consolidationVars

-----------------------------------------------------------------------------
(* The evaluator judges identity by the Psi0 the state is at, whoever      *)
(* dreamt and whatever was lost to a kill (the two syncs of _psi_0).       *)
AnchorsAgree == alive => anchor = psi0

(* While the journal can be read at all, a line cut short costs it two     *)
(* dreams at most: its own, and the next, which is appended to it.         *)
TwoPerCut ==
    Legible(dreamJournal) => dreams - Cardinality(Recallable(dreamJournal)) <= 2 * cuts

(* What kills and failing writes in the middle of dreams may cost.         *)
CutsCostLittle == AnchorsAgree /\ TwoPerCut
=============================================================================
