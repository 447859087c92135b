------------------------------ MODULE Verdict -------------------------------
(***************************************************************************)
(* Whether thinking is of use: the validate command runs the corpus        *)
(* (luna/validation/verdict_tasks.py) on an engine that only drifts and on *)
(* one that thinks, each task in a harness that turns an error into a zero *)
(* (benchmark_harness.py), and judges the scores (verdict.py,              *)
(* comparator.py).                                                         *)
(*                                                                         *)
(* Scores are thousandths.  The tasks of one run share its engine, so what *)
(* one leaves behind is part of the next one's score: any score may come.  *)
(***************************************************************************)
EXTENDS Sums, FiniteSets

CONSTANTS
    Corpus,     \* the tasks: [category, steps]
    Marks       \* the scores a task may reach

ASSUME VerdictAssumption ==
    /\ Corpus \in Seq([category : STRING, steps : Nat \ {0}]) /\ Corpus # <<>>
    /\ Marks \subseteq 0..1000

VARIABLES
    baseline, cognitive,    \* the results so far: [task, score, success]
    phiSamples,             \* engine.phi_iit_samples: how many, how many above 1/phi
    verdict                 \* "none", then what was printed

verdictVars == <<baseline, cognitive, phiSamples, verdict>>

-----------------------------------------------------------------------------
(* BenchmarkHarness._run_one.  No task awaits anything, so its timeout      *)
(* never comes; an error scores nothing.                                   *)
Result(task, score) == [task |-> task, score |-> score, success |-> TRUE]
Failed(task) == [task |-> task, score |-> 0, success |-> FALSE]
(* What a task of the corpus may score, clamped to 0..1 in each. *)
Scored(task) == {Result(task, m) : m \in Marks}

Results(task) == Scored(task) \cup {Failed(task)}

(* Corpus of get_categories, as the command groups its pairs.              *)
TaskKinds == {Corpus[i].category : i \in DOMAIN Corpus}

ScoreTotal(scores) == SumOfAll([i \in DOMAIN scores |-> scores[i].score])
Delta(i) == cognitive[i].score - baseline[i].score
SumOver(tasks) == SumOfAll([i \in DOMAIN Corpus |-> IF i \in tasks THEN Delta(i) ELSE 0])

(* VerdictRunner.evaluate, criterion by criterion. *)
Performance == ScoreTotal(cognitive) > ScoreTotal(baseline)

NoRegression == \A i \in DOMAIN Corpus : Delta(i) > -236

Coherence == phiSamples.all > 0 /\ 5 * phiSamples.above >= 4 * phiSamples.all

Improves(category) == SumOver({i \in DOMAIN Corpus : Corpus[i].category = category}) > 0

Adaptability ==
    IF Cardinality(TaskKinds) > 1
    THEN 2 * Cardinality({c \in TaskKinds : Improves(c)}) > Cardinality(TaskKinds)
    ELSE Performance

Gained == SumOver({i \in DOMAIN Corpus : Delta(i) > 0})
Lost == SumOver({i \in DOMAIN Corpus : Delta(i) < 0})

(* Mutant: the share of the tasks that gained.                             *)
TasksGained ==
    1000 * Cardinality({i \in DOMAIN Corpus : Delta(i) > 0}) > 618 * Len(Corpus)

EffectSize == 1000 * Gained > 618 * (Gained - Lost)

CriteriaMet ==
    Cardinality({c \in 1..5 : <<Performance, NoRegression, Coherence, Adaptability, EffectSize>>[c]})

-----------------------------------------------------------------------------
NoSamples == [all |-> 0, above |-> 0]

VerdictInit ==
    /\ baseline = <<>> /\ cognitive = <<>>
    /\ phiSamples = NoSamples
    /\ verdict = "none"

(* The baseline runs first, in the order of the registry. *)
RunBaseline ==
    /\ Len(baseline) < Len(Corpus)
    /\ \E r \in Results(Len(baseline) + 1) : baseline' = Append(baseline, r)
    /\ UNCHANGED <<cognitive, phiSamples, verdict>>

(* LunaEngine.cognitive_step leaves a sample at every step, those of a task *)
(* that fails later included.                                              *)
RunCognitive ==
    /\ Len(baseline) = Len(Corpus) /\ Len(cognitive) < Len(Corpus)
    /\ LET task == Len(cognitive) + 1 IN
        \E r \in Results(task), taken \in {0, Corpus[task].steps}, all \in BOOLEAN :
            /\ r.success => taken = Corpus[task].steps
            /\ cognitive' = Append(cognitive, r)
            /\ phiSamples' = [all |-> phiSamples.all + taken,
                              above |-> phiSamples.above + IF all THEN taken ELSE 0]
    /\ UNCHANGED <<baseline, verdict>>

Judge ==
    /\ Len(cognitive) = Len(Corpus) /\ verdict = "none"
    /\ verdict' = IF CriteriaMet >= 4 THEN "VALIDATED" ELSE "DECORATIVE"
    /\ UNCHANGED <<baseline, cognitive, phiSamples>>

(* The command is called again: two engines of its own. *)
ValidateAgain ==
    /\ verdict # "none"
    /\ baseline' = <<>> /\ cognitive' = <<>>
    /\ phiSamples' = NoSamples
    /\ verdict' = "none"

VerdictNext == RunBaseline \/ RunCognitive \/ Judge \/ ValidateAgain

VerdictSpec == VerdictInit /\ [][VerdictNext]_verdictVars

-----------------------------------------------------------------------------
(* Four criteria of five validate, whichever: the fifth may be the one that *)
(* asks for better scores on average.  Still nothing is validated that is  *)
(* not better on average: to gain more than 1/phi of all that changed is   *)
(* to gain more than is lost.  The scores compared are those of the same   *)
(* tasks, whatever failed.                                                 *)
ValidatedIsBetter ==
    verdict = "VALIDATED" =>
        /\ ScoreTotal(cognitive) > ScoreTotal(baseline)
        /\ \A i \in DOMAIN Corpus : baseline[i].task = cognitive[i].task
=============================================================================
