-------------------------------- MODULE Scores --------------------------------
(***************************************************************************)
(* The seven cognitive metrics of a turn: smoothed by the PhiScorer        *)
(* (luna_common/phi_engine/scorer.py), their origin kept by the            *)
(* MetricTracker (luna/metrics/tracker.py), both saved in the checkpoint   *)
(* by whoever saves it and restored at the next start.                     *)
(*                                                                         *)
(* The value of a metric is the number of measurements in its average: 0   *)
(* is the seed alone.                                                      *)
(***************************************************************************)
EXTENDS Integers

CONSTANTS
    Metrics,        \* METRIC_NAMES
    MaxMeasured     \* bound: measurements

ASSUME ScoresAssumption == Metrics # {} /\ MaxMeasured \in Nat \ {0}

VARIABLES
    open,           \* a process of Luna runs on the files
    scorer,         \* PhiScorer._emas: the value of each metric, Unset before
    tracker,        \* MetricTracker._latest: the source of each metric
    cached,         \* ConsciousnessState.phi_metrics_snapshot
    onDisk          \* phi_metrics in the checkpoint file

scoresVars == <<open, scorer, tracker, cached, onDisk>>

Unset == -1
Missing == [value |-> Unset, source |-> "none"]
NoMetrics == [m \in Metrics |-> Missing]
Has(snapshot) == snapshot # NoMetrics

-----------------------------------------------------------------------------
(* Checkpoints of older versions: without metrics of today, or with values *)
(* whose source nobody wrote.                                              *)
Unsourced == [m \in Metrics |-> [value |-> 1, source |-> "none"]]

ScoresInit ==
    /\ open = FALSE
    /\ scorer = [m \in Metrics |-> Unset]
    /\ tracker = [m \in Metrics |-> "none"]
    /\ cached = NoMetrics
    /\ onDisk \in {NoMetrics, Unsourced}

(* PhiScorer.restore *)
Restore(snapshot) == [m \in Metrics |-> snapshot[m].value]
Seeds0 == [m \in Metrics |-> 0]

(* CognitiveLoop._init_phi_scorer: the source is the one written. *)
RestoredSource(snapshot, m) ==
    IF snapshot[m].source = "none" THEN "bootstrap" ELSE snapshot[m].source

(* LunaEngine.initialize and _init_phi_scorer. *)
StartScores ==
    /\ ~open
    /\ open' = TRUE
    /\ cached' = onDisk
    /\ IF Has(onDisk)
       THEN /\ scorer' = Restore(onDisk)
            /\ tracker' = [m \in Metrics |-> RestoredSource(onDisk, m)]
       ELSE /\ scorer' = Seeds0
            /\ tracker' = [m \in Metrics |-> "bootstrap"]
    /\ UNCHANGED onDisk

(* ChatSession._chat_evolve: every metric of the turn is measured. *)
ChatEvolve ==
    /\ open
    /\ \A m \in Metrics : scorer[m] < MaxMeasured
    /\ scorer' = [m \in Metrics |-> scorer[m] + 1]
    /\ tracker' = [m \in Metrics |-> "measured"]
    /\ UNCHANGED <<open, cached, onDisk>>

(* build_phi_snapshot, of the session and of the loop. *)
BuildSnapshot ==
    [m \in Metrics |->
        [value |-> scorer[m], source |-> IF tracker[m] = "none" THEN "bootstrap" ELSE tracker[m]]]

(* Mutant: what is saved is not remembered. *)
OldSnapshot(metrics) == cached

(* ConsciousnessState.save_checkpoint: what is given is remembered; who    *)
(* gives nothing saves what is remembered.                                 *)
SnapshotKept(metrics) == metrics

SaveScores ==
    /\ open
    /\ cached' = SnapshotKept(BuildSnapshot)
    /\ onDisk' = BuildSnapshot
    /\ UNCHANGED <<open, scorer, tracker>>

HeartbeatSave ==
    /\ open
    /\ onDisk' = IF Has(cached) THEN cached ELSE NoMetrics
    /\ UNCHANGED <<open, scorer, tracker, cached>>

(* The process stops or is killed; what it did not save is lost. *)
StopScores ==
    /\ open
    /\ open' = FALSE
    /\ scorer' = [m \in Metrics |-> Unset]
    /\ tracker' = [m \in Metrics |-> "none"]
    /\ cached' = NoMetrics
    /\ UNCHANGED onDisk

ScoresNext == StartScores \/ ChatEvolve \/ SaveScores \/ HeartbeatSave \/ StopScores

ScoresSpec == ScoresInit /\ [][ScoresNext]_scoresVars

-----------------------------------------------------------------------------
(* Whoever saves, in whatever order, and after whatever restart: the       *)
(* averages on disk never lose a measurement they had, what is on record   *)
(* as measured never becomes a seed again, on disk or in the process that  *)
(* restores it, and a seed never passes for measured.                      *)
MetricsKept ==
    [][\A m \in Metrics :
        /\ onDisk'[m].value >= onDisk[m].value
        /\ onDisk[m].source = "measured" =>
            onDisk'[m].source = "measured" /\ (open' => tracker'[m] = "measured")
        /\ onDisk'[m].source = "measured" => onDisk'[m].value > 0]_scoresVars
=============================================================================
