------------------------------- MODULE Vigil --------------------------------
(***************************************************************************)
(* What the heartbeat watches over: the vital signs of each beat and the   *)
(* anomalies found in them (luna/heartbeat/heartbeat.py, vitals.py,        *)
(* monitor.py), the interval they lead to (rhythm.py), the audit trail and *)
(* the webhook that hear of them (luna/observability).                     *)
(*                                                                         *)
(* Numbers are thousandths.  Vital signs nobody acts on are left out; the  *)
(* stop of the heartbeat is that of EmergencyStop.                         *)
(***************************************************************************)
EXTENDS Integers, Sequences, FiniteSets

CONSTANTS
    Conditions,     \* what an evolution may leave: [psi, phi, quality, phase]
    MaxBeats,       \* beats of one process (bound)
    MaxTold         \* AlertManager._max_history

ASSUME VigilAssumption ==
    /\ \A c \in Conditions : c.psi \in Seq(0..1000) /\ Len(c.psi) = 4 /\ c.phi \in Nat /\ c.quality \in 0..1000
    /\ MaxBeats \in Nat /\ MaxTold \in Nat \ {0}

VARIABLES
    luna,           \* the state the engine is in
    heart,          \* where Heartbeat._run is
    beats,          \* the conditions this process measured
    previous,       \* HeartbeatMonitor._previous: <<quality, phase>>
    alerts,         \* of the present beat
    anomaly, dreams,    \* the flags of AdaptiveRhythm
    interval,       \* how long the heart sleeps
    trail,          \* the lines this process appended to the audit trail
    webhook, told   \* AlertManager: is there a URL, its history

vigilVars ==
    <<luna, heart, beats, previous, alerts, anomaly, dreams, interval, trail, webhook, told>>

rhythmVars == <<anomaly, dreams, interval>>
toldVars == <<webhook, told>>

-----------------------------------------------------------------------------
(* measure_vitals *)
Psi0 == <<260, 322, 250, 168>>
Square(x) == x * x
SquaredDrift(psi) ==
    LET Off(i) == Square(psi[i] - Psi0[i]) IN Off(1) + Off(2) + Off(3) + Off(4)

Dominant(v) == CHOOSE i \in 1..4 :
    /\ \A j \in 1..4 : v[j] <= v[i]
    /\ \A j \in 1..(i - 1) : v[j] < v[i]

IdentityPreserved(psi) ==
    \/ Dominant(psi) = Dominant(Psi0)
    \/ psi[Dominant(psi)] - psi[Dominant(Psi0)] < 236

-----------------------------------------------------------------------------
(* HeartbeatMonitor.check: the anomalies in the order they are found. *)
If(condition, type, severity) == IF condition THEN <<[type |-> type, severity |-> severity]>> ELSE <<>>

PhaseRank(phase) ==
    CASE phase = "BROKEN" -> 1 [] phase = "FRAGILE" -> 2 [] phase = "FUNCTIONAL" -> 3
      [] phase = "SOLID" -> 4 [] OTHER -> 5

IsDegradation(before, after) == PhaseRank(after) < PhaseRank(before)

Check(c) ==
    LET drift == SquaredDrift(c.psi) known == previous # <<>> IN
    (IF drift >= Square(618) THEN If(TRUE, "identity_drift", "critical")
     ELSE If(drift >= Square(382), "identity_drift", "warning"))
    \o If(~IdentityPreserved(c.psi), "identity_shift", "warning")
    \o If(known /\ previous[1] - c.quality >= 236, "score_crash", "critical")
    \o If(known /\ IsDegradation(previous[2], c.phase), "phase_degradation", "warning")
    \o If(c.phi < 382, "low_phi_iit", "warning")

(* Mutant: only a beat without anomalies is remembered. *)
LastWell(c) == IF Check(c) = <<>> THEN <<c.quality, c.phase>> ELSE previous

Remembered(c) == <<c.quality, c.phase>>

(* AdaptiveRhythm.current_interval *)
CurrentInterval(phase) ==
    CASE anomaly -> "alert"
      [] ~anomaly /\ dreams -> "sleep"
      [] ~anomaly /\ ~dreams /\ PhaseRank(phase) <= 2 -> "base"
      [] ~anomaly /\ ~dreams /\ PhaseRank(phase) = 3 -> "primary"
      [] OTHER -> "deep"

-----------------------------------------------------------------------------
VigilInit ==
    /\ luna \in Conditions
    /\ heart = "off"
    /\ beats = <<>> /\ previous = <<>> /\ alerts = <<>>
    /\ anomaly = FALSE /\ dreams = FALSE /\ interval = "none"
    /\ trail = <<>> /\ webhook = FALSE /\ told = <<>>

(* A process starts, after another one has ended anywhere; there is an      *)
(* AlertManager only with a URL.                                            *)
StartHeart ==
    /\ heart' = "waiting"
    /\ webhook' \in BOOLEAN
    /\ beats' = <<>> /\ previous' = <<>> /\ alerts' = <<>>
    /\ anomaly' = FALSE /\ dreams' = FALSE /\ interval' = "none"
    /\ trail' = <<>> /\ told' = <<>>
    /\ UNCHANGED luna

(* A turn, a tick or a dream between two steps of the heart. *)
LunaEvolves ==
    /\ heart \in {"auditing", "dreaming"}
    /\ luna' \in Conditions
    /\ UNCHANGED <<heart, beats, previous, alerts, trail>>
    /\ UNCHANGED rhythmVars /\ UNCHANGED toldVars

(* Heartbeat._run, steps 1 to 3: an idle step, whatever was evolved since   *)
(* the last one, and the look at the vital signs.                           *)
HeartBeats ==
    /\ heart = "waiting"
    /\ Len(beats) < MaxBeats
    /\ \E c \in Conditions :
        /\ luna' = c
        /\ beats' = Append(beats, c)
        /\ alerts' = Check(c)
        /\ previous' = Remembered(c)
        /\ anomaly' = (Check(c) # <<>>)
        /\ heart' = IF Check(c) # <<>> THEN "auditing" ELSE "beating"
    /\ UNCHANGED <<dreams, interval, trail>> /\ UNCHANGED toldVars

(* 3b. One line for each, each written in a thread the heart waits for.     *)
Recorded == {trail[k].type : k \in {l \in DOMAIN trail : trail[l].at = Len(beats)}}
Unrecorded == {k \in DOMAIN alerts : alerts[k].type \notin Recorded}

AuditLine ==
    /\ heart = "auditing"
    /\ \E first \in Unrecorded :
        /\ \A k \in Unrecorded : first <= k
        /\ trail' = Append(trail, [at |-> Len(beats), type |-> alerts[first].type])
    /\ UNCHANGED <<luna, heart, beats, previous, alerts>>
    /\ UNCHANGED rhythmVars /\ UNCHANGED toldVars

(* A line or a checkpoint that cannot be written: _run waits for no error   *)
(* but its own cancellation.                                                *)
HeartFails ==
    /\ heart \in {"auditing", "beating", "dreaming"}
    /\ heart' = "dead"
    /\ dreams' = FALSE
    /\ UNCHANGED <<luna, beats, previous, alerts, anomaly, interval, trail>> /\ UNCHANGED toldVars

(* 3c. AlertManager.alert, for the first of several anomalies.  Its webhook *)
(* request runs in a thread that reports to nobody, and is left out.        *)
LastTold(entries) == IF Len(entries) > MaxTold THEN Tail(entries) ELSE entries

Alert ==
    /\ heart = "auditing" /\ Unrecorded = {}
    /\ heart' = "beating"
    /\ told' = IF webhook
               THEN LastTold(Append(told, [at |-> Len(beats), severity |-> alerts[1].severity]))
               ELSE told
    /\ UNCHANGED <<luna, beats, previous, alerts, trail, webhook>>
    /\ UNCHANGED rhythmVars

(* 6. A dream the heart waits for. *)
FallAsleep ==
    /\ heart = "beating"
    /\ heart' = "dreaming"
    /\ dreams' = TRUE
    /\ UNCHANGED <<luna, beats, previous, alerts, anomaly, interval, trail>> /\ UNCHANGED toldVars

DreamEnds ==
    /\ heart = "dreaming" /\ dreams
    /\ dreams' = FALSE
    /\ trail' = Append(trail, [at |-> Len(beats), type |-> "dream_complete"])
    /\ UNCHANGED <<luna, heart, beats, previous, alerts, anomaly, interval>> /\ UNCHANGED toldVars

(* 7. Until the next beat. *)
Rest ==
    /\ heart = "beating" \/ (heart = "dreaming" /\ ~dreams)
    /\ heart' = "waiting"
    /\ interval' = CurrentInterval(luna.phase)
    /\ UNCHANGED <<luna, beats, previous, alerts, anomaly, dreams, trail>> /\ UNCHANGED toldVars

VigilNext ==
    \/ StartHeart \/ LunaEvolves \/ HeartBeats \/ AuditLine \/ HeartFails \/ Alert
    \/ FallAsleep \/ DreamEnds \/ Rest

VigilSpec == VigilInit /\ [][VigilNext]_vigilVars

-----------------------------------------------------------------------------
Falls(i) == i > 1 /\ IsDegradation(beats[i - 1].phase, beats[i].phase)
Lines(i, type) == Cardinality({k \in DOMAIN trail : trail[k] = [at |-> i, type |-> type]})

(* Whatever was evolved between two beats, by whomever, and however long    *)
(* the heart waited for the trail and its dreams: a fall of the phase from  *)
(* one beat to the next has its one line in the trail once the beat is      *)
(* over, and no line tells of a fall that was none.  While a beat found     *)
(* anomalies the next one comes at once, and no beat ever waits the         *)
(* interval of dreams, since the heart itself waits for its dream.          *)
FallsOnRecord ==
    /\ \A i \in DOMAIN beats :
        /\ (i < Len(beats) \/ heart \in {"waiting", "beating", "dreaming"}) =>
            Lines(i, "phase_degradation") = IF Falls(i) THEN 1 ELSE 0
        /\ Lines(i, "phase_degradation") > 0 => Falls(i)
    /\ heart = "waiting" /\ beats # <<>> => (interval = "alert") = (alerts # <<>>)
    /\ interval # "sleep"
    /\ \A i \in 1..(Len(told) - 1) : told[i].at < told[i + 1].at
=============================================================================
