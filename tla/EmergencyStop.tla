---------------------------- MODULE EmergencyStop ----------------------------
(***************************************************************************)
(* The emergency stop: the sentinel file `luna kill' leaves in the data    *)
(* directory, the kill switch of the running process, and the tasks that   *)
(* read either of them (luna/safety/kill_switch.py, heartbeat.py, the      *)
(* start of ChatSession.send, the API's POST /kill).                       *)
(*                                                                         *)
(* One process runs at a time: the daemon, or the REPL with a chat.  The   *)
(* kill switch dies with its process, the sentinel does not.               *)
(***************************************************************************)
EXTENDS Integers

CONSTANT MaxRequests    \* bound on emergency stops requested

ASSUME StopAssumption == MaxRequests \in Nat

VARIABLES
    up,             \* CognitiveLoop._running
    enabled,        \* KillSwitch._enabled, of safety.enabled
    heart,          \* the heartbeat's task
    session,        \* the chat session
    registered,     \* the heartbeat's task is in _registered_tasks
    killed,         \* KillSwitch._killed
    sentinel,       \* the file emergency_stop exists
    audited,        \* the stop of this process is in the audit trail
    noticed,        \* history variable: the heartbeat of this process has read the file
    requests        \* history variable: stops requested

process == <<up, enabled, heart, session, registered, killed, audited, noticed>>
stopVars == <<process, sentinel, requests>>

(* A heartbeat is "beating" while it sleeps between beats, "dreaming" in   *)
(* enter_sleep, "stopping" while it records the stop it has detected, and  *)
(* "cancelled" until the loop delivers a cancellation.  It ends "done" by  *)
(* a stop, or "failed" by an error that _run does not catch: nobody awaits *)
(* the task, and nobody starts another.                                    *)
StopTypeOK ==
    /\ {up, enabled} \subseteq BOOLEAN
    /\ heart \in {"off", "beating", "dreaming", "stopping", "cancelled", "done", "failed"}
    /\ session \in {"off", "ready", "turn"}
    /\ registered \in BOOLEAN
    /\ killed \in BOOLEAN
    /\ sentinel \in BOOLEAN
    /\ {audited, noticed} \subseteq BOOLEAN
    /\ requests \in 0..MaxRequests

Alive == {"beating", "dreaming"}

StopInit ==
    /\ up = FALSE
    /\ enabled \in BOOLEAN
    /\ heart = "off" /\ session = "off"
    /\ registered = FALSE /\ killed = FALSE /\ audited = FALSE /\ noticed = FALSE
    /\ sentinel = FALSE
    /\ requests = 0

-----------------------------------------------------------------------------
(* register_task, called with the task just created. *)
RegisterTask == TRUE

(* CognitiveLoop._start_daemon, then ChatSession.start in the REPL.  The   *)
(* configuration is read anew.                                             *)
Start ==
    /\ ~up
    /\ up' = TRUE
    /\ enabled' \in BOOLEAN
    /\ heart' = "beating"
    /\ registered' = RegisterTask
    /\ session' \in {"ready", "off"}
    /\ killed' = FALSE /\ audited' = FALSE /\ noticed' = FALSE
    /\ UNCHANGED <<sentinel, requests>>

(* The process ends: /quit between two turns, or a signal to the daemon. *)
Stop ==
    /\ up
    /\ session # "turn"
    /\ up' = FALSE
    /\ heart' = "off" /\ session' = "off"
    /\ registered' = FALSE /\ killed' = FALSE /\ audited' = FALSE /\ noticed' = FALSE
    /\ UNCHANGED <<enabled, sentinel, requests>>

(* write_sentinel, by `luna kill'. *)
StopRequest ==
    /\ requests < MaxRequests
    /\ requests' = requests + 1
    /\ sentinel' = TRUE
    /\ UNCHANGED process

-----------------------------------------------------------------------------
(* kill(): nothing when disabled.  The caller says what becomes of a       *)
(* heartbeat that is cancelled and of one that is not.                     *)
ThrowSwitch(cancelled, otherwise) ==
    /\ killed' = (killed \/ enabled)
    /\ heart' = IF enabled /\ registered THEN cancelled ELSE otherwise

(* POST /kill. *)
KillRequest ==
    /\ up
    /\ requests < MaxRequests
    /\ requests' = requests + 1
    /\ ThrowSwitch(IF heart \in Alive THEN "cancelled" ELSE heart, heart)
    /\ UNCHANGED <<up, enabled, session, registered, sentinel, audited, noticed>>

(* A task cancelled at an await ends there; enter_sleep and _run let the   *)
(* cancellation through.                                                   *)
Cancelled ==
    /\ heart = "cancelled"
    /\ heart' = "done"
    /\ UNCHANGED <<up, enabled, session, registered, killed, sentinel, audited, noticed, requests>>

(* Mutant: the file is read but left in place. *)
LeaveSentinel == UNCHANGED sentinel

(* check_sentinel, which also removes the file. *)
ConsumeSentinel == sentinel' = FALSE

(* A beat: without a sentinel the loop goes on, perhaps with a dream; with *)
(* one it kills, itself included, and goes on to the audit.                *)
Beat ==
    /\ heart = "beating"
    /\ IF sentinel
       THEN /\ ConsumeSentinel
            /\ ThrowSwitch("stopping", "stopping")
            /\ noticed' = TRUE
       ELSE /\ heart' \in Alive
            /\ UNCHANGED <<killed, sentinel, noticed>>
    /\ UNCHANGED <<up, enabled, session, registered, audited, requests>>

(* A file that cannot be written or read ends the loop: the audit of an    *)
(* anomaly or of a dream, the checkpoint, the sentinel itself, which then  *)
(* stays.                                                                  *)
HeartFails ==
    /\ heart \in Alive
    /\ heart' = "failed"
    /\ UNCHANGED <<up, enabled, session, registered, killed, sentinel, audited, noticed, requests>>

DreamOver ==
    /\ heart = "dreaming"
    /\ heart' = "beating"
    /\ UNCHANGED <<up, enabled, session, registered, killed, sentinel, audited, noticed, requests>>

(* audit.record awaits a worker thread that appends the line.  A task that *)
(* has cancelled itself ends at that await, whether the thread had begun   *)
(* or not; for any other a write that fails raises into _run.  Mutant: the *)
(* failure is logged and forgotten.                                        *)
AuditLost(written) == "done"

AuditEnd(written) ==
    IF written \/ (enabled /\ registered) THEN "done" ELSE "failed"

Audit ==
    /\ heart = "stopping"
    /\ \E written \in BOOLEAN :
          /\ audited' = written
          /\ heart' = AuditEnd(written)
    /\ UNCHANGED <<up, enabled, session, registered, killed, sentinel, noticed, requests>>

-----------------------------------------------------------------------------
(* send: a sentinel ends the response, not the session. *)
Send ==
    /\ session = "ready"
    /\ IF sentinel
       THEN ConsumeSentinel /\ UNCHANGED session
       ELSE session' = "turn" /\ UNCHANGED sentinel
    /\ UNCHANGED <<up, enabled, heart, registered, killed, audited, noticed, requests>>

TurnOver ==
    /\ session = "turn"
    /\ session' = "ready"
    /\ UNCHANGED <<up, enabled, heart, registered, killed, sentinel, audited, noticed, requests>>

StopNext ==
    \/ Start \/ Stop \/ StopRequest \/ KillRequest
    \/ Beat \/ HeartFails \/ DreamOver \/ Audit \/ Cancelled
    \/ Send \/ TurnOver

(* Every task the event loop holds is run in the end; a dream has a        *)
(* timeout.  Users need not act, and files need not fail.                  *)
Fairness ==
    /\ WF_stopVars(Beat) /\ WF_stopVars(DreamOver) /\ WF_stopVars(Audit) /\ WF_stopVars(Cancelled)
    /\ WF_stopVars(TurnOver)

StopSpec == StopInit /\ [][StopNext]_stopVars /\ Fairness

-----------------------------------------------------------------------------
(* Once the kill switch is active the heartbeat beats no more, however the *)
(* stop came in: by the file, by the API in the middle of a dream, or      *)
(* twice.                                                                  *)
KilledHeartStops == killed => heart \notin Alive

(* A heartbeat that ended without an error has its cause on record: the    *)
(* switch, or, with the switch disabled, the audit trail.                  *)
NoSilentDeath == heart = "done" => killed \/ audited

(* A stop the heartbeat has read, and so removed from the directory, is    *)
(* not forgotten, though its own cancellation or a full disk cuts the      *)
(* audit: it stands in the switch or in the trail, or is being recorded.   *)
(* Only with the switch disabled may a failing write lose it, and then the *)
(* heartbeat died of that error.                                           *)
NoticedIsOnRecord ==
    noticed => \/ killed \/ audited \/ heart = "stopping"
               \/ heart = "failed" /\ ~enabled

(* All three: the switch, the heartbeat and the record of the stop agree   *)
(* on whether Luna is stopped.                                             *)
StopHolds == KilledHeartStops /\ NoSilentDeath /\ NoticedIsOnRecord

(* "Luna will detect this on next message (chat) or heartbeat cycle"       *)
(* (luna/__main__.py:240): while a heartbeat lives the file is consumed,   *)
(* unless the switch is thrown first or an error ends the heartbeat.  A    *)
(* daemon without a heartbeat reads the file no more.                      *)
Detected ==
    sentinel /\ heart \in Alive ~> ~sentinel \/ killed \/ ~up \/ heart = "failed"

(* The stop reaches the audit trail or the switch before the process ends  *)
(* by itself: a heartbeat that has begun to stop gets there.               *)
StopCompletes == heart \in {"stopping", "cancelled"} ~> heart \in {"done", "failed", "off"}

(* Both: a request is heard, and what it began ends.                       *)
StopIsHeard == Detected /\ StopCompletes
=============================================================================
