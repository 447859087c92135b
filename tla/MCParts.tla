------------------------------ MODULE MCParts ------------------------------
(* Components that share no state, in one run: the first state chooses the *)
(* one that moves.  The breaker has three callers, one more than the chat  *)
(* session, so that late answers and probes overlap in every order.        *)
EXTENDS BreakerCalls, Impulses, CycleStore, SavedState, EmergencyStop, Requests

VARIABLE part

partsVars == <<vars, impulseVars, cycleVars, savedVars, stopVars, requestVars, part>>

PartsInit ==
    /\ Init /\ ImpulsesInit /\ CyclesInit /\ SavedInit /\ StopInit /\ RequestsInit
    /\ part \in {"breaker", "impulses", "cycles", "saved", "stop", "requests"}
    /\ part # "stop" => enabled
    /\ part # "requests" => token

(* The other components stay as they are. *)
Others(name) ==
    /\ name # "breaker" => UNCHANGED vars
    /\ name # "impulses" => UNCHANGED impulseVars
    /\ name # "cycles" => UNCHANGED cycleVars
    /\ name # "saved" => UNCHANGED savedVars
    /\ name # "stop" => UNCHANGED stopVars
    /\ name # "requests" => UNCHANGED requestVars

PartsNext ==
    /\ UNCHANGED part
    /\ Others(part)
    /\ \/ part = "breaker" /\ Next
       \/ part = "impulses" /\ ImpulsesNext
       \/ part = "cycles" /\ CyclesNext
       \/ part = "saved" /\ SavedNext
       \/ part = "stop" /\ StopNext
       \/ part = "requests" /\ RequestsNext

(* The fairness of each component, while it is the one that moves. *)
PartsSpec ==
    /\ PartsInit /\ [][PartsNext]_partsVars
    /\ WF_vars(part = "breaker" /\ Tick) /\ WF_vars(part = "breaker" /\ Poll)
    /\ WF_stopVars(part = "stop" /\ Beat) /\ WF_stopVars(part = "stop" /\ DreamOver)
    /\ WF_stopVars(part = "stop" /\ Audit) /\ WF_stopVars(part = "stop" /\ Cancelled)
    /\ WF_stopVars(part = "stop" /\ TurnOver)

(* Every component keeps its types: the breaker's counter, the bound on    *)
(* the buffer of impulses, the two copies of the index, the files, the     *)
(* kill switch.                                                            *)
PartsTypeOK == TypeOK /\ ImpulsesTypeOK /\ CyclesTypeOK /\ SavedTypeOK /\ StopTypeOK
=============================================================================
