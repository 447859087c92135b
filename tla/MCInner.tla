------------------------------ MODULE MCInner ------------------------------
(* What Luna does between two messages of the user: dreams, sensors,       *)
(* initiatives, the watch of the heartbeat, proposals to grow.  They share  *)
(* no state here; the first state chooses the one that moves.              *)
EXTENDS Dreams, Sensors, Initiative, Vigil, Growth

VARIABLE part

innerVars == <<vars, sensorVars, initiativeVars, vigilVars, growthVars, part>>

InnerInit ==
    /\ Init /\ SensorsInit /\ InitiativeInit /\ VigilInit /\ GrowthInit
    /\ part \in {"dreams", "sensors", "initiative", "vigil", "growth"}
    /\ part # "dreams" => ~chat
    /\ part # "sensors" => scanning /\ snapshot = CHOOSE s \in Snapshots : TRUE
    /\ part # "initiative" => cooled = 0
    /\ part # "vigil" => luna = CHOOSE c \in Conditions : TRUE

(* Everything but the part that moves stays. *)
Others(name) ==
    /\ IF name = "dreams" THEN TRUE ELSE UNCHANGED vars
    /\ IF name = "sensors" THEN TRUE ELSE UNCHANGED sensorVars
    /\ IF name = "initiative" THEN TRUE ELSE UNCHANGED initiativeVars
    /\ IF name = "vigil" THEN TRUE ELSE UNCHANGED vigilVars
    /\ IF name = "growth" THEN TRUE ELSE UNCHANGED growthVars

InnerNext ==
    /\ UNCHANGED part
    /\ Others(part)
    /\ \/ part = "dreams" /\ Next
       \/ part = "sensors" /\ SensorsNext
       \/ part = "initiative" /\ InitiativeNext
       \/ part = "vigil" /\ VigilNext
       \/ part = "growth" /\ GrowthNext

(* The fairness of each component, while it is the one that moves. *)
InnerSpec ==
    /\ InnerInit /\ [][InnerNext]_innerVars
    /\ \A d \in Dreamers : WF_vars(part = "dreams" /\ Timeout(d))
    /\ WF_sensorVars(part = "sensors" /\ PerceiveAndObserve)
    /\ WF_initiativeVars(part = "initiative" /\ IdleCognitiveTick)

(* A resting state, one that drifted with a phase lower, a broken one that *)
(* is no longer itself.                                                    *)
MCConditions ==
    {[psi |-> <<260, 322, 250, 168>>, phi |-> 700, quality |-> 700, phase |-> "SOLID"],
     [psi |-> <<700, 100, 100, 100>>, phi |-> 700, quality |-> 700, phase |-> "FUNCTIONAL"],
     [psi |-> <<10, 10, 10, 970>>, phi |-> 300, quality |-> 400, phase |-> "BROKEN"]}

MCIdeas == {[name |-> "fallback", impact |-> 1], [name |-> "promising", impact |-> 2]}

(* StandingNeedsAreVoiced when it is the initiatives that move:            *)
(* needs that stay are voiced, however often a cooldown turns them down.   *)
NeedsAreVoiced == part = "initiative" => StandingNeedsAreVoiced
=============================================================================
