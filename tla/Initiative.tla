----------------------------- MODULE Initiative -----------------------------
(***************************************************************************)
(* When the InitiativeEngine decides that Luna acts of her own accord, and *)
(* when the same needs have built up enough curiosity.  A turn and the     *)
(* idle tick of the session share both.  The engine is not saved: a new    *)
(* process begins with empty counters and no cooldown.  The curiosity is,  *)
(* at checkpoints: it comes back as it was at some time before.  What an   *)
(* initiative or a curiosity becomes, once it is an impulse, is told in    *)
(* Impulses.                                                               *)
(***************************************************************************)
EXTENDS Naturals, Sequences

CONSTANTS
    Needs,              \* what a thought may find lacking
    Phis,               \* values of phi that are told apart
    DeclineWindow,      \* PHI_DECLINE_WINDOW
    DeclineMagnitude,   \* PHI_DECLINE_MAGNITUDE
    Persistence,        \* NEED_PERSISTENCE_THRESHOLD
    BaseCooldown,       \* BASE_COOLDOWN
    CuriousAt           \* recurrences at which the pressure is INV_PHI2

ASSUME InitiativeAssumption ==
    /\ Phis \subseteq Nat /\ DeclineMagnitude \in Nat
    /\ {DeclineWindow, Persistence, BaseCooldown, CuriousAt} \subseteq Nat \ {0}

VARIABLES
    needTracker,    \* _need_tracker; 0: not tracked; counted up to Persistence
    phiHistory,     \* the last DeclineWindow entries of _phi_history
    cooled,         \* steps of psi since the last initiative, up to BaseCooldown
    curiosity,      \* _curiosity_counts
    decision,       \* what the last evaluation decided
    wondered        \* needs for which it registered a curiosity

initiativeVars == <<needTracker, phiHistory, cooled, curiosity, decision, wondered>>

\* What a turn thought, if it did: without a Thinker there is no thought.
Thoughts == {{}} \cup {{seen} : seen \in SUBSET Needs}

\* A need unseen is forgotten, one seen is counted.
TrackNeeds(thought) ==
    IF thought = {} THEN needTracker
    ELSE [n \in Needs |->
            IF n \notin UNION thought THEN 0
            ELSE IF needTracker[n] < Persistence THEN needTracker[n] + 1 ELSE Persistence]

TrackPhi(phi) ==
    LET all == Append(phiHistory, phi) IN
    IF Len(all) > DeclineWindow THEN Tail(all) ELSE all

IsPhiDeclining(h) ==
    /\ Len(h) = DeclineWindow
    /\ \A i \in 1 .. Len(h) - 1 : h[i + 1] < h[i]
    /\ h[1] - h[Len(h)] > DeclineMagnitude

\* Decided in this order; an urgent dream comes from the Reactor's modifiers.
Decide(since, urgentDream, h, tracked) ==
    CASE since < BaseCooldown -> "cooldown"
      [] urgentDream -> "dream"
      [] IsPhiDeclining(h) -> "phi"
      [] \E n \in Needs : tracked[n] >= Persistence -> "need"
      [] OTHER -> "none"

Acts(d) == d \in {"dream", "phi", "need"}

\* Mutant of RecordInitiative: an evaluation turned down starts the cooldown over.
RecordEvaluation(d, since) == IF d = "none" THEN since ELSE 0

RecordInitiative(d, since) == IF Acts(d) THEN 0 ELSE since

\* Steps count up to the cooldown.
Stepped(k) == IF cooled + k < BaseCooldown THEN cooled + k ELSE BaseCooldown

\* The engine tracks first, whatever the cooldown says.
Evaluate(thought, phi, urgentDream, since) ==
    /\ needTracker' = TrackNeeds(thought)
    /\ phiHistory' = TrackPhi(phi)
    /\ decision' = Decide(since, urgentDream, phiHistory', needTracker')
    /\ cooled' = RecordInitiative(decision', since)

\* Counted without a look at whether the need went away meanwhile.
Wonder(thought) ==
    LET seen == UNION thought
        now == [n \in Needs |-> IF n \in seen THEN curiosity[n] + 1 ELSE curiosity[n]]
    IN  /\ wondered' = {n \in seen : now[n] >= CuriousAt}
        /\ curiosity' = [n \in Needs |-> IF n \in wondered' THEN 0 ELSE now[n]]

\* A turn evolves psi at least twice before it evaluates ...
TurnEvaluates ==
    \E thought \in Thoughts, phi \in Phis, urgentDream \in BOOLEAN :
        /\ Evaluate(thought, phi, urgentDream, Stepped(2))
        /\ Wonder(thought)

\* ... and the idle tick once; it thinks always.
IdleCognitiveTick ==
    \E seen \in SUBSET Needs, phi \in Phis, urgentDream \in BOOLEAN :
        /\ Evaluate({seen}, phi, urgentDream, Stepped(1))
        /\ Wonder({seen})

\* The heartbeat and the loop evolve psi, too.
OtherStep ==
    /\ cooled' = Stepped(1)
    /\ UNCHANGED <<needTracker, phiHistory, curiosity, decision, wondered>>

\* A new process: _last_initiative_step is 0, and step_count what the checkpoint says.
NewSession ==
    /\ needTracker' = [n \in Needs |-> 0]
    /\ curiosity' \in [Needs -> 0 .. CuriousAt - 1]
    /\ phiHistory' = <<>>
    /\ cooled' \in 0 .. BaseCooldown
    /\ decision' = "none" /\ wondered' = {}

InitiativeInit ==
    /\ needTracker = [n \in Needs |-> 0]
    /\ curiosity = [n \in Needs |-> 0]
    /\ phiHistory = <<>>
    /\ cooled \in 0 .. BaseCooldown
    /\ decision = "none" /\ wondered = {}

InitiativeNext == TurnEvaluates \/ IdleCognitiveTick \/ OtherStep \/ NewSession

(* A session that is left alone goes on with its idle ticks. *)
InitiativeSpec ==
    InitiativeInit /\ [][InitiativeNext]_initiativeVars /\ WF_initiativeVars(IdleCognitiveTick)

InitiativeTypeOK ==
    /\ needTracker \in [Needs -> 0 .. Persistence]
    /\ phiHistory \in Seq(Phis) /\ Len(phiHistory) <= DeclineWindow
    /\ cooled \in 0 .. BaseCooldown
    /\ curiosity \in [Needs -> 0 .. CuriousAt - 1]
    /\ decision \in {"none", "cooldown", "dream", "phi", "need"}
    /\ wondered \subseteq Needs

-----------------------------------------------------------------------------
(* Properties.                                                             *)

(* A need that from some time on every idle tick finds, with the user gone *)
(* for good, is not passed over for ever: however often the cooldown turns *)
(* an evaluation down, initiatives keep coming, and so do curiosities.     *)
StandingNeedsAreVoiced ==
    \A n \in Needs :
        <>[][IdleCognitiveTick /\ needTracker'[n] > 0]_initiativeVars
            => []<>Acts(decision) /\ []<>(n \in wondered)
=============================================================================
