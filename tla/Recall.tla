------------------------------- MODULE Recall -------------------------------
(***************************************************************************)
(* What Luna remembers and what she takes to be connected:                 *)
(* luna/consciousness/episodic_memory.py and causal_graph.py, the founding *)
(* episodes of luna/identity/bootstrap.py, and the callers of all three in *)
(* ChatSession, CognitiveLoop and DreamReflection.                         *)
(*                                                                         *)
(* The tags of one thought are a set (no tag twice); strengths are         *)
(* thousandths.  weaken, decay_all and EpisodicMemory.decay have no caller *)
(* and are left out: a link only ever grows.                               *)
(***************************************************************************)
EXTENDS Integers, Sequences, SequencesExt, FiniteSets

CONSTANTS
    Topics,           \* tags of observations
    Heuristic,      \* the pairs <<cause, effect>> the Thinker knows without learning
    Capacity,       \* CAPACITY: 500
    Founders,       \* founding episodes: 3
    MinCount,       \* promote_co_occurrences(min_count=3)
    MaxEpisodes     \* bound: episodes recorded

ASSUME RecallAssumption ==
    /\ Heuristic \subseteq Topics \X Topics
    /\ Capacity \in Nat \ {0} /\ Founders \in 0..Capacity
    /\ MinCount \in Nat \ {0} /\ MaxEpisodes \in Nat

VARIABLES
    awake, storing,     \* the process runs; save_v35_state saved the graph, not yet the episodes
    episodes,           \* EpisodicMemory._episodes
    links,              \* CausalGraph._edges: strengths, 0 where there is none
    sightings, together,     \* _observation_count, _co_occurrence_matrix
    files,              \* causal_graph.json and episodic_memory.json
    recorded            \* episodes recorded (bound)

recallVars == <<awake, storing, episodes, links, sightings, together, files, recorded>>

Pairs == Topics \X Topics
ReinforceStep == 382
PruneThreshold == 236
Bounded(n) == IF n > 1000 THEN 1000 ELSE n
Lesser(a, b) == IF a < b THEN a ELSE b
Pinned(s) == {e \in Range(s) : e.pinned}

-----------------------------------------------------------------------------
(* What memory and file keep of an episode, as far as it matters here. *)
Episode(id, pinned) == [id |-> id, pinned |-> pinned]

(* record: over the capacity, the oldest unpinned episode goes. *)
Recorded(s, e) ==
    LET with == Append(s, e)
        free == {i \in DOMAIN with : ~with[i].pinned}
        oldest == CHOOSE i \in free : \A j \in free : i <= j
    IN  IF Cardinality(free) > Capacity THEN RemoveAt(with, oldest) ELSE with

(* load: the last Capacity episodes of the file. *)
LoadedEpisodes(s) ==
    IF Len(s) > Capacity THEN SubSeq(s, Len(s) - Capacity + 1, Len(s)) ELSE s

(* bootstrap_founding_episodes, for an empty memory and a loaded bundle. *)
FoundingEpisodes == [i \in 1..Founders |-> Episode(i, TRUE)]

-----------------------------------------------------------------------------
(* _find_causalities: pairs of one thought, known by heart or learned. *)
Causalities(idea) ==
    {p \in Pairs : {p[1], p[2]} \subseteq idea /\ p[1] # p[2]
                   /\ (p \in Heuristic \/ links[p] > PruneThreshold)}

(* observe_pair, for each causality. *)
Observed(pairs) ==
    [p \in Pairs |-> IF p \in pairs THEN Bounded(links[p] + ReinforceStep) ELSE links[p]]

(* Whether two tags came together often enough to be linked. *)
Tied(p, s, t) ==
    /\ p[1] # p[2]
    /\ t[p] > 0
    /\ s[p[1]] >= MinCount /\ s[p[2]] >= MinCount
    /\ 1000 * t[p] >= 618 * Lesser(s[p[1]], s[p[2]])

(* Mutant: pairs linked in one direction are skipped in both. *)
PromotedOneWay(l, s, t) ==
    [p \in Pairs |-> IF l[p] = 0 /\ l[<<p[2], p[1]>>] = 0 /\ Tied(p, s, t)
                     THEN ReinforceStep ELSE l[p]]

(* promote_co_occurrences: both directions, each where it is missing. *)
PromotedPairs(l, s, t) ==
    [p \in Pairs |-> IF l[p] = 0 /\ Tied(p, s, t) THEN ReinforceStep ELSE l[p]]

(* _update_causal_graph.  A lone tag is not counted. *)
UpdateCausalGraph(idea) ==
    LET many == Cardinality(idea) >= 2
    IN  /\ sightings' = [x \in Topics |-> sightings[x] + IF many /\ x \in idea THEN 1 ELSE 0]
        /\ together' = [p \in Pairs |-> together[p] +
                IF {p[1], p[2]} \subseteq idea /\ p[1] # p[2] THEN 1 ELSE 0]
        /\ links' = PromotedPairs(Observed(Causalities(idea)), sightings', together')

-----------------------------------------------------------------------------
RecallInit ==
    /\ awake = FALSE /\ storing = FALSE
    /\ episodes = <<>> /\ recorded = 0
    /\ links = [p \in Pairs |-> 0]
    /\ sightings = [x \in Topics |-> 0] /\ together = [p \in Pairs |-> 0]
    /\ files = [episodes |-> <<>>, links |-> links, sightings |-> sightings, together |-> together]

(* _init_v35_components: both files are read; an empty memory is founded   *)
(* when the engine has an identity bundle.                                 *)
WakeUp ==
    /\ ~awake /\ awake' = TRUE
    /\ \E bundle \in BOOLEAN :
          episodes' = IF files.episodes = <<>> /\ bundle
                      THEN FoundingEpisodes ELSE LoadedEpisodes(files.episodes)
    /\ links' = files.links /\ sightings' = files.sightings /\ together' = files.together
    /\ UNCHANGED <<storing, files, recorded>>

Remember ==
    /\ recorded < MaxEpisodes /\ recorded' = recorded + 1
    /\ episodes' = Recorded(episodes, Episode(Founders + recorded', FALSE))

(* A turn: the thought's causalities, then its episode. *)
RememberTurn ==
    /\ awake /\ ~storing
    /\ \E idea \in SUBSET Topics : UpdateCausalGraph(idea)
    /\ Remember
    /\ UNCHANGED <<awake, storing, files>>

(* A thought that made no episode (DreamReflection): pairs and a prune,    *)
(* which finds nothing below its threshold.                                *)
Reflect ==
    /\ awake /\ ~storing
    /\ \E idea \in SUBSET Topics :
          links' = [p \in Pairs |->
              LET l == Observed(Causalities(idea))[p] IN IF l < PruneThreshold THEN 0 ELSE l]
    /\ UNCHANGED <<awake, storing, episodes, sightings, together, files, recorded>>

(* _compress_history: an episode, saved at once; the graph is not. *)
Compress ==
    /\ awake /\ ~storing
    /\ Remember
    /\ files' = [files EXCEPT !.episodes = episodes']
    /\ UNCHANGED <<awake, storing, links, sightings, together>>

(* save_v35_state: the graph's file, then the episodes'. *)
StoreGraph ==
    /\ awake /\ ~storing /\ storing' = TRUE
    /\ files' = [episodes |-> files.episodes,
                 links |-> links, sightings |-> sightings, together |-> together]
    /\ UNCHANGED <<awake, episodes, links, sightings, together, recorded>>

StoreEpisodes ==
    /\ storing /\ storing' = FALSE
    /\ files' = [files EXCEPT !.episodes = episodes]
    /\ UNCHANGED <<awake, episodes, links, sightings, together, recorded>>

(* The process ends, saved or not. *)
FallAsleep ==
    /\ awake /\ awake' = FALSE /\ storing' = FALSE
    /\ UNCHANGED <<episodes, links, sightings, together, files, recorded>>

RecallNext == WakeUp \/ RememberTurn \/ Reflect \/ Compress \/ StoreGraph \/ StoreEpisodes \/ FallAsleep

RecallSpec == RecallInit /\ [][RecallNext]_recallVars

-----------------------------------------------------------------------------
(* Tags that came together often enough are linked both ways, whatever was *)
(* learned of one direction before, and across restarts                    *)
(* (promote_co_occurrences after every turn, one file for graph and counts). *)
TiedTagsLinked ==
    \A p \in Pairs : Tied(p, sightings, together) =>
        links[p] > PruneThreshold /\ links[<<p[2], p[1]>>] > PruneThreshold

(* A restart loses no pinned episode that was saved: episodic_memory.py:93 *)
(* says pinned episodes survive decay and FIFO.                            *)
FoundingStay ==
    [][~awake /\ awake' => Pinned(files.episodes) \subseteq Pinned(episodes')]_recallVars
=============================================================================
