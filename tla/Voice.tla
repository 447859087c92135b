-------------------------------- MODULE Voice --------------------------------
(***************************************************************************)
(* What Luna says: the LLM's reply, checked against the thought it voices  *)
(* (luna/llm_bridge/voice_validator.py) before ChatSession.send shows it.  *)
(*                                                                         *)
(* A reply is a row of cells; what the checks object to are spans of them. *)
(* A span may lie in another of another kind (a name in a code block, an   *)
(* upper-case word in a claim to feel); spans of one kind never overlap.   *)
(***************************************************************************)
EXTENDS Integers, Sequences, SequencesExt, FiniteSets

CONSTANTS
    Cells,          \* bound: cells of a reply
    MaxSpans,       \* bound: spans objected to
    MostListed      \* VoiceDelta: violations_count <= 100

ASSUME VoiceAssumption == Cells \in Nat \ {0} /\ MaxSpans \in Nat /\ MostListed \in Nat

VARIABLES
    said,           \* the LLM's reply: the spans objected to, what Luna felt
    spoken,         \* what is shown, "no" cells before it is
    delta,          \* the VoiceDelta given to _chat_evolve and the record
    corrected       \* _voice_correction_count > 0

voiceVars == <<said, spoken, delta, corrected>>

Reply == [i \in 1..Cells |-> i]
NoDelta == [count |-> 0, severity |-> 0, kinds |-> {}]

-----------------------------------------------------------------------------
(* The checks.  Which names and numbers the thought and the state ground,  *)
(* and which words an emotion has, is data.                                *)
Spans(type, length) == {[type |-> type, from |-> i, to |-> i + length - 1] : i \in 1..(Cells - length + 1)}

Agents == Spans("agent", 1)
CodeBlocks == Spans("code", 3)
Metrics == Spans("metric", 1)
Architecture == Spans("module", 2) \cup Spans("architecture", 2)

(* Only against an affect of a clear direction that has a name. *)
EmotionalClaims(directed) == IF directed THEN Spans("emotion", 2) ELSE {}

Overlap(a, b) == a.from <= b.to /\ b.from <= a.to
Within(a, b) == b.from <= a.from /\ a.to <= b.to

(* Spans that patterns may match in one reply: names hold no digit, claims *)
(* to feel no fence.                                                       *)
Compatible(a, b) ==
    a = b \/ ~Overlap(a, b) \/
        /\ a.type # b.type
        /\ {a.type, b.type} \notin {{"agent", "metric"}, {"metric", "emotion"}, {"module", "architecture"}}
        /\ (Within(a, b) \/ Within(b, a))
        /\ a.type = "code" => Within(b, a)
        /\ b.type = "code" => Within(a, b)

Findings(directed) ==
    {v \in UNION {kSubset(n, Agents \cup CodeBlocks \cup Metrics \cup Architecture
                                \cup EmotionalClaims(directed)) : n \in 0..MaxSpans} :
        \A a, b \in v : Compatible(a, b)}

Neutral == Findings(FALSE)
Directed == Findings(TRUE)

Severity(type) ==
    CASE type \in {"agent", "code", "emotion"} -> 1000
      [] type \in {"metric", "module"} -> 618
      [] type = "architecture" -> 382

TotalSeverity(v) == MapThenSumSet(LAMBDA a : Severity(a.type), v)
IsValid(v) == TotalSeverity(v) < 618 /\ Cardinality(v) <= 2

-----------------------------------------------------------------------------
(* sanitize: each span in place, the last first; of two with one start the *)
(* one its check found first.  Its offsets are the reply's.                *)
Order(type) ==
    CASE type = "agent" -> 1 [] type = "code" -> 2 [] type = "metric" -> 3
      [] type \in {"module", "architecture"} -> 4 [] type = "emotion" -> 5

(* Mutant: the first span is replaced first. *)
FirstFirst(a) == 5 * (a.from - 1) + Order(a.type)

(* The place of a span in that order, and how many places there are. *)
Place(a) == 5 * (Cells - a.from) + Order(a.type)
Places == 5 * Cells

(* "[agent inconnu]" and "[donnee non verifiee]" are longer than what they *)
(* stand for, "[emotion corrigee]" need not be.                            *)
Mark(type) ==
    CASE type = "agent" -> <<-1, -1>> [] type = "metric" -> <<-2, -2>>
      [] type = "emotion" -> <<-3>> [] type = "code" -> <<>>

FlagOnly == {"module", "architecture"}
CodeNote == <<-4>>

Replaced(text, a) ==
    IF a.type \in FlagOnly THEN text
    ELSE SubSeq(text, 1, a.from - 1) \o Mark(a.type) \o SubSeq(text, a.to + 1, Len(text))

ReplacedAt(v, k, text) ==
    IF \E a \in v : Place(a) = k
    THEN Replaced(text, CHOOSE a \in v : Place(a) = k)
    ELSE text

(* The text after the spans of the first k places, for every k. *)
Replacing(v) ==
    LET text[k \in 0..Places] == IF k = 0 THEN Reply ELSE ReplacedAt(v, k, text[k - 1])
    IN  text

Note(v) == IF \E a \in v : a.type = "code" THEN CodeNote ELSE <<>>

(* Spaces before the note, and repeated timestamps, are layout.            *)
Sanitize(v) == Replacing(v)[Places] \o Note(v)

(* validate_with_delta: VoiceDelta has no category for an emotion, and     *)
(* takes no more than so many violations; it raises otherwise.             *)
VoiceCategories == {"HALLUCINATION", "SECURITY", "UNVERIFIED", "TOO_ASSERTIVE", "STYLE", "FORMAT"}
Category(type) ==
    CASE type \in {"agent", "module"} -> "HALLUCINATION" [] type = "code" -> "SECURITY"
      [] type = "metric" -> "UNVERIFIED" [] type = "architecture" -> "TOO_ASSERTIVE"
      [] type = "emotion" -> "EMOTIONAL_OVERRIDE"
Categories(v) == {Category(a.type) : a \in v}

DeltaOf(v) ==
    [count |-> Cardinality(v), kinds |-> Categories(v),
     severity |-> IF TotalSeverity(v) > 1000 THEN 1000 ELSE TotalSeverity(v)]

Raises(v) == ~(Categories(v) \subseteq VoiceCategories) \/ Cardinality(v) > MostListed

-----------------------------------------------------------------------------
VoiceInit == said = {} /\ spoken = <<>> /\ delta = NoDelta /\ corrected = FALSE

(* The LLM answers. *)
LLMReplies ==
    /\ said = {}
    /\ said' \in (Neutral \cup Directed) \ {{}}
    /\ UNCHANGED <<spoken, delta, corrected>>

(* ChatSession.send: a validator that raises leaves the reply as it is,    *)
(* and the cycle without a delta.                                          *)
ValidateReply ==
    /\ spoken = <<>> /\ said # {}
    /\ IF Raises(said)
       THEN spoken' = Reply /\ delta' = NoDelta /\ UNCHANGED corrected
       ELSE /\ spoken' = IF IsValid(said) THEN Reply ELSE Sanitize(said)
            /\ delta' = DeltaOf(said)
            /\ corrected' = (corrected \/ ~IsValid(said))
    /\ UNCHANGED said

(* The delta is used by _chat_evolve and the record, and the turn ends. *)
VoiceRecorded ==
    /\ spoken # <<>>
    /\ said' = {} /\ spoken' = <<>> /\ delta' = NoDelta
    /\ UNCHANGED corrected

VoiceNext == LLMReplies \/ ValidateReply \/ VoiceRecorded

VoiceSpec == VoiceInit /\ [][VoiceNext]_voiceVars

-----------------------------------------------------------------------------
(* The cells of the reply in order, each replaced span marked once. *)
Edits(v) == {a \in v : a.type \notin FlagOnly}

Covers(a, i) == i \in a.from..a.to

CellOf(edits, i) ==
    IF \E a \in edits : Covers(a, i)
    THEN LET a == CHOOSE x \in edits : Covers(x, i)
         IN  IF i = a.from THEN Mark(a.type) ELSE <<>>
    ELSE <<i>>

Marked(edits) == FlattenSeq([i \in 1..Cells |-> CellOf(edits, i)])

Corrected(v) == Marked(Edits(v)) \o Note(v)

Apart(v) == \A a, b \in v : a = b \/ FlagOnly \cap {a.type, b.type} # {} \/ ~Overlap(a, b)

(* A reply the validator rejects is shown with every span replaced and     *)
(* nothing else touched, when no span lies in another and the validator    *)
(* does not raise (sanitize: "earlier offsets remain valid").              *)
SpokenAsCorrected ==
    spoken # <<>> /\ Apart(said) /\ ~Raises(said) =>
        spoken = IF IsValid(said) THEN Reply ELSE Corrected(said)

(* README.md:83: "The VoiceValidator blocks emotional contradictions".     *)
ContradictionsBlocked ==
    \A a \in said : a.type = "emotion" /\ spoken # <<>> => spoken # Reply
=============================================================================
