----------------------------- MODULE ChatHistory -----------------------------
(***************************************************************************)
(* The chat history of luna/chat/session.py and the two files behind it:   *)
(* chat_history.json, written whole at checkpoints and at stop, and        *)
(* chat_archive.json, to which a turn moves what it trims.                 *)
(*                                                                         *)
(* A message is the number under which it was said, over all sessions.     *)
(* Both files are replaced atomically (os.replace), so a crash leaves the  *)
(* old or the new content.  What compression extracts into episodic memory *)
(* is data and is left out.                                                *)
(***************************************************************************)
EXTENDS Integers, Sequences, SequencesExt, FiniteSets

CONSTANTS
    Origins,        \* who may start a turn: {"user", "endogenous"} or fewer
    MaxHistory,     \* chat.max_history
    Interval,       \* heartbeat.checkpoint_interval, in turns
    Faults,         \* what may fail: turns before their answer, either file
    MaxCrashes,     \* bound on the times the process is killed
    MaxMessages     \* bound on the messages ever said

ASSUME HistoryAssumption ==
    /\ Origins \subseteq {"user", "endogenous"}
    /\ MaxHistory \in Nat \ {0}
    /\ Interval \in Nat \ {0}
    /\ Faults \subseteq {"interrupt", "history", "archive"}
    /\ {MaxCrashes, MaxMessages} \subseteq Nat

VARIABLES
    up,             \* the session is started
    history,        \* _history
    start,          \* _session_start_index
    turns,          \* _turn_count, modulo the checkpoint interval
    pc,             \* each turn: "none", "asked" or "persist"
    said,           \* history variable: messages said so far
    before,         \* history variable: messages said before this session
    crashes,        \* history variable: how often the process was killed
    failed,         \* history variable: what failed so far
    file,           \* chat_history.json
    archive         \* chat_archive.json

historyVars == <<up, history, start, turns, pc, said, before, crashes, failed, file, archive>>
files == <<file, archive>>

HistoryTypeOK ==
    /\ up \in BOOLEAN
    /\ history \in Seq(1..said)
    /\ start \in 0..Len(history)
    /\ turns \in 0 .. Interval - 1
    /\ pc \in [Origins -> {"none", "asked", "persist"}]
    /\ said \in Nat
    /\ before \in 0..said
    /\ crashes \in 0..MaxCrashes
    /\ failed \subseteq {"interrupt", "history", "archive"}
    /\ file \in Seq(1..said)
    /\ archive \in Seq(1..said)

HistoryInit ==
    /\ up = FALSE
    /\ history = <<>>
    /\ start = 0
    /\ turns = 0
    /\ pc = [o \in Origins |-> "none"]
    /\ said = 0
    /\ before = 0
    /\ crashes = 0
    /\ failed = {}
    /\ file = <<>>
    /\ archive = <<>>

Idle == \A o \in Origins : pc[o] = "none"

(* history[-max_h:] and what it leaves out. *)
Excess(s) == IF Len(s) > MaxHistory THEN Len(s) - MaxHistory ELSE 0
Recent(s) == SubSeq(s, Excess(s) + 1, Len(s))
Trimmed(s) == SubSeq(s, 1, Excess(s))

Interrupted == Cardinality({o \in Origins : pc[o] = "asked"})

-----------------------------------------------------------------------------
(* _load_history: an unreadable entry ends the loading; what was read      *)
(* before it stays.                                                        *)
Readable ==
    IF "history" \in Faults THEN {SubSeq(file, 1, n) : n \in 0..Len(file)}
                                ELSE {file}

(* start: the history of earlier sessions comes first.  The turn count is  *)
(* restored from the last checkpoint, which dreams and the stop write too. *)
Start ==
    /\ ~up
    /\ up' = TRUE
    /\ history' \in Readable
    /\ failed' = IF history' = file THEN failed ELSE failed \cup {"history"}
    /\ start' = Len(history')
    /\ turns' \in 0 .. Interval - 1
    /\ before' = said
    /\ UNCHANGED <<pc, said, crashes, files>>

(* send: the message that starts the turn. *)
Begin(o) ==
    /\ up
    /\ pc[o] = "none"
    /\ said + 2 + Interrupted <= MaxMessages
    /\ said' = said + 1
    /\ history' = Append(history, said')
    /\ pc' = [pc EXCEPT ![o] = "asked"]
    /\ UNCHANGED <<up, start, turns, before, crashes, failed, files>>

(* Mutant: the trimmed messages are put first. *)
ArchiveFirst(trimmed) == archive' = trimmed \o archive /\ UNCHANGED failed

(* _archive_history: an archive that cannot be read is started afresh, one *)
(* that cannot be written stays as it is; the caller goes on in each case. *)
ArchiveHistory(trimmed) ==
    \/ archive' = archive \o trimmed /\ UNCHANGED failed
    \/ /\ "archive" \in Faults
       /\ archive' \in {trimmed, archive}
       /\ failed' = failed \cup {"archive"}

(* The index of the session's first message after `dropped' were trimmed. *)
Shift(dropped) == IF dropped >= start THEN 0 ELSE start - dropped

(* _finalize_turn up to the write of the seed memory: the answer, then the *)
(* trim.                                                                   *)
Answer(o) ==
    /\ pc[o] = "asked"
    /\ said' = said + 1
    /\ LET full == Append(history, said')
       IN  /\ history' = Recent(full)
           /\ start' = Shift(Excess(full))
           /\ IF Excess(full) > 0 THEN ArchiveHistory(Trimmed(full))
                                  ELSE UNCHANGED <<archive, failed>>
    /\ pc' = [pc EXCEPT ![o] = "persist"]
    /\ UNCHANGED <<up, turns, before, crashes, file>>

(* Mutant: only the messages of this session are saved. *)
SaveSessionOnly(cut) ==
    /\ file' = SubSeq(history, start + 1, Len(history))
    /\ failed' = failed \cup cut

(* _save_history: nothing to save when the history is empty.  `cut' is     *)
(* what else fails in the same step.                                       *)
SaveHistory(cut) ==
    \/ /\ file' = IF history = <<>> THEN file ELSE Recent(history)
       /\ failed' = failed \cup cut
    \/ /\ "history" \in Faults
       /\ failed' = failed \cup cut \cup {"history"}
       /\ UNCHANGED file

(* The turn returns; every `Interval' turns it saves a checkpoint. *)
Finish(o) ==
    /\ pc[o] = "persist"
    /\ pc' = [pc EXCEPT ![o] = "none"]
    /\ turns' = (turns + 1) % Interval
    /\ IF turns' = 0 THEN SaveHistory({}) ELSE UNCHANGED <<file, failed>>
    /\ UNCHANGED <<up, history, start, said, before, crashes, archive>>

(* The turn fails before its answer, with an error send does not catch. *)
Fail(o) ==
    /\ "interrupt" \in Faults
    /\ pc[o] = "asked"
    /\ pc' = [pc EXCEPT ![o] = "none"]
    /\ failed' = failed \cup {"interrupt"}
    /\ UNCHANGED <<up, history, start, turns, said, before, crashes, files>>

(* stop: the turns in flight are cancelled at their awaits, then the       *)
(* history is saved.                                                       *)
Stop ==
    /\ up
    /\ Idle \/ "interrupt" \in Faults
    /\ up' = FALSE
    /\ pc' = [o \in Origins |-> "none"]
    /\ SaveHistory(IF Idle THEN {} ELSE {"interrupt"})
    /\ history' = <<>>
    /\ start' = 0
    /\ UNCHANGED <<turns, said, before, crashes, archive>>

Crash ==
    /\ up
    /\ crashes < MaxCrashes
    /\ up' = FALSE
    /\ pc' = [o \in Origins |-> "none"]
    /\ history' = <<>>
    /\ start' = 0
    /\ crashes' = crashes + 1
    /\ UNCHANGED <<turns, said, before, failed, files>>

HistoryNext ==
    \/ Start \/ Stop \/ Crash
    \/ \E o \in Origins : Begin(o) \/ Answer(o) \/ Finish(o) \/ Fail(o)

HistorySpec == HistoryInit /\ [][HistoryNext]_historyVars

-----------------------------------------------------------------------------
(* The index splits the history: before it lie the messages of earlier     *)
(* sessions, which the prompt marks as recalled, from it on exactly this   *)
(* session's.  Trims by concurrent turns, lost files and restarts must not *)
(* move the border.                                                        *)
StartSplitsSessions ==
    \A i \in 1..Len(history) : i <= start <=> history[i] <= before

Stored == ToSet(file) \cup ToSet(archive)
Kept == Stored \cup ToSet(history)

(* "Messages are NEVER deleted — they are moved from the active history    *)
(* to memory_fractal/chat_archive.json" (session.py:506-507): only a kill  *)
(* makes messages disappear from the history and both files.               *)
NeverDeleted == [][crashes' = crashes => Kept \subseteq Kept']_historyVars

(* The promise holds as long as no turn is cut off and both files work.    *)
OnlyFailuresDelete ==
    [][failed' = {} /\ crashes' = crashes => Kept \subseteq Kept']_historyVars

(* As long as the process was never killed and nothing failed, the archive *)
(* followed by the history (or its file, between sessions) is the whole    *)
(* conversation, each message once and in the order it was said.           *)
Conversation == [i \in 1..said |-> i]
WholeConversation ==
    crashes = 0 /\ failed = {} =>
        archive \o (IF up THEN history ELSE file) = Conversation

(* Both: the sessions are told apart and nothing between them is lost.     *)
SessionsWhole == StartSplitsSessions /\ WholeConversation
=============================================================================
