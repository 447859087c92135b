-------------------------- MODULE ChatHistory_proofs --------------------------
(***************************************************************************)
(* The chat history, for every length limit, checkpoint interval and set   *)
(* of turns: its types, that the index of the session's first message      *)
(* splits the history exactly, whatever turns, files and kills do, that    *)
(* until something fails the whole conversation is kept in order, and that *)
(* only failures delete messages.                                          *)
(***************************************************************************)
EXTENDS ChatHistory, SequenceTheorems, TLAPS

(* The two parts of a sequence cut after its d-th element. *)
LEMMA CutProperties ==
  ASSUME NEW S, NEW s \in Seq(S), NEW d \in 0..Len(s)
  PROVE  /\ SubSeq(s, 1, d) \in Seq(S)
         /\ Len(SubSeq(s, 1, d)) = d
         /\ SubSeq(s, d + 1, Len(s)) \in Seq(S)
         /\ Len(SubSeq(s, d + 1, Len(s))) = Len(s) - d
         /\ \A i \in 1..Len(s) - d : SubSeq(s, d + 1, Len(s))[i] = s[i + d]
<1>1. SubSeq(s, 1, d) \in Seq(S)
  OBVIOUS
<1>2. Len(SubSeq(s, 1, d)) = d
  OBVIOUS
<1>3. SubSeq(s, d + 1, Len(s)) \in Seq(S) /\ Len(SubSeq(s, d + 1, Len(s))) = Len(s) - d
  OBVIOUS
<1>4. \A i \in 1..Len(s) - d : SubSeq(s, d + 1, Len(s))[i] = s[i + d]
  OBVIOUS
<1> QED  BY <1>1, <1>2, <1>3, <1>4

(* A trim cuts the sequence in two and loses nothing. *)
LEMMA TrimProperties ==
  ASSUME NEW S, NEW s \in Seq(S)
  PROVE  /\ Excess(s) \in 0..Len(s)
         /\ Len(s) - Excess(s) <= MaxHistory
         /\ s # <<>> => Recent(s) # <<>>
         /\ Recent(s) \in Seq(S)
         /\ Len(Recent(s)) = Len(s) - Excess(s)
         /\ \A i \in 1..Len(s) - Excess(s) : Recent(s)[i] = s[i + Excess(s)]
         /\ Trimmed(s) \in Seq(S)
         /\ Trimmed(s) \o Recent(s) = s
         /\ Excess(s) = 0 => Recent(s) = s
<1>1. Len(s) \in Nat /\ MaxHistory \in Nat \ {0}
  BY HistoryAssumption
<1>2. Excess(s) \in 0..Len(s) /\ Len(s) - Excess(s) <= MaxHistory
  BY <1>1 DEF Excess
<1>3. /\ Recent(s) \in Seq(S)
      /\ Len(Recent(s)) = Len(s) - Excess(s)
      /\ \A i \in 1..Len(s) - Excess(s) : Recent(s)[i] = s[i + Excess(s)]
      /\ Trimmed(s) \in Seq(S)
  BY <1>2, CutProperties, ZenonT(60) DEF Recent, Trimmed
<1>4. Trimmed(s) \o Recent(s) = SubSeq(s, 1, Len(s))
  <2>1. /\ 1 \in 1..Len(s) + 1 /\ Excess(s) \in 1 - 1 .. Len(s)
        /\ Len(s) \in Excess(s)..Len(s)
    BY <1>1, <1>2
  <2> QED  BY <2>1, ConcatAdjacentSubSeq, ZenonT(60) DEF Recent, Trimmed
<1>5. SubSeq(s, 1, Len(s)) = s
  OBVIOUS
<1>6. Excess(s) = 0 => Recent(s) = s
  BY <1>5 DEF Recent
<1>7. s # <<>> => Recent(s) # <<>>
  <2>1. s # <<>> => Len(s) > 0
    OBVIOUS
  <2>2. Len(s) > 0 => Excess(s) < Len(s)
    BY <1>1 DEF Excess
  <2> QED  BY <1>2, <1>3, <2>1, <2>2
<1> QED  BY <1>2, <1>3, <1>4, <1>5, <1>6, <1>7

(* Loading gives a beginning of the file, or all of it. *)
LEMMA ReadableTypes ==
  ASSUME file \in Seq(1..said), NEW h \in Readable
  PROVE  h \in Seq(1..said)
<1>1. \A n \in 0..Len(file) : SubSeq(file, 1, n) \in Seq(1..said)
  BY CutProperties, ZenonT(60)
<1> QED  BY <1>1 DEF Readable

(* Saving gives the end of the history, or leaves the file alone. *)
LEMMA SaveTypes ==
  ASSUME HistoryTypeOK, NEW cut \in SUBSET {"interrupt"}, SaveHistory(cut)
  PROVE  /\ file' \in Seq(1..said)
         /\ failed' \subseteq {"interrupt", "history", "archive"}
<1>1. Recent(history) \in Seq(1..said)
  BY TrimProperties, ZenonT(60) DEF HistoryTypeOK
<1> QED  BY <1>1 DEF SaveHistory, HistoryTypeOK

(* The trim of an answer: what is kept, what goes to the archive and where *)
(* the index ends up.                                                      *)
LEMMA AnswerTrims ==
  ASSUME HistoryTypeOK, NEW o \in Origins, Answer(o),
         NEW full, full = Append(history, said + 1)
  PROVE  /\ said' = said + 1 /\ said \in Nat
         /\ full \in Seq(1..said') /\ Len(full) = Len(history) + 1
         /\ \A i \in 1..Len(history) : full[i] = history[i]
         /\ full[Len(full)] = said'
         /\ full # <<>>
         /\ history' = Recent(full)
         /\ start' = Shift(Excess(full))
         /\ IF Excess(full) > 0 THEN ArchiveHistory(Trimmed(full))
                                ELSE UNCHANGED <<archive, failed>>
<1>1. said' = said + 1 /\ said \in Nat
  BY DEF Answer, HistoryTypeOK
<1>2. history \in Seq(1..said') /\ said' \in 1..said'
  <2>1. 1..said \subseteq 1..said' /\ said' \in 1..said'
    BY <1>1
  <2> QED  BY <2>1 DEF HistoryTypeOK
<1>3. /\ full \in Seq(1..said') /\ Len(full) = Len(history) + 1
      /\ \A i \in 1..Len(history) : full[i] = history[i]
      /\ full[Len(history) + 1] = said'
      /\ full # <<>>
  BY <1>1, <1>2
<1>4. full = Append(history, said')
  BY <1>1
<1> QED  BY <1>1, <1>3, <1>4 DEF Answer

(* Concatenation groups as one likes. *)
LEMMA Regroup ==
  ASSUME NEW S, NEW s \in Seq(S), NEW t \in Seq(S), NEW u \in Seq(S)
  PROVE  (s \o t) \o u = s \o (t \o u)
  OBVIOUS

(* What the assumption says of the numbers. *)
LEMMA Bounds ==
  MaxHistory \in Nat \ {0} /\ Interval \in Nat \ {0} /\ MaxCrashes \in Nat
  BY HistoryAssumption

(* More may be said without disturbing what holds messages already. *)
LEMMA SaidGrows ==
  ASSUME NEW s \in Seq(1..said), NEW n \in Nat, said \in Nat, said <= n
  PROVE  s \in Seq(1..n)
<1>1. 1..said \subseteq 1..n
  OBVIOUS
<1> QED  BY <1>1

LEMMA HistoryTypeInit == HistoryInit => HistoryTypeOK
<1> SUFFICES ASSUME HistoryInit PROVE HistoryTypeOK
  OBVIOUS
<1>1. said \in Nat /\ history = <<>> /\ start = 0 /\ file = <<>> /\ archive = <<>>
  BY DEF HistoryInit
<1>2. file \in Seq(1..said) /\ archive \in Seq(1..said)
  BY <1>1
<1>3. history \in Seq(1..said) /\ start \in 0..Len(history)
  BY <1>1
<1>4. /\ up \in BOOLEAN /\ turns \in 0 .. Interval - 1 /\ said \in Nat
      /\ before \in 0..said /\ crashes \in 0..MaxCrashes
      /\ failed \subseteq {"interrupt", "history", "archive"}
      /\ pc \in [Origins -> {"none", "asked", "persist"}]
  <2>1. up \in BOOLEAN
    BY DEF HistoryInit
  <2>2. turns \in 0 .. Interval - 1
    BY Bounds DEF HistoryInit
  <2>3. said \in Nat /\ before \in 0..said
    BY DEF HistoryInit
  <2>4. crashes \in 0..MaxCrashes /\ failed \subseteq {"interrupt", "history", "archive"}
    BY Bounds DEF HistoryInit
  <2>5. pc \in [Origins -> {"none", "asked", "persist"}]
    BY DEF HistoryInit
  <2> QED  BY <2>1, <2>2, <2>3, <2>4, <2>5
<1> QED  BY <1>2, <1>3, <1>4 DEF HistoryTypeOK

LEMMA HistoryTypeStep == HistoryTypeOK /\ [HistoryNext]_historyVars => HistoryTypeOK'
<1> SUFFICES ASSUME HistoryTypeOK, [HistoryNext]_historyVars PROVE HistoryTypeOK'
  OBVIOUS
<1> USE Bounds
<1>0. ASSUME history' = <<>>, start' = 0, said' = said
      PROVE  history' \in Seq(1..said') /\ start' \in 0..Len(history')
  <2>1. Len(<<>>) = 0 /\ <<>> \in Seq(1..said')
    OBVIOUS
  <2> QED  BY <1>0, <2>1
<1>1. CASE Start
  <2>1. history' \in Seq(1..said)
    BY <1>1, ReadableTypes DEF Start, HistoryTypeOK
  <2>2. start' \in 0..Len(history')
    BY <1>1, <2>1, LenProperties DEF Start
  <2>3. failed' \subseteq {"interrupt", "history", "archive"}
    BY <1>1 DEF Start, HistoryTypeOK
  <2> QED  BY <1>1, <2>1, <2>2, <2>3 DEF Start, HistoryTypeOK, files
<1>2. CASE Stop
  <2>1. file' \in Seq(1..said) /\ failed' \subseteq {"interrupt", "history", "archive"}
    <3>1. PICK cut \in SUBSET {"interrupt"} : SaveHistory(cut)
      BY <1>2 DEF Stop
    <3> QED  BY <3>1, SaveTypes
  <2>2. history' \in Seq(1..said') /\ start' \in 0..Len(history')
    BY <1>0, <1>2 DEF Stop
  <2>3. /\ up' \in BOOLEAN /\ turns' \in 0 .. Interval - 1 /\ said' = said
        /\ said' \in Nat /\ before' \in 0..said' /\ crashes' \in 0..MaxCrashes
        /\ pc' \in [Origins -> {"none", "asked", "persist"}]
        /\ archive' \in Seq(1..said')
    BY <1>2 DEF Stop, HistoryTypeOK
  <2> QED  BY <2>1, <2>2, <2>3 DEF HistoryTypeOK
<1>3. CASE Crash
  <2>1. history' \in Seq(1..said') /\ start' \in 0..Len(history')
    BY <1>0, <1>3 DEF Crash
  <2>2. crashes' \in 0..MaxCrashes
    BY <1>3 DEF Crash, HistoryTypeOK
  <2>3. /\ up' \in BOOLEAN /\ turns' \in 0 .. Interval - 1 /\ said' = said
        /\ said' \in Nat /\ before' \in 0..said'
        /\ pc' \in [Origins -> {"none", "asked", "persist"}]
        /\ file' \in Seq(1..said') /\ archive' \in Seq(1..said')
        /\ failed' \subseteq {"interrupt", "history", "archive"}
    BY <1>3 DEF Crash, HistoryTypeOK, files
  <2> QED  BY <2>1, <2>2, <2>3 DEF HistoryTypeOK
<1>4. ASSUME NEW o \in Origins, Begin(o) PROVE HistoryTypeOK'
  <2>1. said' = said + 1 /\ said' \in Nat /\ said' \in 1..said' /\ 1..said \subseteq 1..said'
    BY <1>4 DEF Begin, HistoryTypeOK
  <2>2. /\ history \in Seq(1..said') /\ file \in Seq(1..said')
        /\ archive \in Seq(1..said')
    BY <2>1, SeqMonotonic DEF HistoryTypeOK
  <2>3. history' \in Seq(1..said') /\ Len(history') = Len(history) + 1
    BY <1>4, <2>1, <2>2, AppendProperties DEF Begin
  <2>4. start' \in 0..Len(history')
    BY <1>4, <2>2, <2>3, LenProperties DEF Begin, HistoryTypeOK
  <2> QED  BY <1>4, <2>1, <2>2, <2>3, <2>4 DEF Begin, HistoryTypeOK, files
<1>5. ASSUME NEW o \in Origins, Answer(o) PROVE HistoryTypeOK'
  <2> DEFINE full == Append(history, said + 1)
  <2>0. full = Append(history, said + 1)
    OBVIOUS
  <2> HIDE DEF full
  <2>1. /\ said' = said + 1 /\ said \in Nat
        /\ full \in Seq(1..said') /\ Len(full) = Len(history) + 1
        /\ history' = Recent(full)
        /\ start' = Shift(Excess(full))
        /\ IF Excess(full) > 0 THEN ArchiveHistory(Trimmed(full))
                               ELSE UNCHANGED <<archive, failed>>
    BY <1>5, <2>0, AnswerTrims, ZenonT(60)
  <2>2. /\ history' \in Seq(1..said') /\ Len(history') = Len(full) - Excess(full)
        /\ Excess(full) \in 0..Len(full)
        /\ Trimmed(full) \in Seq(1..said')
    BY <2>1, TrimProperties, ZenonT(60)
  <2>3. archive \in Seq(1..said') /\ file \in Seq(1..said')
    <3>1. said' \in Nat /\ said <= said'
      BY <2>1
    <3> QED  BY <2>1, <3>1, SaidGrows DEF HistoryTypeOK
  <2>4. archive' \in Seq(1..said') /\ failed' \subseteq {"interrupt", "history", "archive"}
    <3>1. archive \o Trimmed(full) \in Seq(1..said')
      BY <2>2, <2>3
    <3>2. archive' \in {archive \o Trimmed(full), Trimmed(full), archive}
      BY <2>1 DEF ArchiveHistory
    <3>3. failed' \subseteq {"interrupt", "history", "archive"}
      BY <2>1 DEF ArchiveHistory, HistoryTypeOK
    <3> QED  BY <2>2, <2>3, <3>1, <3>2, <3>3
  <2>5. start' \in 0..Len(history')
    <3>1. start \in 0..Len(history) /\ Len(history) \in Nat
      BY DEF HistoryTypeOK
    <3> QED  BY <2>1, <2>2, <3>1 DEF Shift
  <2>6. file' \in Seq(1..said')
    BY <1>5, <2>3 DEF Answer
  <2>7. said' \in Nat /\ before' \in 0..said' /\ crashes' \in 0..MaxCrashes
        /\ turns' \in 0 .. Interval - 1 /\ up' \in BOOLEAN
    BY <1>5, <2>1 DEF Answer, HistoryTypeOK
  <2>8. pc' \in [Origins -> {"none", "asked", "persist"}]
    BY <1>5 DEF Answer, HistoryTypeOK
  <2> QED  BY <2>2, <2>4, <2>5, <2>6, <2>7, <2>8 DEF HistoryTypeOK
<1>6. ASSUME NEW o \in Origins, Finish(o) PROVE HistoryTypeOK'
  <2>1. file' \in Seq(1..said) /\ failed' \subseteq {"interrupt", "history", "archive"}
    BY <1>6, SaveTypes DEF Finish, HistoryTypeOK
  <2>2. turns' \in 0 .. Interval - 1
    BY <1>6 DEF Finish, HistoryTypeOK
  <2> QED  BY <1>6, <2>1, <2>2 DEF Finish, HistoryTypeOK
<1>7. ASSUME NEW o \in Origins, Fail(o) PROVE HistoryTypeOK'
  BY <1>7 DEF Fail, HistoryTypeOK, files
<1>8. CASE UNCHANGED historyVars
  BY <1>8 DEF historyVars, HistoryTypeOK
<1> QED  BY <1>1, <1>2, <1>3, <1>4, <1>5, <1>6, <1>7, <1>8 DEF HistoryNext

(* The history, its index and both files keep their types. *)
THEOREM HistoryTypeCorrect == HistorySpec => []HistoryTypeOK
  BY HistoryTypeInit, HistoryTypeStep, PTL DEF HistorySpec
-----------------------------------------------------------------------------
(* The index of the session's first message.                               *)

LEMMA SplitStep ==
  HistoryTypeOK /\ StartSplitsSessions /\ [HistoryNext]_historyVars => StartSplitsSessions'
<1> SUFFICES ASSUME HistoryTypeOK, StartSplitsSessions, [HistoryNext]_historyVars
             PROVE  StartSplitsSessions'
  OBVIOUS
<1> USE DEF StartSplitsSessions
<1>1. CASE Start
  <2>1. /\ history' \in Seq(1..said) /\ start' = Len(history') /\ before' = said
        /\ said \in Nat
    BY <1>1, ReadableTypes DEF Start, HistoryTypeOK
  <2>2. \A i \in 1..Len(history') : history'[i] \in 1..said
    BY <2>1
  <2> QED  BY <2>1, <2>2
<1>2. CASE Stop \/ Crash
  <2>1. Len(history') = 0
    BY <1>2 DEF Stop, Crash
  <2> QED  BY <2>1
<1>3. ASSUME NEW o \in Origins, Begin(o) PROVE StartSplitsSessions'
  <2>1. /\ said' = said + 1 /\ said \in Nat /\ before \in 0..said
        /\ history \in Seq(1..said) /\ start \in 0..Len(history)
        /\ start' = start /\ before' = before /\ history' = Append(history, said + 1)
    BY <1>3 DEF Begin, HistoryTypeOK
  <2>2. /\ Len(history') = Len(history) + 1
        /\ history'[Len(history) + 1] = said + 1
        /\ \A i \in 1..Len(history) : history'[i] = history[i]
    BY <2>1
  <2> QED  BY <2>1, <2>2
<1>4. ASSUME NEW o \in Origins, Answer(o) PROVE StartSplitsSessions'
  <2> DEFINE full == Append(history, said + 1)
  <2>0. full = Append(history, said + 1)
    OBVIOUS
  <2> HIDE DEF full
  <2>1. /\ said' = said + 1 /\ said \in Nat
        /\ full \in Seq(1..said') /\ Len(full) = Len(history) + 1
        /\ \A i \in 1..Len(history) : full[i] = history[i]
        /\ full[Len(full)] = said'
        /\ history' = Recent(full)
        /\ start' = Shift(Excess(full))
    BY <1>4, <2>0, AnswerTrims, ZenonT(60)
  <2>2. /\ Len(history') = Len(full) - Excess(full)
        /\ Excess(full) \in 0..Len(full)
        /\ \A i \in 1..Len(full) - Excess(full) : history'[i] = full[i + Excess(full)]
    BY <2>1, TrimProperties, ZenonT(60)
  <2>3. /\ Len(history) \in Nat /\ start \in 0..Len(history) /\ before \in 0..said
        /\ before' = before
    BY <1>4 DEF Answer, HistoryTypeOK
  <2>4. \A i \in 1..Len(full) : i <= start <=> full[i] <= before
    <3>1. \A i \in 1..Len(history) : i <= start <=> full[i] <= before
      BY <2>1
    <3>2. Len(full) > start /\ full[Len(full)] > before
      BY <2>1, <2>3
    <3>3. 1..Len(full) = 1..Len(history) \cup {Len(full)}
      BY <2>1, <2>3
    <3> QED  BY <2>3, <3>1, <3>2, <3>3, <2>1
  <2>5. SUFFICES ASSUME NEW i \in 1..Len(history')
                 PROVE  i <= start' <=> history'[i] <= before
    BY <2>3
  <2>6. /\ i \in Nat /\ i + Excess(full) \in 1..Len(full)
        /\ history'[i] = full[i + Excess(full)]
    BY <2>1, <2>2, <2>3
  <2>7. i <= start' <=> i + Excess(full) <= start
    BY <2>1, <2>2, <2>3, <2>6 DEF Shift
  <2> QED  BY <2>4, <2>6, <2>7
<1>5. ASSUME NEW o \in Origins, Finish(o) \/ Fail(o) PROVE StartSplitsSessions'
  BY <1>5 DEF Finish, Fail
<1>6. CASE UNCHANGED historyVars
  BY <1>6 DEF historyVars
<1> QED  BY <1>1, <1>2, <1>3, <1>4, <1>5, <1>6 DEF HistoryNext

(* Whatever turns overlap, fail or are cut off, whatever the files do and  *)
(* however often the process is killed, the messages before the index are  *)
(* exactly those of earlier sessions.                                      *)
THEOREM HistorySplitsSessions == HistorySpec => []StartSplitsSessions
<1>1. HistoryInit => StartSplitsSessions
  <2> SUFFICES ASSUME HistoryInit PROVE StartSplitsSessions
    OBVIOUS
  <2>1. Len(history) = 0
    BY DEF HistoryInit
  <2> QED  BY <2>1 DEF StartSplitsSessions
<1> QED  BY <1>1, SplitStep, HistoryTypeCorrect, PTL DEF HistorySpec
-----------------------------------------------------------------------------
(* The whole conversation.                                                 *)

(* A history that no turn is about to trim fits the limit, so the stop     *)
(* saves all of it; the file can only be older than the history, never     *)
(* something the history has not had.                                      *)
WholeInv ==
    crashes = 0 /\ failed = {} =>
        /\ up => archive \o history = Conversation
        /\ up /\ history = <<>> => file = <<>>
        /\ (\A o \in Origins : pc[o] # "asked") => Len(history) <= MaxHistory
        /\ ~up => /\ archive \o file = Conversation
                  /\ Len(file) <= MaxHistory
                  /\ Idle

(* One more message is said. *)
LEMMA ConversationGrows ==
  ASSUME HistoryTypeOK, said' = said + 1,
         NEW a \in Seq(1..said), NEW h \in Seq(1..said), a \o h = Conversation
  PROVE  a \o Append(h, said + 1) = Conversation'
<1>1. said \in Nat /\ Conversation' = [i \in 1 .. said + 1 |-> i]
  BY DEF Conversation, HistoryTypeOK
<1>2. a \o Append(h, said + 1) = Append(a \o h, said + 1)
  <2>1. a \in Seq(Nat) /\ h \in Seq(Nat) /\ said + 1 \in Nat
    BY <1>1
  <2> QED  BY <2>1
<1>3. Append([i \in 1..said |-> i], said + 1) = [i \in 1 .. said + 1 |-> i]
  BY <1>1
<1> QED  BY <1>1, <1>2, <1>3 DEF Conversation

LEMMA WholeStep == HistoryTypeOK /\ WholeInv /\ [HistoryNext]_historyVars => WholeInv'
<1> SUFFICES ASSUME HistoryTypeOK, WholeInv, [HistoryNext]_historyVars, crashes' = 0, failed' = {}
             PROVE  WholeInv'
  BY DEF WholeInv
<1> DEFINE W == /\ up => archive \o history = Conversation
                /\ up /\ history = <<>> => file = <<>>
                /\ (\A o \in Origins : pc[o] # "asked")
                      => Len(history) <= MaxHistory
                /\ ~up => /\ archive \o file = Conversation
                          /\ Len(file) <= MaxHistory
                          /\ Idle
<1> SUFFICES W'
  BY DEF WholeInv
<1>1. CASE Start
  <2>1. W
    BY <1>1 DEF Start, WholeInv
  <2>2. history' = file
    BY <1>1 DEF Start
  <2> QED
    BY <1>1, <2>1, <2>2 DEF Start, files, Conversation
<1>2. CASE Stop
  <2>1. W /\ up /\ Idle
    <3>1. up /\ crashes = 0 /\ failed = {} /\ Idle
      BY <1>2 DEF Stop, SaveHistory
    <3> QED  BY <3>1 DEF WholeInv
  <2>2. file' = history
    <3>1. Len(history) <= MaxHistory /\ history \in Seq(1..said)
      BY <2>1 DEF Idle, HistoryTypeOK
    <3>2. Excess(history) = 0
      <4>1. Len(history) \in Nat /\ MaxHistory \in Nat
        BY <3>1, Bounds
      <4> QED  BY <3>1, <4>1 DEF Excess
    <3>3. Recent(history) = history
      BY <3>1, <3>2, TrimProperties, ZenonT(60)
    <3> QED  BY <1>2, <2>1, <3>3 DEF Stop, SaveHistory
  <2>3. archive \o file' = Conversation /\ Len(file') <= MaxHistory
    BY <2>1, <2>2 DEF Idle
  <2>4. ~up' /\ archive' = archive /\ said' = said /\ Idle' /\ Len(history') = 0
    BY <1>2 DEF Stop, Idle
  <2> QED  BY <2>3, <2>4, Bounds DEF Conversation
<1>3. CASE Crash
  <2>1. crashes' = crashes + 1 /\ crashes \in 0..MaxCrashes
    BY <1>3 DEF Crash, HistoryTypeOK
  <2> QED  BY <2>1, Bounds
<1>4. ASSUME NEW o \in Origins, Begin(o) PROVE W'
  <2>1. W /\ up
    BY <1>4 DEF Begin, WholeInv
  <2>2. /\ said' = said + 1 /\ history' = Append(history, said + 1) /\ up'
        /\ archive' = archive /\ pc'[o] = "asked"
    BY <1>4 DEF Begin, HistoryTypeOK, files
  <2>3. /\ history \in Seq(1..said) /\ archive \in Seq(1..said)
        /\ archive \o history = Conversation
    BY <2>1 DEF HistoryTypeOK
  <2>4. archive' \o history' = Conversation'
    BY <2>2, <2>3, ConversationGrows
  <2>5. history' # <<>>
    BY <2>2, <2>3
  <2> QED  BY <2>2, <2>4, <2>5
<1>5. ASSUME NEW o \in Origins, Answer(o) PROVE W'
  <2> DEFINE full == Append(history, said + 1)
  <2>0. full = Append(history, said + 1)
    OBVIOUS
  <2> HIDE DEF full
  <2>1. W /\ up
    <3>1. crashes = 0 /\ failed = {} /\ pc[o] = "asked"
      BY <1>5 DEF Answer, ArchiveHistory
    <3> QED  BY <3>1 DEF WholeInv, Idle
  <2>2. /\ said' = said + 1 /\ said \in Nat
        /\ full \in Seq(1..said') /\ full # <<>>
        /\ history' = Recent(full)
        /\ IF Excess(full) > 0 THEN ArchiveHistory(Trimmed(full))
                               ELSE UNCHANGED <<archive, failed>>
    BY <1>5, <2>0, AnswerTrims, ZenonT(60)
  <2>3. /\ Len(history') = Len(full) - Excess(full)
        /\ Len(full) - Excess(full) <= MaxHistory
        /\ Excess(full) \in 0..Len(full)
        /\ history' # <<>>
        /\ Trimmed(full) \in Seq(1..said')
        /\ history' \in Seq(1..said')
        /\ Trimmed(full) \o history' = full
        /\ Excess(full) = 0 => history' = full
    BY <2>2, TrimProperties, ZenonT(60)
  <2>4. /\ history \in Seq(1..said) /\ archive \in Seq(1..said)
        /\ archive \o history = Conversation
    BY <2>1 DEF HistoryTypeOK
  <2>5. archive \o full = Conversation'
    BY <2>0, <2>2, <2>4, ConversationGrows
  <2>6. archive \in Seq(1..said')
    BY <2>2, <2>4, SaidGrows
  <2>7. CASE Excess(full) > 0
    <3>1. archive' = archive \o Trimmed(full)
      BY <2>2, <2>7 DEF ArchiveHistory
    <3>2. (archive \o Trimmed(full)) \o history' = archive \o (Trimmed(full) \o history')
      <4>1. /\ archive \in Seq(1..said') /\ Trimmed(full) \in Seq(1..said')
            /\ history' \in Seq(1..said')
        BY <2>3, <2>6
      <4> QED  BY <4>1, Regroup
    <3> QED  BY <1>5, <2>1, <2>3, <2>5, <3>1, <3>2 DEF Answer
  <2>8. CASE ~(Excess(full) > 0)
    <3>1. Excess(full) = 0
      BY <2>3, <2>8
    <3>2. archive' = archive /\ history' = full
      BY <2>2, <2>3, <2>8, <3>1
    <3> QED  BY <1>5, <2>1, <2>3, <2>5, <3>2 DEF Answer
  <2> QED  BY <2>7, <2>8
<1>6. ASSUME NEW o \in Origins, Finish(o) PROVE W'
  <2>1. crashes = 0 /\ failed = {} /\ pc[o] = "persist"
    BY <1>6 DEF Finish, SaveHistory
  <2>2. W /\ up
    BY <2>1 DEF WholeInv, Idle
  <2>3. /\ up' = up /\ history' = history /\ archive' = archive /\ said' = said
        /\ pc' = [pc EXCEPT ![o] = "none"] /\ pc[o] = "persist"
    BY <1>6 DEF Finish
  <2>4. (\A p \in Origins : pc'[p] # "asked") => \A p \in Origins : pc[p] # "asked"
    BY <2>3 DEF HistoryTypeOK
  <2>5. history = <<>> => file' = file
    BY <1>6 DEF Finish, SaveHistory
  <2> QED  BY <2>1, <2>2, <2>3, <2>4, <2>5 DEF Conversation
<1>7. ASSUME NEW o \in Origins, Fail(o) PROVE W'
  BY <1>7 DEF Fail
<1>8. CASE UNCHANGED historyVars
  BY <1>8 DEF historyVars, WholeInv, Conversation, Idle
<1> QED  BY <1>1, <1>2, <1>3, <1>4, <1>5, <1>6, <1>7, <1>8 DEF HistoryNext

(* Until the process is killed, a turn cut off or a file fails, the        *)
(* archive followed by the history, or between two sessions by its file,   *)
(* is the whole conversation, each message once and in order.              *)
THEOREM ConversationKept == HistorySpec => []WholeConversation
<1>1. HistoryInit => WholeInv
  <2> SUFFICES ASSUME HistoryInit PROVE WholeInv
    OBVIOUS
  <2>1. /\ archive = <<>> /\ file = <<>> /\ said = 0 /\ ~up /\ Idle
        /\ history = <<>>
    BY DEF HistoryInit, Idle
  <2>2. <<>> \o <<>> = [i \in 1..0 |-> i] /\ Len(<<>>) = 0
    OBVIOUS
  <2> QED  BY <2>1, <2>2, Bounds DEF WholeInv, Conversation
<1>2. HistoryTypeOK /\ WholeInv /\ [HistoryNext]_historyVars => WholeInv'
  BY WholeStep
<1>3. WholeInv => WholeConversation
  BY DEF WholeInv, WholeConversation
<1> QED  BY <1>1, <1>2, <1>3, HistoryTypeCorrect, PTL DEF HistorySpec

(* The two together, as the run checks them.                               *)
THEOREM HistoryWhole == HistorySpec => []SessionsWhole
<1>1. StartSplitsSessions /\ WholeConversation => SessionsWhole
  BY DEF SessionsWhole
<1> QED
  BY <1>1, HistorySplitsSessions, ConversationKept, PTL
-----------------------------------------------------------------------------
(* What is kept, whatever was lost before.                                 *)

(* What two sequences hold, one after the other.                           *)
LEMMA ToSetConcat ==
  \A S : \A s, t \in Seq(S) : ToSet(s \o t) = ToSet(s) \cup ToSet(t)
<1> SUFFICES ASSUME NEW S, NEW s \in Seq(S), NEW t \in Seq(S)
             PROVE  ToSet(s \o t) = ToSet(s) \cup ToSet(t)
  OBVIOUS
<1>1. PICK m \in Nat : m = Len(s)
  OBVIOUS
<1>2. PICK n \in Nat : n = Len(t)
  OBVIOUS
<1>3. DOMAIN s = 1..m /\ DOMAIN t = 1..n /\ DOMAIN (s \o t) = 1..(m + n)
  BY <1>1, <1>2
<1>4. \A k \in 1..m : k \in 1..(m + n) /\ (s \o t)[k] = s[k]
  BY <1>1, <1>2
<1>5. \A k \in 1..n : m + k \in 1..(m + n) /\ (s \o t)[m + k] = t[k]
  BY <1>1, <1>2
<1>6. \A k \in 1..(m + n) : k \in 1..m \/ \E j \in 1..n : k = m + j
  <2> SUFFICES ASSUME NEW k \in 1..(m + n), k \notin 1..m PROVE \E j \in 1..n : k = m + j
    OBVIOUS
  <2>1. k - m \in 1..n /\ k = m + (k - m)
    OBVIOUS
  <2> QED
    BY <2>1
<1> DEFINE st == s \o t
<1>7. ToSet(st) \subseteq ToSet(s) \cup ToSet(t)
  <2> SUFFICES ASSUME NEW k \in 1..(m + n) PROVE st[k] \in ToSet(s) \cup ToSet(t)
    BY <1>3 DEF ToSet
  <2>1. CASE k \in 1..m
    BY <1>3, <1>4, <2>1, ZenonT(60) DEF ToSet
  <2>2. CASE \E j \in 1..n : k = m + j
    BY <1>3, <1>5, <2>2, ZenonT(60) DEF ToSet
  <2> QED
    BY <1>6, <2>1, <2>2
<1>8. ToSet(s) \subseteq ToSet(st)
  BY <1>3, <1>4, ZenonT(60) DEF ToSet
<1>9. ToSet(t) \subseteq ToSet(st)
  BY <1>3, <1>5, ZenonT(60) DEF ToSet
<1> HIDE DEF st
<1>10. ToSet(st) = ToSet(s) \cup ToSet(t)
  BY <1>7, <1>8, <1>9
<1> QED
  BY <1>10 DEF st

LEMMA ToSetAppend ==
  ASSUME NEW S, NEW s \in Seq(S), NEW e \in S
  PROVE  ToSet(Append(s, e)) = ToSet(s) \cup {e}
<1>1. PICK m \in Nat : m = Len(s)
  OBVIOUS
<1>2. DOMAIN s = 1..m /\ DOMAIN Append(s, e) = 1..(m + 1)
  BY <1>1
<1>3. Append(s, e)[m + 1] = e /\ \A k \in 1..m : Append(s, e)[k] = s[k]
  BY <1>1
<1>4. 1..(m + 1) = 1..m \cup {m + 1}
  BY <1>1
<1> QED
  BY <1>2, <1>3, <1>4 DEF ToSet

(* Until something fails: what the file still holds of a running session   *)
(* is also in the history or the archive, so that it may be written over;  *)
(* and the next stop can save the whole history.                           *)
KeptInv ==
    failed = {} =>
        /\ up => ToSet(file) \subseteq ToSet(history) \cup ToSet(archive)
        /\ (\A o \in Origins : pc[o] # "asked") => Len(history) <= MaxHistory
        /\ Len(file) <= MaxHistory
        /\ ~up => Idle /\ history = <<>>

LEMMA KeptInit == HistoryInit => KeptInv
<1> SUFFICES ASSUME HistoryInit PROVE KeptInv
  OBVIOUS
<1>1. file = <<>> /\ history = <<>> /\ ~up /\ Idle
  BY DEF HistoryInit, Idle
<1>2. Len(<<>>) = 0
  OBVIOUS
<1> QED
  BY <1>1, <1>2, Bounds DEF KeptInv

(* A saved history that fits the limit is saved whole.                     *)
LEMMA SavedWhole ==
  ASSUME HistoryTypeOK, failed' = {}, SaveHistory({})
  PROVE  /\ failed = {} /\ Len(file) <= MaxHistory => Len(file') <= MaxHistory
         /\ ToSet(file') \subseteq ToSet(file) \cup ToSet(history)
         /\ history # <<>> => ToSet(file') \subseteq ToSet(history)
         /\ Len(history) <= MaxHistory => ToSet(history) \subseteq ToSet(file')
<1>1. failed = {} /\ file' = IF history = <<>> THEN file ELSE Recent(history)
  BY DEF SaveHistory
<1>2. /\ history \in Seq(1..said)
      /\ Recent(history) \in Seq(1..said) /\ Trimmed(history) \in Seq(1..said)
      /\ Len(Recent(history)) = Len(history) - Excess(history)
      /\ Len(history) - Excess(history) <= MaxHistory
      /\ Trimmed(history) \o Recent(history) = history
      /\ Excess(history) = 0 => Recent(history) = history
  BY TrimProperties, ZenonT(60) DEF HistoryTypeOK
<1>3. ToSet(Recent(history)) \subseteq ToSet(history)
  <2>1. Trimmed(history) \in Seq(1..said) /\ Recent(history) \in Seq(1..said)
    BY <1>2
  <2>2. ToSet(Trimmed(history) \o Recent(history))
          = ToSet(Trimmed(history)) \cup ToSet(Recent(history))
    BY <2>1, ToSetConcat, ZenonT(60)
  <2> QED
    BY <1>2, <2>2
<1>4. Len(history) <= MaxHistory => Recent(history) = history
  BY <1>2, Bounds DEF Excess
<1>5. ToSet(<<>>) = {}
  BY DEF ToSet
<1>6. CASE history = <<>>
  BY <1>1, <1>5, <1>6
<1>7. CASE history # <<>>
  BY <1>1, <1>2, <1>3, <1>4, <1>7
<1> QED
  BY <1>6, <1>7

LEMMA KeptStep ==
  ASSUME HistoryTypeOK, KeptInv, [HistoryNext]_historyVars, failed' = {}
  PROVE  /\ KeptInv'
         /\ crashes' = crashes => Kept \subseteq Kept'
<1> DEFINE K == /\ up => ToSet(file) \subseteq ToSet(history) \cup ToSet(archive)
                /\ (\A o \in Origins : pc[o] # "asked") => Len(history) <= MaxHistory
                /\ Len(file) <= MaxHistory
                /\ ~up => Idle /\ history = <<>>
<1>f. failed = {} => K
  BY DEF KeptInv
<1> SUFFICES K' /\ (crashes' = crashes => Kept \subseteq Kept')
  BY DEF KeptInv
<1>e. ToSet(<<>>) = {} /\ Len(<<>>) = 0 /\ MaxHistory \in Nat \ {0}
  BY Bounds DEF ToSet
<1>1. CASE Start
  <2>1. failed = {} /\ ~up /\ up' /\ history' = file /\ UNCHANGED <<pc, file, archive>>
    BY <1>1 DEF Start, files
  <2>2. K /\ history = <<>>
    BY <1>f, <2>1
  <2> QED
    BY <1>e, <2>1, <2>2 DEF Kept, Stored
<1>2. CASE Stop
  <2>1. /\ failed = {} /\ up /\ Idle /\ SaveHistory({}) /\ ~up' /\ Idle'
        /\ history' = <<>> /\ UNCHANGED archive
    BY <1>2 DEF Stop, SaveHistory, Idle
  <2>2. K /\ Len(history) <= MaxHistory
    BY <1>f, <2>1 DEF Idle
  <2>3. /\ Len(file') <= MaxHistory /\ ToSet(history) \subseteq ToSet(file')
        /\ ToSet(file) \subseteq ToSet(history) \cup ToSet(archive)
    BY <2>1, <2>2, SavedWhole
  <2> QED
    BY <1>e, <2>1, <2>3 DEF Kept, Stored
<1>3. CASE Crash
  <2>1. /\ failed = {} /\ ~up' /\ Idle' /\ history' = <<>> /\ UNCHANGED file
        /\ crashes' = crashes + 1 /\ crashes \in Nat
    BY <1>3, Bounds DEF Crash, Idle, files, HistoryTypeOK
  <2>2. K
    BY <1>f, <2>1
  <2> QED
    BY <1>e, <2>1, <2>2
<1>4. ASSUME NEW o \in Origins, Begin(o)
      PROVE  K' /\ Kept \subseteq Kept'
  <2>1. /\ failed = {} /\ up /\ up' /\ UNCHANGED <<file, archive>>
        /\ said' = said + 1 /\ history' = Append(history, said') /\ pc'[o] = "asked"
    BY <1>4 DEF Begin, files, HistoryTypeOK
  <2>2. history \in Seq(Nat) /\ said' \in Nat
    BY <2>1 DEF HistoryTypeOK
  <2>3. ToSet(history) \subseteq ToSet(history')
    BY <2>1, <2>2, ToSetAppend
  <2>4. K
    BY <1>f, <2>1
  <2> QED
    BY <2>1, <2>3, <2>4 DEF Kept, Stored
<1>5. ASSUME NEW o \in Origins, Answer(o)
      PROVE  K' /\ Kept \subseteq Kept'
  <2> DEFINE full == Append(history, said + 1)
  <2>0. full = Append(history, said + 1)
    OBVIOUS
  <2> HIDE DEF full
  <2>1. /\ said' = said + 1 /\ said \in Nat
        /\ full \in Seq(1..said')
        /\ history' = Recent(full)
        /\ IF Excess(full) > 0 THEN ArchiveHistory(Trimmed(full))
                               ELSE UNCHANGED <<archive, failed>>
    BY <1>5, <2>0, AnswerTrims, ZenonT(60)
  <2>2. /\ Len(history') = Len(full) - Excess(full)
        /\ Len(full) - Excess(full) <= MaxHistory
        /\ Excess(full) \in 0..Len(full)
        /\ Trimmed(full) \in Seq(1..said')
        /\ history' \in Seq(1..said')
        /\ Trimmed(full) \o history' = full
        /\ Excess(full) = 0 => history' = full
    BY <2>1, TrimProperties, ZenonT(60)
  <2>3. failed = {} /\ pc[o] = "asked" /\ UNCHANGED <<up, file>>
    BY <1>5 DEF Answer, ArchiveHistory
  <2>4. K /\ up /\ up'
    BY <1>f, <2>3 DEF Idle
  <2>5. ToSet(history) \subseteq ToSet(full)
    <3>1. history \in Seq(Nat) /\ said + 1 \in Nat
      BY <2>1 DEF HistoryTypeOK
    <3> QED
      BY <2>0, <3>1, ToSetAppend
  <2>6. ToSet(full) \cup ToSet(archive) \subseteq ToSet(history') \cup ToSet(archive')
    <3>1. CASE Excess(full) > 0
      <4>1. archive' = archive \o Trimmed(full)
        BY <2>1, <3>1 DEF ArchiveHistory
      <4>2. archive \in Seq(1..said')
        <5>1. archive \in Seq(1..said) /\ said' \in Nat /\ said <= said'
          BY <2>1 DEF HistoryTypeOK
        <5> QED
          BY <2>1, <5>1, SaidGrows
      <4>3. ToSet(archive') = ToSet(archive) \cup ToSet(Trimmed(full))
        BY <2>2, <4>1, <4>2, ToSetConcat, ZenonT(60)
      <4>4. ToSet(full) = ToSet(Trimmed(full)) \cup ToSet(history')
        <5>1. Trimmed(full) \in Seq(1..said') /\ history' \in Seq(1..said')
          BY <2>2
        <5>2. ToSet(Trimmed(full) \o history') = ToSet(Trimmed(full)) \cup ToSet(history')
          BY <5>1, ToSetConcat, ZenonT(60)
        <5> QED
          BY <2>2, <5>2
      <4> QED
        BY <4>3, <4>4
    <3>2. CASE ~(Excess(full) > 0)
      BY <2>1, <2>2, <3>2
    <3> QED
      BY <3>1, <3>2
  <2> QED
    BY <2>2, <2>3, <2>4, <2>5, <2>6 DEF Kept, Stored
<1>6. ASSUME NEW o \in Origins, Finish(o)
      PROVE  K' /\ Kept \subseteq Kept'
  <2>1. /\ failed = {} /\ pc[o] = "persist" /\ UNCHANGED <<up, history, archive>>
        /\ pc' = [pc EXCEPT ![o] = "none"]
        /\ SaveHistory({}) \/ UNCHANGED file
    BY <1>6 DEF Finish, SaveHistory
  <2>2. K /\ up
    BY <1>f, <2>1 DEF Idle
  <2>3. /\ Len(file') <= MaxHistory
        /\ ToSet(file') \subseteq ToSet(file) \cup ToSet(history)
    BY <2>1, <2>2, SavedWhole
  <2>4. (\A p \in Origins : pc'[p] # "asked") => \A p \in Origins : pc[p] # "asked"
    BY <2>1 DEF HistoryTypeOK
  <2> QED
    BY <2>1, <2>2, <2>3, <2>4 DEF Kept, Stored
<1>7. ASSUME NEW o \in Origins, Fail(o)
      PROVE  K' /\ Kept \subseteq Kept'
  BY <1>7 DEF Fail
<1>8. CASE UNCHANGED historyVars
  BY <1>8, <1>f DEF historyVars, Kept, Stored, Idle
<1> QED
  BY <1>1, <1>2, <1>3, <1>4, <1>5, <1>6, <1>7, <1>8 DEF HistoryNext

(* Whatever was lost before: as long as no turn is cut off and both files  *)
(* work, a step deletes no message unless it kills the process.            *)
THEOREM HistoryDeletesNothing == HistorySpec => OnlyFailuresDelete
<1>1. HistoryTypeOK /\ KeptInv /\ [HistoryNext]_historyVars => KeptInv'
  <2>1. ASSUME HistoryTypeOK, KeptInv, [HistoryNext]_historyVars PROVE KeptInv'
    <3>1. CASE failed' = {}
      BY <2>1, <3>1, KeptStep
    <3>2. CASE failed' # {}
      BY <3>2 DEF KeptInv
    <3> QED
      BY <3>1, <3>2
  <2> QED
    BY <2>1
<1>2. HistoryTypeOK /\ KeptInv /\ [HistoryNext]_historyVars
        => [failed' = {} /\ crashes' = crashes => Kept \subseteq Kept']_historyVars
  BY KeptStep
<1> QED
  BY <1>1, <1>2, KeptInit, HistoryTypeCorrect, PTL DEF HistorySpec, OnlyFailuresDelete
=============================================================================
