--------------------------- MODULE Stores_proofs ---------------------------
(***************************************************************************)
(* What Luna keeps on disk, for every value of the constants: what chats   *)
(* and daemons hand each other, the backups, the ledger of who she is and  *)
(* the metrics of her checkpoint.                                          *)
(***************************************************************************)
EXTENDS Handoff, Backups, Identity, Scores, FiniteSetTheorems, TLAPS

(***************************************************************************)
(* The hand-over.  With patient users one process at a time works on       *)
(* Luna's state, no save drops another's steps, and every impulse is shown *)
(* once, for any number of chats and daemons, with or without tmux, and    *)
(* wherever they are killed.                                               *)
(***************************************************************************)
(* Two processes are alive only while a chat takes over from the daemon    *)
(* whose PID it is going to read.                                          *)
TakesOver(c, d) ==
    c \in Chats /\ stage[c] = "launched" /\ d \in Daemons /\ d = pidFile

OneAlive ==
    \A p, q \in Procs :
        Alive(p) /\ Alive(q) /\ p # q => TakesOver(p, q) \/ TakesOver(q, p)

(* An owner has everything the checkpoint holds. *)
OwnersKnow == \A p \in Procs : Owns(p) => checkpoint \subseteq psi[p]

OwnerInv ==
    /\ stage \in [Procs -> Stages]
    /\ psi \in [Procs -> SUBSET Nat]
    /\ steps \in Nat
    /\ checkpoint \subseteq Nat
    /\ pidFile \in Daemons \cup {Nobody}
    /\ OneAlive
    /\ OwnersKnow

THEOREM OwnerInit == HandoffInit => OwnerInv
  BY HandoffAssumption DEF HandoffInit, OwnerInv, OneAlive, OwnersKnow, Alive, Owns, Stages

THEOREM InvOneOwner == OwnerInv => OneOwner
  BY HandoffAssumption DEF OwnerInv, OneAlive, OneOwner, TakesOver, Alive, Owns

LEMMA CrashStep ==
  ASSUME OwnerInv, NEW p \in Procs, CrashProcess(p) PROVE OwnerInv'
  <1> USE HandoffAssumption
          DEF OwnerInv, Alive, Owns, Stages, CrashProcess, Dies, counters
  <1>1. OneAlive'
    BY DEF OneAlive, TakesOver
  <1> QED
    BY <1>1 DEF OwnersKnow

LEMMA LaunchStep ==
  ASSUME OwnerInv, Patient, NEW p \in Procs,
         \/ p \in Daemons /\ LaunchDaemon(p)
         \/ p \in Chats /\ LaunchChat(p)
  PROVE  OwnerInv'
  <1> USE HandoffAssumption
          DEF OwnerInv, Alive, Owns, Stages, fileVars, counters, histories
  <1>1. OneAlive'
    BY DEF OneAlive, TakesOver, LaunchDaemon, LaunchChat, Procs
  <1> QED
    BY <1>1 DEF OwnersKnow, LaunchDaemon, LaunchChat

LEMMA KillStep ==
  ASSUME OwnerInv, NEW c \in Chats, KillExistingDaemon(c)
  PROVE  OwnerInv'
  <1> DEFINE victims == {d \in Daemons : /\ Alive(d) /\ pidFile # Nobody
                                         /\ d \in {pidFile, tmuxSession}}
  <1>1. Kill(c, victims) /\ stage[c] = "launched"
    BY DEF KillExistingDaemon
  <1>2. \A q \in Procs : Alive(q) /\ q # c => q \in victims
    BY HandoffAssumption, <1>1 DEF OwnerInv, OneAlive, TakesOver, Procs, Alive
  <1> HIDE DEF victims
  <1>3. \A q \in Procs : Alive(q)' => q = c
    BY <1>1, <1>2 DEF Kill, Alive, OwnerInv
  <1>4. OneAlive'
    BY <1>3 DEF OneAlive
  <1> QED
    BY <1>1, <1>3, <1>4 DEF OwnerInv, OwnersKnow, Owns, Alive, Kill, Stages, counters

LEMMA LoadStep ==
  ASSUME OwnerInv, NEW p \in Procs, Load(p)
  PROVE  OwnerInv'
  <1> USE HandoffAssumption
          DEF OwnerInv, Alive, Owns, Stages, Load, LoadAs, fileVars, counters
  <1>1. OneAlive'
    BY DEF OneAlive, TakesOver, Procs
  <1> QED
    BY <1>1 DEF OwnersKnow

(* What the steps of a process that has loaded the state have in common:   *)
(* it may save, learn, or change the PID file to or from its own PID; no   *)
(* other process is alive then but a chat about to read that file.         *)
LEMMA RunStep ==
  ASSUME OwnerInv, NEW p \in Procs,
         stage[p] \in {"loaded", "attached", "running", "writing"},
         NEW t \in Stages \ {"new", "launched", "cleared"},
         NEW s \in SUBSET Nat, psi[p] \subseteq s,
         stage' = [stage EXCEPT ![p] = t],
         psi' = [psi EXCEPT ![p] = s],
         checkpoint' \in {checkpoint, psi[p]},
         steps' \in Nat,
         \/ pidFile' = pidFile
         \/ p \in Daemons /\ pidFile' = p
         \/ p \in Daemons /\ pidFile' = Nobody /\ t = "dead"
  PROVE  OwnerInv'
  <1> USE HandoffAssumption DEF OwnerInv, Alive, Owns, Stages
  <1>1. \A q \in Procs : Alive(q) /\ q # p => TakesOver(q, p)
    BY DEF OneAlive, TakesOver
  <1>2. OneAlive'
    <2> SUFFICES ASSUME NEW q \in Procs, NEW r \in Procs, q # r,
                        Alive(q)', Alive(r)'
                 PROVE  (TakesOver(q, r) \/ TakesOver(r, q))'
      BY DEF OneAlive
    <2>1. (TakesOver(q, r) /\ r = p) \/ (TakesOver(r, q) /\ q = p)
      BY <1>1 DEF OneAlive, TakesOver
    <2> QED
      BY <2>1 DEF TakesOver
  <1>3. \A q \in Procs : Owns(q) => q = p
    BY <1>1 DEF TakesOver
  <1>4. OwnersKnow'
    BY <1>3 DEF OwnersKnow
  <1> QED
    BY <1>2, <1>4

LEMMA EitherStep ==
  ASSUME OwnerInv, NEW p \in Procs, Evolve(p) \/ SaveCheckpoint(p)
  PROVE  OwnerInv'
  <1>1. CASE Evolve(p)
    <2>1. stage' = [stage EXCEPT ![p] = stage[p]]
      BY <1>1 DEF Evolve, OwnerInv
    <2> DEFINE s == psi[p] \cup {steps'}
    <2>2. s \in SUBSET Nat /\ psi' = [psi EXCEPT ![p] = s] /\ psi[p] \subseteq s
      BY <1>1 DEF Evolve, OwnerInv
    <2>3. /\ stage[p] \in {"attached", "running"} /\ steps' \in Nat
          /\ pidFile' = pidFile /\ checkpoint' = checkpoint
      BY <1>1 DEF Evolve, OwnerInv, fileVars
    <2> QED
      BY <2>1, <2>2, <2>3, RunStep DEF Stages
  <1>2. CASE SaveCheckpoint(p)
    <2>1. /\ stage' = [stage EXCEPT ![p] = stage[p]]
          /\ psi' = [psi EXCEPT ![p] = psi[p]]
      BY <1>2 DEF SaveCheckpoint, OwnerInv, procVars
    <2>2. /\ stage[p] \in {"attached", "running"} /\ psi[p] \in SUBSET Nat /\ steps' \in Nat
          /\ pidFile' = pidFile /\ checkpoint' = psi[p]
      BY <1>2 DEF SaveCheckpoint, OwnerInv, counters
    <2> QED
      BY <2>1, <2>2, RunStep DEF Stages
  <1> QED
    BY <1>1, <1>2

LEMMA ChatStep ==
  ASSUME OwnerInv, NEW c \in Chats,
         AttachSession(c) \/ ShowJournal(c) \/ StopChat(c)
  PROVE  OwnerInv'
  <1> USE DEF AttachSession, Attach, ShowJournal, StopChat, OwnerInv, Procs, fileVars
  <1>1. PICK t \in {"attached", "running", "stopped"} : stage' = [stage EXCEPT ![c] = t]
    OBVIOUS
  <1>2. psi' = [psi EXCEPT ![c] = psi[c]] /\ psi[c] \in SUBSET Nat
    OBVIOUS
  <1>3. /\ stage[c] \in {"loaded", "attached", "running"} /\ steps' \in Nat
        /\ pidFile' = pidFile /\ checkpoint' \in {checkpoint, psi[c]}
    BY DEF counters
  <1> QED
    BY <1>1, <1>2, <1>3, RunStep DEF Stages

LEMMA DaemonStep ==
  ASSUME OwnerInv, NEW d \in Daemons,
         WritePid(d) \/ CollectImpulse(d) \/ SaveJournal(d) \/ StopDaemon(d)
  PROVE  OwnerInv'
  <1> USE DEF WritePid, CollectImpulse, SaveJournal, StopDaemon, OwnerInv, Procs
  <1>1. PICK t \in {"running", "writing", "dead"} :
          /\ stage' = [stage EXCEPT ![d] = t]
          /\ \/ pidFile' = pidFile \/ pidFile' = d
             \/ pidFile' = Nobody /\ t = "dead"
    OBVIOUS
  <1>2. psi' = [psi EXCEPT ![d] = psi[d]] /\ psi[d] \in SUBSET Nat
    OBVIOUS
  <1>3. /\ stage[d] \in {"loaded", "running", "writing"} /\ steps' \in Nat
        /\ checkpoint' \in {checkpoint, psi[d]}
    BY DEF counters
  <1> QED
    BY <1>1, <1>2, <1>3, RunStep DEF Stages

LEMMA SpawnStep ==
  ASSUME OwnerInv, NEW c \in Chats, NEW d \in Daemons,
         SpawnAutonomousDaemon(c, d)
  PROVE  OwnerInv'
  <1> USE HandoffAssumption
          DEF OwnerInv, Alive, Owns, Stages, SpawnAutonomousDaemon, counters
  <1>1. \A q \in Procs : Alive(q) => q = c
    BY DEF OneAlive, TakesOver, Procs
  <1>2. OneAlive'
    BY <1>1 DEF OneAlive, Procs
  <1> QED
    BY <1>1, <1>2 DEF OwnersKnow, Procs

THEOREM OwnerStep == ASSUME OwnerInv, Patient, [HandoffNext]_handoffVars PROVE OwnerInv'
  <1>1. CASE UNCHANGED handoffVars
    BY <1>1 DEF OwnerInv, OneAlive, OwnersKnow, TakesOver, Alive, Owns, handoffVars,
                procVars, fileVars, counters
  <1>2. CASE HandoffNext
    BY <1>2, CrashStep, LaunchStep, KillStep, LoadStep, EitherStep,
       ChatStep, DaemonStep, SpawnStep
    DEF HandoffNext, Procs
  <1> QED
    BY <1>1, <1>2

LEMMA OwnerInvariant == ASSUME Patient PROVE HandoffSpec => []OwnerInv
  BY OwnerInit, OwnerStep, PTL DEF HandoffSpec

(* When users are patient, at most one process works on the state: what    *)
(* _kill_existing_daemon leaves alive has not loaded anything yet, and a   *)
(* chat spawns its daemon after its last save.                             *)
THEOREM HandoffOneOwner == ASSUME Patient PROVE HandoffSpec => []OneOwner
  BY OwnerInvariant, InvOneOwner, PTL

LEMMA StepKeepsWork ==
  ASSUME OwnerInv, [HandoffNext]_handoffVars PROVE checkpoint \subseteq checkpoint'
  <1> USE DEF OwnerInv, OwnersKnow, Owns, fileVars, counters
  <1>1. CASE UNCHANGED handoffVars
    BY <1>1 DEF handoffVars
  <1>2. CASE \E p \in Procs : CrashProcess(p) \/ Load(p) \/ Evolve(p) \/ SaveCheckpoint(p)
    BY <1>2 DEF CrashProcess, Load, LoadAs, Evolve, SaveCheckpoint
  <1>3. ASSUME NEW c \in Chats,
               \/ LaunchChat(c) \/ KillExistingDaemon(c) \/ AttachSession(c)
               \/ ShowJournal(c) \/ StopChat(c)
               \/ \E d \in Daemons : SpawnAutonomousDaemon(c, d)
        PROVE  checkpoint \subseteq checkpoint'
    <2>1. CASE StopChat(c)
      BY <2>1 DEF StopChat, Procs
    <2>2. CASE ~StopChat(c)
      BY <1>3, <2>2 DEF LaunchChat, KillExistingDaemon, Kill, AttachSession,
                        Attach, ShowJournal, SpawnAutonomousDaemon
    <2> QED
      BY <2>1, <2>2
  <1>4. CASE \E d \in Daemons :
               LaunchDaemon(d) \/ WritePid(d) \/ CollectImpulse(d) \/ SaveJournal(d)
               \/ StopDaemon(d)
    BY <1>4 DEF LaunchDaemon, WritePid, CollectImpulse, SaveJournal, StopDaemon, Procs
  <1> QED
    BY <1>1, <1>2, <1>3, <1>4 DEF HandoffNext

(* No save of a chat or a daemon drops evolution steps an earlier save of  *)
(* any of them held.                                                       *)
THEOREM HandoffKeepsWork == ASSUME Patient PROVE HandoffSpec => WorkKept
  <1>1. OwnerInv /\ [HandoffNext]_handoffVars => [checkpoint \subseteq checkpoint']_handoffVars
    BY StepKeepsWork
  <1> QED
    BY <1>1, OwnerInvariant, PTL DEF HandoffSpec, WorkKept
-----------------------------------------------------------------------------
(* The journal they hand over.                                              *)

Read == Range(ReadableJournal)

JournalTyped ==
    /\ impulses \in 0..MaxImpulses
    /\ journal \in [Procs -> Seq(Nat \ {0})]
    /\ journalFile \in Seq(Nat \ {0}) \cup {Torn}
    /\ shown \in [1..MaxImpulses -> Nat]
    /\ behind \subseteq Daemons

(* Who has loaded the file, and every daemon, holds all that the file      *)
(* does, save what the cap dropped; only a daemon writes it; and what a    *)
(* chat is about to show is in it no more, or could not be taken out.      *)
ProcsCover ==
    \A p \in Procs :
        /\ stage[p] = "loaded" \/ (p \in Daemons /\ Owns(p))
             => Read \subseteq Range(journal[p]) \cup gone
        /\ stage[p] = "writing" => p \in Daemons /\ journalFile = Torn
        /\ stage[p] = "attached" => p \in Chats /\ Range(journal[p]) \cap Read \subseteq again
        /\ Owns(p) => Range(journal[p]) \subseteq 1..impulses

JournalsAgree == Read \subseteq 1..impulses /\ ProcsCover

ShownIsGone ==
    \A i \in 1..MaxImpulses :
        /\ shown[i] > 1 => i \in again
        /\ shown[i] > 0 => i \in 1..impulses
        /\ shown[i] > 0 /\ i \notin again
             => i \notin Read /\ \A p \in Procs : Owns(p) => i \notin Range(journal[p])

(* The journal of p is all there is of it.                                 *)
Holds(p) ==
    \/ stage[p] \in {"writing", "attached"}
    \/ stage[p] = "running" /\ p \in behind

NotLost(i) ==
    \/ shown[i] > 0
    \/ i \in Read
    \/ i \in lost \cup unseen
    \/ \E p \in Procs : Holds(p) /\ i \in Range(journal[p])

NothingLost == \A i \in (1..impulses) \ gone : NotLost(i)

(* JournalExact.  A shown impulse is neither in the file nor in a journal  *)
(* that may still be shown or written, unless the file could not be        *)
(* emptied; what is not shown is in the file, or in the journal of a       *)
(* process that has not written or not shown it, or died with one.         *)
JournalInv == JournalTyped /\ JournalsAgree /\ ShownIsGone /\ NothingLost

LEMMA Torn0 == Torn \notin Seq(Nat \ {0})
<1>1. Len(Torn) = 1 /\ Torn[1] = 0
  BY DEF Torn
<1>2. ASSUME Torn \in Seq(Nat \ {0}) PROVE FALSE
  <2>1. Torn[1] \in Nat \ {0}
    BY <1>1, <1>2
  <2> QED
    BY <1>1, <2>1
<1> QED
  BY <1>2

LEMMA EmptyRange == Range(<<>>) = {}
  BY DEF Range

LEMMA JournalStart == HandoffInit => JournalInv
<1> SUFFICES ASSUME HandoffInit PROVE JournalInv
  OBVIOUS
<1>1. ReadableJournal = <<>>
  BY DEF HandoffInit, ReadableJournal
<1>2. Read = {}
  BY <1>1, EmptyRange DEF Read
<1>3. impulses = 0 /\ \A p \in Procs : stage[p] = "new" /\ ~Owns(p)
  BY DEF HandoffInit, Owns
<1>4. JournalTyped
  <2>1. /\ <<>> \in Seq(Nat \ {0}) /\ 0 \in 0..MaxImpulses
        /\ [i \in 1..MaxImpulses |-> 0] \in [1..MaxImpulses -> Nat]
    BY HandoffAssumption
  <2>2. journal \in [Procs -> Seq(Nat \ {0})]
    BY <2>1 DEF HandoffInit
  <2> QED
    BY <2>1, <2>2 DEF HandoffInit, JournalTyped
<1>5. JournalsAgree
  BY <1>2, <1>3 DEF JournalsAgree, ProcsCover
<1>6. ShownIsGone
  BY DEF HandoffInit, ShownIsGone
<1>7. NothingLost
  BY <1>3 DEF NothingLost
<1> QED
  BY <1>4, <1>5, <1>6, <1>7 DEF JournalInv

LEMMA JournalEnough == JournalInv => JournalExact
<1> SUFFICES ASSUME JournalInv PROVE JournalExact
  OBVIOUS
<1>1. JournalOnce
  BY DEF JournalInv, JournalTyped, ShownIsGone, JournalOnce
<1>2. JournalKept
  <2> SUFFICES ASSUME NEW i \in (1..impulses) \ gone
               PROVE  InHand(i) \/ i \in lost \cup unseen
    BY DEF JournalKept
  <2>1. NotLost(i)
    BY DEF JournalInv, NothingLost
  <2> QED
    BY <2>1 DEF NotLost, InHand, Read, Holds, Alive
<1> QED
  BY <1>1, <1>2 DEF JournalExact

(* The steps that touch neither the journals nor their file: nobody comes  *)
(* to own the state, and what a process held when it died is noted.        *)
LEMMA QuietStep ==
    ASSUME JournalInv,
           UNCHANGED <<journal, journalFile, impulses, shown, gone, again, behind>>,
           lost \subseteq lost', unseen \subseteq unseen',
           \A p \in Procs :
              /\ Owns(p)' => Owns(p)
              /\ stage'[p] = "loaded" => stage[p] = "loaded"
              /\ stage'[p] = "writing" => stage[p] = "writing"
              /\ stage'[p] = "attached" => stage[p] = "attached"
              /\ Holds(p) => Holds(p)' \/ Range(journal[p]) \subseteq lost' \cup unseen'
    PROVE  JournalInv'
<1>1. Read' = Read /\ ReadableJournal' = ReadableJournal
  BY DEF Read, ReadableJournal
<1>2. JournalTyped'
  BY DEF JournalInv, JournalTyped
<1>3. JournalsAgree'
  BY <1>1 DEF JournalInv, JournalsAgree, ProcsCover
<1>4. ShownIsGone'
  BY <1>1 DEF JournalInv, ShownIsGone
<1>5. NothingLost'
  <2> SUFFICES ASSUME NEW i \in (1..impulses) \ gone
               PROVE  NotLost(i)'
    BY DEF NothingLost
  <2>1. NotLost(i)
    BY DEF JournalInv, NothingLost
  <2> QED
    BY <1>1, <2>1 DEF NotLost
<1> QED
  BY <1>2, <1>3, <1>4, <1>5 DEF JournalInv

(* What a process held is noted when it dies.                              *)
LEMMA DeathNoted ==
    ASSUME NEW dead \in SUBSET Procs, Dies(dead), NEW p \in dead, Holds(p)
    PROVE  Range(journal[p]) \subseteq lost' \cup unseen'
<1>1. CASE stage[p] = "attached"
  BY <1>1 DEF Dies
<1>2. CASE stage[p] = "writing" \/ p \in behind
  BY <1>2 DEF Dies
<1> QED
  BY <1>1, <1>2 DEF Holds

LEMMA JournalCrash ==
    ASSUME JournalInv, OwnerInv, NEW p \in Procs, CrashProcess(p) PROVE JournalInv'
<1>1. /\ UNCHANGED <<journal, journalFile, impulses, shown, gone, again, behind>>
      /\ stage' = [stage EXCEPT ![p] = "dead"]
      /\ Dies({p})
  BY DEF CrashProcess, counters
<1>2. lost \subseteq lost' /\ unseen \subseteq unseen'
  BY <1>1 DEF Dies
<1>3. \A q \in Procs : q # p => stage'[q] = stage[q]
  BY <1>1 DEF OwnerInv
<1>4. stage'[p] = "dead"
  BY <1>1 DEF OwnerInv
<1>5. Holds(p) => Range(journal[p]) \subseteq lost' \cup unseen'
  BY <1>1, DeathNoted
<1> QED
  BY <1>1, <1>2, <1>3, <1>4, <1>5, QuietStep DEF Owns, Holds

LEMMA JournalKill ==
    ASSUME JournalInv, OwnerInv, NEW c \in Chats, KillExistingDaemon(c) PROVE JournalInv'
<1>1. PICK victims \in SUBSET Daemons : Kill(c, victims)
  BY DEF KillExistingDaemon
<1>2. /\ UNCHANGED <<journal, journalFile, impulses, shown, gone, again, behind>>
      /\ stage' = [q \in Procs |-> IF q \in victims THEN "dead"
                                   ELSE IF q = c THEN "cleared" ELSE stage[q]]
      /\ Dies(victims)
  BY <1>1 DEF Kill, counters
<1>3. lost \subseteq lost' /\ unseen \subseteq unseen'
  BY <1>2 DEF Dies
<1>4. ASSUME NEW q \in Procs
      PROVE  \/ /\ stage'[q] = "dead"
                /\ Holds(q) => Range(journal[q]) \subseteq lost' \cup unseen'
             \/ stage'[q] = "cleared" /\ q = c /\ stage[q] = "launched"
             \/ stage'[q] = stage[q]
  <2>1. CASE q \in victims
    BY <1>2, <2>1, DeathNoted DEF Procs
  <2>2. CASE q \notin victims
    BY <1>2, <2>2 DEF KillExistingDaemon
  <2> QED
    BY <2>1, <2>2
<1> QED
  BY <1>2, <1>3, <1>4, QuietStep DEF Owns, Holds

(* One process moves on, and leaves journals and file alone.               *)
LEMMA JournalMove ==
    ASSUME JournalInv, OwnerInv,
           UNCHANGED <<journal, journalFile, impulses, shown, gone, again, behind,
                       lost, unseen>>,
           NEW p \in Procs, NEW t \in Stages, stage' = [stage EXCEPT ![p] = t],
           \/ t = "launched" /\ stage[p] = "new"
           \/ t = "stopped" /\ stage[p] = "running" /\ p \in Chats
           \/ t = stage[p]
           \/ t = "running" /\ p \in Daemons /\ stage[p] = "loaded"
    PROVE  JournalInv'
<1>1. \A q \in Procs : q # p => stage'[q] = stage[q]
  BY DEF OwnerInv
<1>2. stage'[p] = t
  BY DEF OwnerInv
<1>3. p \in Chats => p \notin behind
  BY HandoffAssumption DEF JournalInv, JournalTyped
<1> QED
  BY <1>1, <1>2, <1>3, QuietStep DEF Owns, Holds

LEMMA JournalLoad ==
    ASSUME JournalInv, OwnerInv, NEW p \in Procs, Load(p) PROVE JournalInv'
<1>1. /\ UNCHANGED <<journalFile, impulses, shown, gone, again, behind, lost, unseen>>
      /\ stage[p] \in {"cleared", "launched"}
      /\ stage' = [stage EXCEPT ![p] = "loaded"]
      /\ journal' = [journal EXCEPT ![p] = ReadableJournal]
  BY DEF Load, LoadAs, fileVars, counters, histories
<1>2. ReadableJournal \in Seq(Nat \ {0})
  BY DEF JournalInv, JournalTyped, ReadableJournal
<1>3. Read' = Read /\ ReadableJournal' = ReadableJournal
  BY <1>1 DEF Read, ReadableJournal
<1>4. \A q \in Procs : q # p => stage'[q] = stage[q] /\ journal'[q] = journal[q]
  BY <1>1 DEF OwnerInv, JournalInv, JournalTyped
<1>5. stage'[p] = "loaded" /\ journal'[p] = ReadableJournal /\ Range(journal'[p]) = Read
  BY <1>1 DEF OwnerInv, JournalInv, JournalTyped, Read
<1>6. JournalTyped'
  BY <1>1, <1>2 DEF JournalInv, JournalTyped
<1>7. JournalsAgree'
  BY <1>1, <1>3, <1>4, <1>5 DEF JournalInv, JournalsAgree, ProcsCover, Owns
<1>8. ShownIsGone'
  BY <1>1, <1>3, <1>4, <1>5 DEF JournalInv, ShownIsGone, Owns
<1>9. NothingLost'
  <2> SUFFICES ASSUME NEW i \in (1..impulses) \ gone
               PROVE  NotLost(i)'
    BY <1>1 DEF NothingLost
  <2>1. NotLost(i)
    BY <1>1 DEF JournalInv, NothingLost
  <2>2. ~Holds(p)
    BY <1>1 DEF Holds
  <2>3. \A q \in Procs : q # p /\ Holds(q) => Holds(q)'
    BY <1>1, <1>4 DEF Holds
  <2> QED
    BY <1>1, <1>3, <1>4, <2>1, <2>2, <2>3 DEF NotLost
<1> QED
  BY <1>6, <1>7, <1>8, <1>9 DEF JournalInv

LEMMA JournalAttach ==
    ASSUME JournalInv, OwnerInv, NEW c \in Chats, AttachSession(c) PROVE JournalInv'
<1>1. /\ UNCHANGED <<journal, impulses, shown, gone, behind, lost, unseen>>
      /\ stage[c] = "loaded" /\ stage' = [stage EXCEPT ![c] = "attached"]
      /\ \/ journalFile' = <<>> /\ again' = again
         \/ journalFile' = journalFile /\ again' = again \cup Range(journal[c])
  BY DEF AttachSession, Attach, counters
<1>c. c \in Procs /\ c \notin Daemons
  BY HandoffAssumption DEF Procs
<1>2. /\ Read' \subseteq Read /\ again \subseteq again'
      /\ Range(journal[c]) \cap Read' \subseteq again'
  <2>1. CASE journalFile' = <<>> /\ again' = again
    <3>1. Read' = {}
      BY <2>1, EmptyRange DEF Read, ReadableJournal
    <3> QED
      BY <2>1, <3>1
  <2>2. CASE journalFile' = journalFile /\ again' = again \cup Range(journal[c])
    BY <2>2 DEF Read, ReadableJournal
  <2> QED
    BY <1>1, <2>1, <2>2
<1>3. \A q \in Procs : q # c => stage'[q] = stage[q]
  BY <1>1 DEF OwnerInv
<1>4. stage'[c] = "attached"
  BY <1>1, <1>c DEF OwnerInv
<1>5. \A q \in Procs : Owns(q) => q = c
  BY <1>1, <1>c, InvOneOwner DEF OneOwner, Owns
<1>6. \A q \in Procs : Owns(q)' => q = c
  BY <1>3, <1>5 DEF Owns
<1>7. /\ Read \subseteq Range(journal[c]) \cup gone
      /\ Range(journal[c]) \subseteq 1..impulses
  BY <1>1, <1>c DEF JournalInv, JournalsAgree, ProcsCover, Owns
<1>8. JournalTyped'
  <2>1. <<>> \in Seq(Nat \ {0})
    OBVIOUS
  <2> QED
    BY <1>1, <2>1 DEF JournalInv, JournalTyped
<1>9. JournalsAgree'
  <2>1. ASSUME NEW q \in Procs
        PROVE  (/\ stage[q] = "loaded" \/ (q \in Daemons /\ Owns(q))
                     => Read \subseteq Range(journal[q]) \cup gone
                /\ stage[q] = "writing" => q \in Daemons /\ journalFile = Torn
                /\ stage[q] = "attached" =>
                     q \in Chats /\ Range(journal[q]) \cap Read \subseteq again
                /\ Owns(q) => Range(journal[q]) \subseteq 1..impulses)'
    <3>1. CASE q = c
      BY <1>1, <1>c, <1>2, <1>4, <1>7, <3>1
    <3>2. CASE q # c
      BY <1>6, <3>2 DEF Owns
    <3> QED
      BY <3>1, <3>2
  <2>2. Read' \subseteq 1..impulses'
    BY <1>1, <1>2 DEF JournalInv, JournalsAgree
  <2> QED
    BY <2>1, <2>2 DEF JournalsAgree, ProcsCover
<1>10. ShownIsGone'
  <2>1. Owns(c)
    BY <1>1 DEF Owns
  <2> QED
    BY <1>1, <1>c, <1>2, <1>6, <2>1 DEF JournalInv, ShownIsGone
<1>11. NothingLost'
  <2> SUFFICES ASSUME NEW i \in (1..impulses) \ gone
               PROVE  NotLost(i)'
    BY <1>1 DEF NothingLost
  <2>1. NotLost(i)
    BY <1>1 DEF JournalInv, NothingLost
  <2>2. ~\E q \in Procs : Holds(q)
    BY <1>1, <1>5 DEF Owns, Holds
  <2>3. Holds(c)'
    BY <1>4 DEF Holds
  <2> QED
    BY <1>1, <1>c, <1>7, <2>1, <2>2, <2>3 DEF NotLost
<1> QED
  BY <1>8, <1>9, <1>10, <1>11 DEF JournalInv

LEMMA JournalShow ==
    ASSUME JournalInv, OwnerInv, NEW c \in Chats, ShowJournal(c) PROVE JournalInv'
<1>1. /\ UNCHANGED <<journalFile, impulses, gone, again, behind, lost, unseen>>
      /\ stage[c] = "attached" /\ stage' = [stage EXCEPT ![c] = "running"]
      /\ journal' = [journal EXCEPT ![c] = <<>>]
      /\ shown' = [i \in DOMAIN shown |->
                     shown[i] + IF i \in Range(journal[c]) THEN 1 ELSE 0]
  BY DEF ShowJournal, counters, fileVars
<1>c. c \in Procs /\ c \notin Daemons
  BY HandoffAssumption DEF Procs
<1>2. Read' = Read
  BY <1>1 DEF Read, ReadableJournal
<1>3. \A q \in Procs : q # c => stage'[q] = stage[q] /\ journal'[q] = journal[q]
  BY <1>1 DEF OwnerInv, JournalInv, JournalTyped
<1>4. stage'[c] = "running" /\ Range(journal'[c]) = {}
  BY <1>1, <1>c, EmptyRange DEF OwnerInv, JournalInv, JournalTyped
<1>5. \A q \in Procs : Owns(q) => q = c
  BY <1>1, <1>c, InvOneOwner DEF OneOwner, Owns
<1>6. \A q \in Procs : Owns(q)' => q = c
  BY <1>3, <1>5 DEF Owns
<1>7. /\ Range(journal[c]) \cap Read \subseteq again
      /\ Range(journal[c]) \subseteq 1..impulses
  BY <1>1, <1>c DEF JournalInv, JournalsAgree, ProcsCover, Owns
<1>8. ASSUME NEW i \in 1..MaxImpulses
      PROVE  /\ shown'[i] = shown[i] + (IF i \in Range(journal[c]) THEN 1 ELSE 0)
             /\ shown[i] \in Nat
  BY <1>1 DEF JournalInv, JournalTyped
<1>9. JournalTyped'
  <2>1. shown' \in [1..MaxImpulses -> Nat]
    BY <1>1 DEF JournalInv, JournalTyped
  <2>2. journal' \in [Procs -> Seq(Nat \ {0})]
    <3>1. <<>> \in Seq(Nat \ {0}) /\ journal \in [Procs -> Seq(Nat \ {0})]
      BY DEF JournalInv, JournalTyped
    <3> QED
      BY <1>1, <3>1
  <2> QED
    BY <1>1, <2>1, <2>2 DEF JournalInv, JournalTyped
<1>10. JournalsAgree'
  <2>1. ASSUME NEW q \in Procs
        PROVE  (/\ stage[q] = "loaded" \/ (q \in Daemons /\ Owns(q))
                     => Read \subseteq Range(journal[q]) \cup gone
                /\ stage[q] = "writing" => q \in Daemons /\ journalFile = Torn
                /\ stage[q] = "attached" =>
                     q \in Chats /\ Range(journal[q]) \cap Read \subseteq again
                /\ Owns(q) => Range(journal[q]) \subseteq 1..impulses)'
    <3>1. CASE q = c
      BY <1>c, <1>4, <3>1
    <3>2. CASE q # c
      BY <1>6, <3>2 DEF Owns
    <3> QED
      BY <3>1, <3>2
  <2>2. Read' \subseteq 1..impulses'
    BY <1>1, <1>2 DEF JournalInv, JournalsAgree
  <2> QED
    BY <2>1, <2>2 DEF JournalsAgree, ProcsCover
<1>11. ShownIsGone'
  <2> SUFFICES ASSUME NEW i \in 1..MaxImpulses
               PROVE  (/\ shown[i] > 1 => i \in again
                       /\ shown[i] > 0 => i \in 1..impulses
                       /\ shown[i] > 0 /\ i \notin again
                            => /\ i \notin Read
                               /\ \A q \in Procs : Owns(q) => i \notin Range(journal[q]))'
    BY DEF ShownIsGone
  <2>1. \A q \in Procs : Owns(q)' => i \notin Range(journal'[q])
    BY <1>4, <1>6
  <2>2. CASE i \in Range(journal[c])
    <3>1. shown[i] > 0 => i \in again
      BY <1>1, <1>c, <2>2 DEF JournalInv, ShownIsGone, Owns
    <3>2. shown'[i] > 1 => i \in again
      BY <1>8, <3>1
    <3> QED
      BY <1>1, <1>2, <1>7, <2>1, <2>2, <3>2
  <2>3. CASE i \notin Range(journal[c])
    <3>1. shown'[i] = shown[i]
      BY <1>8, <2>3
    <3> QED
      BY <1>1, <1>2, <2>1, <3>1 DEF JournalInv, ShownIsGone
  <2> QED
    BY <2>2, <2>3
<1>12. NothingLost'
  <2> SUFFICES ASSUME NEW i \in (1..impulses) \ gone
               PROVE  NotLost(i)'
    BY <1>1 DEF NothingLost
  <2>1. NotLost(i)
    BY <1>1 DEF JournalInv, NothingLost
  <2>2. \A q \in Procs : Holds(q) => q = c
    BY <1>5 DEF Owns, Holds
  <2>3. i \in 1..MaxImpulses
    BY HandoffAssumption DEF JournalInv, JournalTyped
  <2>4. shown[i] > 0 \/ i \in Range(journal[c]) => shown'[i] > 0
    BY <1>8, <2>3
  <2> QED
    BY <1>1, <1>2, <2>1, <2>2, <2>4 DEF NotLost
<1> QED
  BY <1>9, <1>10, <1>11, <1>12 DEF JournalInv

LEMMA JournalCollect ==
    ASSUME JournalInv, OwnerInv, NEW d \in Daemons, CollectImpulse(d) PROVE JournalInv'
<1> DEFINE all == Append(journal[d], impulses')
           kept == IF Len(all) > MaxJournal THEN Tail(all) ELSE all
<1>1. /\ UNCHANGED <<shown, again, lost, unseen>>
      /\ stage[d] = "running"
      /\ impulses < MaxImpulses /\ impulses' = impulses + 1
      /\ journal' = [journal EXCEPT ![d] = kept]
      /\ gone' = gone \cup (Range(all) \ Range(kept))
      /\ \/ /\ journalFile' = Torn /\ behind' = behind
            /\ stage' = [stage EXCEPT ![d] = "writing"]
         \/ /\ journalFile' = journalFile /\ behind' = behind \cup {d}
            /\ stage' = stage
  BY DEF CollectImpulse
<1>d. d \in Procs /\ d \notin Chats
  BY HandoffAssumption DEF Procs
<1>2. Read' \subseteq Read /\ (journalFile' = Torn => Read' = {})
  <2>1. CASE journalFile' = Torn
    BY <2>1, EmptyRange DEF Read, ReadableJournal
  <2>2. CASE journalFile' = journalFile
    BY <2>2, EmptyRange DEF Read, ReadableJournal
  <2> QED
    BY <1>1, <2>1, <2>2
<1>3. \A q \in Procs : Owns(q) => q = d
  BY <1>1, <1>d, InvOneOwner DEF OneOwner, Owns
<1>4. /\ journal[d] \in Seq(Nat \ {0}) /\ impulses \in 0..MaxImpulses
      /\ Read \subseteq Range(journal[d]) \cup gone /\ Read \subseteq 1..impulses
      /\ Range(journal[d]) \subseteq 1..impulses
  BY <1>1, <1>d DEF JournalInv, JournalTyped, JournalsAgree, ProcsCover, Owns
<1>6. impulses' \in 1..MaxImpulses /\ impulses' \notin 1..impulses
  BY <1>1, <1>4, HandoffAssumption
<1>7. all \in Seq(Nat \ {0}) /\ Range(all) = Range(journal[d]) \cup {impulses'}
  <2>1. PICK s \in Seq(Nat \ {0}) : s = journal[d]
    BY <1>4
  <2>2. PICK x \in Nat \ {0} : x = impulses'
    BY <1>6
  <2>3. Append(s, x) \in Seq(Nat \ {0})
    OBVIOUS
  <2>4. PICK n \in Nat : n = Len(s)
    OBVIOUS
  <2>5. DOMAIN s = 1..n /\ DOMAIN Append(s, x) = 1..(n + 1)
    BY <2>4
  <2>6. Append(s, x)[n + 1] = x /\ \A k \in 1..n : Append(s, x)[k] = s[k]
    BY <2>4
  <2>7. 1..(n + 1) = 1..n \cup {n + 1}
    BY <2>4
  <2>8. Range(Append(s, x)) = Range(s) \cup {x}
    BY <2>5, <2>6, <2>7, ZenonT(60) DEF Range
  <2> QED
    BY <2>1, <2>2, <2>3, <2>8
<1>8. kept \in Seq(Nat \ {0}) /\ Range(kept) \subseteq Range(all)
  <2>1. PICK s \in Seq(Nat \ {0}) : s = all
    BY <1>7
  <2>2. CASE Len(all) > MaxJournal
    <3>1. Len(s) > 0
      BY <2>1, <2>2, HandoffAssumption
    <3>2. Tail(s) \in Seq(Nat \ {0}) /\ Range(Tail(s)) \subseteq Range(s)
      BY <3>1 DEF Range
    <3> QED
      BY <2>1, <2>2, <3>2
  <2>3. CASE ~(Len(all) > MaxJournal)
    BY <2>1, <2>3
  <2> QED
    BY <2>2, <2>3
<1> HIDE DEF all, kept
<1>9. \A q \in Procs : q # d => stage'[q] = stage[q] /\ journal'[q] = journal[q]
  BY <1>1 DEF OwnerInv, JournalInv, JournalTyped
<1>10. /\ journal'[d] = kept
       /\ \/ stage'[d] = "writing" /\ journalFile' = Torn
          \/ stage'[d] = "running" /\ d \in behind'
  BY <1>1, <1>d DEF OwnerInv, JournalInv, JournalTyped
<1>11. /\ Range(all) \subseteq Range(journal'[d]) \cup gone'
       /\ Range(journal'[d]) \subseteq Range(journal[d]) \cup {impulses'}
       /\ gone \subseteq gone'
  BY <1>1, <1>7, <1>8, <1>10
<1>5. \A q \in Procs : Owns(q)' => q = d
  BY <1>3, <1>9 DEF Owns
<1>12. JournalTyped'
  <2>1. journal' \in [Procs -> Seq(Nat \ {0})]
    BY <1>1, <1>8 DEF JournalInv, JournalTyped
  <2>2. impulses' \in 0..MaxImpulses
    BY <1>6, HandoffAssumption
  <2> QED
    BY <1>1, <2>1, <2>2 DEF JournalInv, JournalTyped
<1>13. JournalsAgree'
  <2>1. 1..impulses \subseteq 1..impulses' /\ impulses' \in 1..impulses'
    BY <1>1, <1>4
  <2>2. Range(journal'[d]) \subseteq 1..impulses'
    BY <1>4, <1>11, <2>1
  <2>3. Read' \subseteq Range(journal'[d]) \cup gone'
    BY <1>2, <1>4, <1>7, <1>11
  <2>4. ASSUME NEW q \in Procs
        PROVE  (/\ stage[q] = "loaded" \/ (q \in Daemons /\ Owns(q))
                     => Read \subseteq Range(journal[q]) \cup gone
                /\ stage[q] = "writing" => q \in Daemons /\ journalFile = Torn
                /\ stage[q] = "attached" =>
                     q \in Chats /\ Range(journal[q]) \cap Read \subseteq again
                /\ Owns(q) => Range(journal[q]) \subseteq 1..impulses)'
    <3>1. CASE q = d
      BY <1>10, <2>2, <2>3, <3>1
    <3>2. CASE q # d
      BY <1>5, <3>2 DEF Owns
    <3> QED
      BY <3>1, <3>2
  <2> QED
    BY <1>2, <1>4, <2>1, <2>4 DEF JournalsAgree, ProcsCover
<1>14. ShownIsGone'
  <2> SUFFICES ASSUME NEW i \in 1..MaxImpulses
               PROVE  (/\ shown[i] > 1 => i \in again
                       /\ shown[i] > 0 => i \in 1..impulses
                       /\ shown[i] > 0 /\ i \notin again
                            => /\ i \notin Read
                               /\ \A q \in Procs : Owns(q) => i \notin Range(journal[q]))'
    BY DEF ShownIsGone
  <2>1. /\ shown[i] > 1 => i \in again
        /\ shown[i] > 0 => i \in 1..impulses
        /\ shown[i] > 0 /\ i \notin again => i \notin Read /\ i \notin Range(journal[d])
    BY <1>1, <1>d DEF JournalInv, ShownIsGone, Owns
  <2>2. ASSUME shown'[i] > 0, i \notin again', NEW q \in Procs, Owns(q)'
        PROVE  i \notin Range(journal'[q])
    <3>1. q = d
      BY <1>5, <2>2
    <3>2. i \notin Range(journal[d]) /\ i # impulses'
      BY <1>1, <1>6, <2>1, <2>2
    <3> QED
      BY <1>11, <3>1, <3>2
  <2>3. i \in 1..impulses => i \in 1..impulses'
    BY <1>1, <1>4
  <2> QED
    BY <1>1, <1>2, <2>1, <2>2, <2>3
<1>15. NothingLost'
  <2> SUFFICES ASSUME NEW i \in (1..impulses') \ gone'
               PROVE  NotLost(i)'
    BY DEF NothingLost
  <2>1. i \in Range(all) => i \in Range(journal'[d])
    BY <1>11
  <2>2. Holds(d)'
    BY <1>10 DEF Holds
  <2>3. CASE i = impulses'
    BY <1>d, <1>7, <2>1, <2>2, <2>3 DEF NotLost
  <2>4. CASE i \in 1..impulses
    <3>1. NotLost(i)
      BY <1>11, <2>4 DEF JournalInv, NothingLost
    <3>2. \A q \in Procs : Holds(q) => q = d
      BY <1>3 DEF Owns, Holds
    <3>3. CASE shown[i] > 0 \/ i \in lost \cup unseen
      BY <1>1, <3>3 DEF NotLost
    <3>4. CASE i \in Read \/ i \in Range(journal[d])
      <4>1. i \in Range(all)
        BY <1>4, <1>7, <1>11, <3>4
      <4> QED
        BY <1>d, <2>1, <2>2, <4>1 DEF NotLost
    <3> QED
      BY <3>1, <3>2, <3>3, <3>4 DEF NotLost
  <2> QED
    BY <1>1, <1>4, <2>3, <2>4
<1> QED
  BY <1>12, <1>13, <1>14, <1>15 DEF JournalInv

LEMMA JournalSave ==
    ASSUME JournalInv, OwnerInv, NEW d \in Daemons, SaveJournal(d) PROVE JournalInv'
<1>1. /\ UNCHANGED <<shown, again, gone, journal, impulses, lost, unseen>>
      /\ stage[d] = "writing" /\ stage' = [stage EXCEPT ![d] = "running"]
      /\ \/ journalFile' = journal[d] /\ behind' = behind \ {d}
         \/ journalFile' = journalFile /\ behind' = behind \cup {d}
  BY DEF SaveJournal, counters, histories
<1>d. d \in Procs /\ d \notin Chats
  BY HandoffAssumption DEF Procs
<1>2. journal[d] \in Seq(Nat \ {0}) /\ journal[d] # Torn
  BY <1>d, Torn0 DEF JournalInv, JournalTyped
<1>4. \A q \in Procs : Owns(q) => q = d
  BY <1>1, <1>d, InvOneOwner DEF OneOwner, Owns
<1>5. Range(journal[d]) \subseteq 1..impulses /\ journalFile = Torn
  BY <1>1, <1>d DEF JournalInv, JournalsAgree, ProcsCover, Owns
<1>6. Read = {}
  BY <1>5, EmptyRange DEF Read, ReadableJournal
<1>7. \A q \in Procs : q # d => stage'[q] = stage[q]
  BY <1>1 DEF OwnerInv
<1>8. stage'[d] = "running"
  BY <1>1, <1>d DEF OwnerInv
<1>3. \/ Read' = Range(journal[d])
      \/ Read' = {} /\ Holds(d)'
  <2>1. CASE journalFile' = journal[d]
    BY <1>2, <2>1 DEF Read, ReadableJournal
  <2>2. CASE journalFile' = journalFile /\ behind' = behind \cup {d}
    BY <1>6, <1>8, <2>2 DEF Read, ReadableJournal, Holds
  <2> QED
    BY <1>1, <2>1, <2>2
<1>11. \A q \in Procs : Owns(q)' => q = d
  BY <1>4, <1>7 DEF Owns
<1>9. JournalTyped'
  BY <1>1, <1>2 DEF JournalInv, JournalTyped
<1>10. JournalsAgree'
  <2>1. ASSUME NEW q \in Procs
        PROVE  (/\ stage[q] = "loaded" \/ (q \in Daemons /\ Owns(q))
                     => Read \subseteq Range(journal[q]) \cup gone
                /\ stage[q] = "writing" => q \in Daemons /\ journalFile = Torn
                /\ stage[q] = "attached" =>
                     q \in Chats /\ Range(journal[q]) \cap Read \subseteq again
                /\ Owns(q) => Range(journal[q]) \subseteq 1..impulses)'
    <3>1. CASE q = d
      BY <1>1, <1>3, <1>5, <1>8, <3>1
    <3>2. CASE q # d
      BY <1>11, <3>2 DEF Owns
    <3> QED
      BY <3>1, <3>2
  <2>2. Read' \subseteq 1..impulses'
    BY <1>1, <1>3, <1>5
  <2> QED
    BY <2>1, <2>2 DEF JournalsAgree, ProcsCover
<1>12. ShownIsGone'
  <2>1. \A i \in 1..MaxImpulses :
          /\ shown[i] > 1 => i \in again
          /\ shown[i] > 0 => i \in 1..impulses
          /\ shown[i] > 0 /\ i \notin again => i \notin Range(journal[d])
    BY <1>1, <1>d DEF JournalInv, ShownIsGone, Owns
  <2> QED
    BY <1>1, <1>3, <1>11, <2>1 DEF ShownIsGone
<1>13. NothingLost'
  <2> SUFFICES ASSUME NEW i \in (1..impulses) \ gone
               PROVE  NotLost(i)'
    BY <1>1 DEF NothingLost
  <2>1. NotLost(i)
    BY <1>1 DEF JournalInv, NothingLost
  <2>2. \A q \in Procs : Holds(q) => q = d
    BY <1>4 DEF Owns, Holds
  <2> QED
    BY <1>1, <1>d, <1>3, <1>6, <2>1, <2>2 DEF NotLost
<1> QED
  BY <1>9, <1>10, <1>12, <1>13 DEF JournalInv

LEMMA JournalMoves ==
    ASSUME JournalInv, OwnerInv, NEW p \in Procs,
           \/ Evolve(p) \/ SaveCheckpoint(p)
           \/ p \in Daemons /\ (LaunchDaemon(p) \/ WritePid(p))
           \/ p \in Chats /\ (LaunchChat(p) \/ StopChat(p))
    PROVE  JournalInv'
<1>1. UNCHANGED <<journal, journalFile, impulses, shown, gone, again, behind, lost, unseen>>
  BY DEF Evolve, SaveCheckpoint, LaunchDaemon, WritePid, LaunchChat, StopChat,
         procVars, fileVars, counters, histories
<1>2. CASE Evolve(p) \/ SaveCheckpoint(p)
  <2>1. stage[p] \in Stages /\ stage' = [stage EXCEPT ![p] = stage[p]]
    BY <1>2 DEF Evolve, SaveCheckpoint, procVars, OwnerInv
  <2> QED
    BY <1>1, <2>1, JournalMove
<1>3. CASE p \in Daemons /\ (LaunchDaemon(p) \/ WritePid(p))
  <2>1. PICK t \in {"launched", "running"} :
          /\ stage' = [stage EXCEPT ![p] = t]
          /\ \/ t = "launched" /\ stage[p] = "new"
             \/ t = "running" /\ stage[p] = "loaded"
    BY <1>3 DEF LaunchDaemon, WritePid
  <2> QED
    BY <1>1, <1>3, <2>1, JournalMove DEF Stages
<1>4. CASE p \in Chats /\ (LaunchChat(p) \/ StopChat(p))
  <2>1. PICK t \in {"launched", "stopped"} :
          /\ stage' = [stage EXCEPT ![p] = t]
          /\ \/ t = "launched" /\ stage[p] = "new"
             \/ t = "stopped" /\ stage[p] = "running"
    BY <1>4 DEF LaunchChat, StopChat
  <2> QED
    BY <1>1, <1>4, <2>1, JournalMove DEF Stages
<1> QED
  BY <1>2, <1>3, <1>4

LEMMA JournalStop ==
    ASSUME JournalInv, OwnerInv, NEW d \in Daemons, StopDaemon(d) PROVE JournalInv'
<1>1. /\ UNCHANGED <<journal, journalFile, impulses, shown, gone, again, behind>>
      /\ stage' = [stage EXCEPT ![d] = "dead"]
      /\ Dies({d})
  BY DEF StopDaemon, counters
<1>d. d \in Procs
  BY DEF Procs
<1>2. lost \subseteq lost' /\ unseen \subseteq unseen'
  BY <1>1 DEF Dies
<1>3. \A q \in Procs : q # d => stage'[q] = stage[q]
  BY <1>1 DEF OwnerInv
<1>4. stage'[d] = "dead"
  BY <1>1, <1>d DEF OwnerInv
<1>5. Holds(d) => Range(journal[d]) \subseteq lost' \cup unseen'
  BY <1>1, <1>d, DeathNoted
<1> QED
  BY <1>1, <1>2, <1>3, <1>4, <1>5, QuietStep DEF Owns, Holds

LEMMA JournalSpawn ==
    ASSUME JournalInv, OwnerInv, NEW c \in Chats, NEW d \in Daemons,
           SpawnAutonomousDaemon(c, d)
    PROVE  JournalInv'
<1>1. /\ UNCHANGED <<journal, journalFile, impulses, shown, gone, again, behind, lost, unseen>>
      /\ stage[c] = "stopped"
      /\ \/ stage' = [stage EXCEPT ![c] = "dead"]
         \/ stage[d] = "new" /\ stage' = [stage EXCEPT ![c] = "dead", ![d] = "launched"]
  BY DEF SpawnAutonomousDaemon, counters, histories
<1>2. \A q \in Procs :
        \/ stage'[q] = stage[q]
        \/ stage'[q] = "dead" /\ stage[q] = "stopped"
        \/ stage'[q] = "launched" /\ stage[q] = "new"
  BY <1>1, HandoffAssumption DEF OwnerInv, Procs
<1> QED
  BY <1>1, <1>2, QuietStep DEF Owns, Holds

LEMMA JournalStep ==
    ASSUME JournalInv, OwnerInv, [HandoffNext]_handoffVars PROVE JournalInv'
<1>1. CASE UNCHANGED handoffVars
  <2>1. UNCHANGED <<journal, journalFile, impulses, shown, gone, again, behind, lost,
                    unseen, stage>>
    BY <1>1 DEF handoffVars, procVars, fileVars, counters, histories
  <2> QED
    BY <2>1, QuietStep DEF Owns, Holds
<1>2. CASE HandoffNext
  BY <1>2, JournalCrash, JournalKill, JournalLoad, JournalAttach, JournalShow,
     JournalCollect, JournalSave, JournalStop, JournalMoves, JournalSpawn
  DEF HandoffNext, Procs
<1> QED
  BY <1>1, <1>2

(* When users are patient, what a daemon noticed while nobody was there is *)
(* shown exactly once: attach_session empties the file it has loaded, and  *)
(* wherever processes are killed and writes fail, an impulse is lost only  *)
(* with a daemon that had not written it or a chat that had taken it and   *)
(* not shown it, and shown twice only where the file could not be emptied. *)
THEOREM HandoffShowsOnce == ASSUME Patient PROVE HandoffSpec => []JournalExact
<1>1. OwnerInv /\ JournalInv /\ [HandoffNext]_handoffVars => JournalInv'
  BY JournalStep
<1>2. JournalInv => JournalExact
  BY JournalEnough
<1>3. HandoffInit => JournalInv
  BY JournalStart
<1> QED
  BY <1>1, <1>2, <1>3, OwnerInvariant, PTL DEF HandoffSpec

-----------------------------------------------------------------------------
(***************************************************************************)
(* The backups.                                                            *)
(***************************************************************************)
LEMMA BackupConstants ==
    StateFiles \in Nat /\ StateFiles >= 1 /\ MaxBackups \in Nat /\ MaxBackups >= 1
  BY BackupAssumption

Contents == {c \in Seq(Nat) : Len(c) = StateFiles /\ \A f \in CriticalFiles : c[f] <= lastStamp}
Hashes == {h \in [CriticalFiles -> Nat] : \A f \in CriticalFiles : h[f] <= lastStamp}
Archived(f) == {archives[a][f] : a \in Made}
Window == {a \in Made : a + MaxBackups > Len(archives)}

BackupsTyped ==
    /\ backup \in {"idle", "archive", "listed", "roll"}
    /\ crowded \in BOOLEAN
    /\ lastStamp \in Nat
    /\ stamps \in Hashes
    /\ archives \in Seq(Contents)
    /\ place \in Seq({"backups", "archive"}) /\ Len(place) = Len(archives)
    /\ taken \in Seq(Nat) /\ Len(taken) <= StateFiles
    /\ \A f \in 1..Len(taken) : taken[f] <= lastStamp
    /\ backup = "archive" => hash \in Hashes
    /\ lastHash \in Hashes \/ lastHash = <<>>
    /\ \A f \in DOMAIN restoring : f \in CriticalFiles /\ restoring[f] \in Archived(f)

\* What a hash says of a file is archived, or not what the file holds.
Settled(h, f) == h[f] \in Archived(f) \/ h[f] # stamps[f]

ContentsSaved ==
    /\ lastHash \in Hashes => \A f \in CriticalFiles \ missed : Settled(lastHash, f)
    /\ backup = "archive" =>
        \A f \in (1..Len(taken)) \ missed : taken[f] = hash[f] \/ Settled(hash, f)

WindowKept ==
    /\ Window \subseteq InDir
    /\ backup \in {"idle", "archive"} /\ ~crowded => InDir = Window
    /\ backup = "roll" => /\ rolling \subseteq InDir \ Window
                          /\ ~crowded => InDir = Window \cup rolling

(* Backups.  Whatever the last hash says of a file is archived, or written  *)
(* over with a stamp that never comes back but from an archive; and the     *)
(* rolling window only ever moves what is older than it.                    *)
BackupsInv == BackupsTyped /\ ContentsSaved /\ WindowKept

-----------------------------------------------------------------------------
\* The archives a list has at least MaxBackups newer ones of are those before
\* the window, if the window is in the list.
LEMMA ExceedingIsOlder ==
    ASSUME BackupsTyped, Window \subseteq InDir
    PROVE  Exceeding(InDir) = InDir \ Window
<1>1. PICK n \in Nat : n = Len(archives) /\ Made = 1..n
  BY DEF BackupsTyped, Made
<1>2. MaxBackups \in Nat
  BY BackupConstants
<1> SUFFICES ASSUME NEW a \in InDir
             PROVE  Cardinality({b \in InDir : b > a}) >= MaxBackups <=> ~(a + MaxBackups > n)
  BY <1>1 DEF Exceeding, Window, InDir
<1> DEFINE newer == {b \in InDir : b > a}
<1>3. a \in 1..n /\ newer \in SUBSET ((a + 1)..n)
  BY <1>1 DEF InDir
<1>4. /\ IsFiniteSet((a + 1)..n) /\ a <= n /\ a \in Nat
      /\ Cardinality((a + 1)..n) = n - a
  <2>1. a + 1 \in Int /\ n \in Int /\ a <= n /\ a \in Nat
    BY <1>3
  <2>2. Cardinality((a + 1)..n) = IF a + 1 > n THEN 0 ELSE n - (a + 1) + 1
    BY <2>1, FS_Interval
  <2>3. IsFiniteSet((a + 1)..n)
    BY <2>1, FS_Interval
  <2>4. Cardinality((a + 1)..n) = n - a
    BY <2>1, <2>2
  <2> QED
    BY <2>1, <2>3, <2>4
<1>5. /\ IsFiniteSet(newer) /\ Cardinality(newer) \in Nat
      /\ Cardinality(newer) <= n - a
  <2> HIDE DEF newer
  <2> QED
    BY <1>3, <1>4, FS_Subset, FS_CardinalityType
<1>6. ASSUME ~(a + MaxBackups > n) PROVE Cardinality(newer) >= MaxBackups
  <2> DEFINE w == (n - MaxBackups + 1)..n
  <2>1. w \in SUBSET newer
    BY <1>1, <1>2, <1>4, <1>6 DEF Window
  <2>2. Cardinality(w) = MaxBackups
    <3>1. n - MaxBackups + 1 \in Int /\ n \in Int
      BY <1>2
    <3>2. Cardinality(w) = IF n - MaxBackups + 1 > n THEN 0 ELSE n - (n - MaxBackups + 1) + 1
      BY <3>1, FS_Interval
    <3> HIDE DEF w
    <3> QED
      BY <1>2, <3>2, BackupConstants
  <2> HIDE DEF w, newer
  <2>3. Cardinality(w) <= Cardinality(newer)
    BY <1>5, <2>1, FS_Subset
  <2> QED
    BY <1>2, <1>5, <2>2, <2>3
<1> HIDE DEF newer
<1>7. Cardinality(newer) >= MaxBackups <=> ~(a + MaxBackups > n)
  BY <1>2, <1>4, <1>5, <1>6
<1> QED
  BY <1>7 DEF newer

LEMMA WindowStep ==
    ASSUME BackupsTyped, BackupsTyped', WindowKept, [BackupsNext]_backupVars
    PROVE  WindowKept'
<1> DEFINE same == UNCHANGED <<archives, place>>
<1>0. Len(archives) \in Nat /\ Made = 1..Len(archives) /\ MaxBackups \in Nat /\ MaxBackups >= 1
  BY BackupConstants DEF BackupsTyped, Made
<1>s. ASSUME same PROVE Made' = Made /\ InDir' = InDir /\ Window' = Window
  BY <1>s DEF Made, InDir, Window
<1>1. ASSUME same, UNCHANGED <<rolling, crowded>>,
             backup' = backup \/ (backup \in {"idle", "archive"} /\ backup' \in {"idle", "archive"})
      PROVE  WindowKept'
  <2> HIDE DEF InDir, Window
  <2> QED
    BY <1>1, <1>s DEF WindowKept
<1>2. CASE CreateBackup \/ WriteBackup \/ ArchiveFails
  BY <1>1, <1>2 DEF CreateBackup, WriteBackup, ArchiveFails, storeVars
<1>3. CASE WriteState \/ StartProcess \/ RestoreFrom \/ ExtractFile
  BY <1>1, <1>3 DEF WriteState, StartProcess, RestoreFrom, ExtractFile, storeVars
<1>4. CASE RenameArchive
  <2>1. /\ archives' = Append(archives, taken) /\ place' = Append(place, "backups") /\ backup' = "listed"
    BY <1>4 DEF RenameArchive
  <2>2. /\ Made' = 1..(Len(archives) + 1) /\ Len(archives') = Len(archives) + 1
        /\ \A a \in Made : place'[a] = place[a]
        /\ place'[Len(archives) + 1] = "backups"
    BY <1>0, <2>1 DEF BackupsTyped, Made
  <2>3. Window' \subseteq Window \cup {Len(archives) + 1}
    BY <1>0, <2>2 DEF Window
  <2>4. InDir \cup {Len(archives) + 1} \subseteq InDir'
    BY <1>0, <2>2 DEF InDir
  <2> QED
    BY <2>1, <2>3, <2>4 DEF WindowKept
<1>5. CASE EnforceRollingWindow
  <2>1. /\ rolling' = Exceeding(InDir) /\ crowded' = FALSE /\ same
        /\ backup' = IF rolling' = {} THEN "idle" ELSE "roll"
    BY <1>5 DEF EnforceRollingWindow, storeVars
  <2>2. Window \subseteq InDir /\ Exceeding(InDir) = InDir \ Window
    BY ExceedingIsOlder DEF WindowKept
  <2>3. InDir' = InDir /\ Window' = Window
    BY <1>s, <2>1
  <2> HIDE DEF InDir, Window
  <2> QED
    BY <2>1, <2>2, <2>3 DEF WindowKept
<1>6. CASE RollArchive
  <2>1. PICK a \in rolling :
          /\ \/ place' = [place EXCEPT ![a] = "archive"] /\ UNCHANGED crowded
             \/ crowded' = TRUE /\ UNCHANGED place
          /\ rolling' = rolling \ {a}
    BY <1>6 DEF RollArchive
  <2>2. /\ backup = "roll" /\ backup' = IF rolling' = {} THEN "idle" ELSE "roll"
        /\ UNCHANGED archives
    BY <1>6 DEF RollArchive
  <2>3. rolling \subseteq InDir \ Window /\ (~crowded => InDir = Window \cup rolling) /\ Window \subseteq InDir
    BY <2>2 DEF WindowKept
  <2>4. Window' = Window
    BY <2>2 DEF Window, Made
  <2>5. CASE place' = [place EXCEPT ![a] = "archive"] /\ UNCHANGED crowded
    <3>1. a \in Made /\ Made' = Made
      BY <2>2, <2>3 DEF InDir, Made
    <3>2. InDir' = InDir \ {a}
      BY <1>0, <2>5, <3>1 DEF InDir, BackupsTyped
    <3> HIDE DEF InDir, Window
    <3> QED
      BY <2>1, <2>2, <2>3, <2>4, <2>5, <3>2 DEF WindowKept
  <2>6. CASE crowded' = TRUE /\ UNCHANGED place
    <3>1. InDir' = InDir
      BY <1>s, <2>2, <2>6
    <3> HIDE DEF InDir, Window
    <3> QED
      BY <2>1, <2>2, <2>3, <2>4, <2>6, <3>1 DEF WindowKept
  <2> QED
    BY <2>1, <2>5, <2>6
<1>7. CASE KillProcess
  <2>1. /\ same /\ backup' = "idle" /\ crowded' = (crowded \/ backup \in {"listed", "roll"})
    BY <1>7 DEF KillProcess, storeVars
  <2>2. InDir' = InDir /\ Window' = Window
    BY <1>s, <2>1
  <2> HIDE DEF InDir, Window
  <2> QED
    BY <2>1, <2>2 DEF WindowKept, BackupsTyped
<1>8. CASE UNCHANGED backupVars
  BY <1>1, <1>8 DEF backupVars
<1> QED
  BY <1>2, <1>3, <1>4, <1>5, <1>6, <1>7, <1>8 DEF BackupsNext

-----------------------------------------------------------------------------
\* The empty hash is none of the files'.
LEMMA NoHash == <<>> \notin [CriticalFiles -> Nat]
<1>1. 1 \in CriticalFiles
  BY BackupConstants DEF CriticalFiles
<1>2. ASSUME <<>> \in [CriticalFiles -> Nat] PROVE FALSE
  <2>1. DOMAIN <<>> = CriticalFiles
    BY <1>2
  <2>2. 1 \notin DOMAIN <<>>
    OBVIOUS
  <2> QED
    BY <1>1, <2>1, <2>2
<1> QED
  BY <1>2

\* Archives are never lost: a step adds one or leaves them as they are.
LEMMA ArchivesGrow ==
    ASSUME BackupsTyped, [BackupsNext]_backupVars
    PROVE  \A f \in CriticalFiles : Archived(f) \subseteq Archived(f)'
<1>1. CASE archives' = archives
  BY <1>1 DEF Archived, Made
<1>2. CASE archives' = Append(archives, taken)
  <2>1. Len(archives) \in Nat /\ Made = 1..Len(archives)
    BY DEF BackupsTyped, Made
  <2>2. Made' = 1..(Len(archives) + 1) /\ \A a \in Made : archives'[a] = archives[a]
    BY <1>2, <2>1 DEF BackupsTyped, Made
  <2>3. Made \subseteq Made'
    BY <2>1, <2>2
  <2> QED
    BY <2>2, <2>3 DEF Archived
<1> QED
  BY <1>1, <1>2 DEF BackupsNext, CreateBackup, WriteBackup, ArchiveFails, RenameArchive,
     EnforceRollingWindow, RollArchive, WriteState, KillProcess, StartProcess, RestoreFrom,
     ExtractFile, storeVars, backupVars

\* What is settled of a hash remains so.
LEMMA SettledStays ==
    ASSUME BackupsTyped, [BackupsNext]_backupVars,
           NEW h \in Hashes, NEW f \in CriticalFiles, Settled(h, f)
    PROVE  Settled(h, f)'
<1>1. Archived(f) \subseteq Archived(f)'
  BY ArchivesGrow
<1>2. stamps \in Hashes /\ lastStamp \in Nat /\ h[f] \in Nat /\ h[f] <= lastStamp
  BY DEF BackupsTyped, Hashes
<1>3. CASE stamps'[f] = stamps[f]
  BY <1>1, <1>3 DEF Settled
<1>4. CASE stamps'[f] = lastStamp + 1
  BY <1>2, <1>4 DEF Settled
<1>5. CASE stamps'[f] \in Archived(f)
  BY <1>1, <1>5 DEF Settled
<1>6. stamps'[f] = stamps[f] \/ stamps'[f] = lastStamp + 1 \/ stamps'[f] \in Archived(f)
  <2>1. CASE UNCHANGED stamps
    BY <2>1
  <2>2. CASE WriteState
    BY <1>2, <2>2 DEF WriteState, Hashes
  <2>3. CASE ExtractFile
    <3>1. PICK g \in DOMAIN restoring :
            UNCHANGED stamps \/ stamps' = [stamps EXCEPT ![g] = restoring[g]]
      BY <2>3 DEF ExtractFile
    <3>2. g \in CriticalFiles /\ restoring[g] \in Archived(g)
      BY DEF BackupsTyped
    <3> QED
      BY <1>2, <3>1, <3>2 DEF Hashes
  <2> QED
    BY <2>1, <2>2, <2>3 DEF BackupsNext, CreateBackup, WriteBackup, ArchiveFails, RenameArchive,
       EnforceRollingWindow, RollArchive, KillProcess, StartProcess, RestoreFrom,
       processVars, backupVars
<1> QED
  BY <1>3, <1>4, <1>5, <1>6

LEMMA SavedStep ==
    ASSUME BackupsTyped, BackupsTyped', ContentsSaved, [BackupsNext]_backupVars
    PROVE  ContentsSaved'
<1>1. ASSUME UNCHANGED lastHash, lastHash \in Hashes,
             NEW f \in CriticalFiles \ missed
      PROVE  Settled(lastHash, f)'
  <2>1. Settled(lastHash, f)
    BY <1>1 DEF ContentsSaved
  <2>2. PICK h \in Hashes : h = lastHash
    BY <1>1
  <2>3. Settled(h, f)'
    BY <2>1, <2>2, SettledStays
  <2> QED
    BY <1>1, <2>2, <2>3 DEF Settled
<1>2. missed \subseteq missed'
  BY DEF BackupsNext, CreateBackup, WriteBackup, ArchiveFails, RenameArchive,
     EnforceRollingWindow, RollArchive, WriteState, KillProcess, StartProcess, RestoreFrom,
     ExtractFile, storeVars, backupVars
<1>3. ASSUME UNCHANGED lastHash, lastHash' \in Hashes', NEW f \in CriticalFiles \ missed'
      PROVE  Settled(lastHash, f)'
  <2>1. lastHash \in Hashes
    BY <1>3, NoHash DEF BackupsTyped, Hashes
  <2> QED
    BY <1>1, <1>2, <1>3, <2>1
<1>4. ASSUME UNCHANGED <<hash, taken>>, backup = "archive", NEW f \in (1..Len(taken)) \ missed'
      PROVE  taken[f] = hash[f] \/ Settled(hash, f)'
  <2>1. taken[f] = hash[f] \/ Settled(hash, f)
    BY <1>2, <1>4 DEF ContentsSaved
  <2>2. PICK h \in Hashes : h = hash
    BY <1>4 DEF BackupsTyped
  <2>3. f \in CriticalFiles
    BY BackupConstants DEF BackupsTyped, CriticalFiles
  <2>4. Settled(h, f) => Settled(h, f)'
    BY <2>3, SettledStays
  <2> QED
    BY <1>4, <2>1, <2>2, <2>4 DEF Settled
<1>5. ASSUME UNCHANGED <<lastHash, hash, taken, missed>>, backup' = "archive" => backup = "archive"
      PROVE  ContentsSaved'
  BY <1>3, <1>4, <1>5 DEF ContentsSaved
<1>6. CASE CreateBackup
  <2>1. UNCHANGED lastHash /\ taken' = <<>>
    BY <1>6 DEF CreateBackup
  <2>2. (1..Len(taken))' = {}
    BY <2>1
  <2> QED
    BY <1>3, <2>1, <2>2 DEF ContentsSaved
<1>7. CASE WriteBackup
  <2>1. /\ UNCHANGED <<lastHash, hash, stamps, backup, archives>> /\ backup = "archive"
        /\ Len(taken) < StateFiles
        /\ \/ taken' = Append(taken, stamps[Len(taken) + 1])
           \/ taken' = Append(taken, 0) /\ missed' = missed \cup {Len(taken) + 1}
    BY <1>7 DEF WriteBackup, processVars, storeVars
  <2>t. taken \in Seq(Nat) /\ Len(taken) \in Nat
    BY DEF BackupsTyped
  <2>2. PICK n \in Nat : n = Len(taken)
    BY <2>t
  <2>3. Len(taken') = n + 1 /\ \A f \in 1..n : taken'[f] = taken[f]
    <3>1. stamps[n + 1] \in Nat
      BY <2>1, <2>2 DEF BackupsTyped, Hashes, CriticalFiles
    <3> QED
      BY <2>1, <2>2, <2>t, <3>1
  <2>4. ASSUME NEW f \in (1..(n + 1)) \ missed'
        PROVE  taken'[f] = hash'[f] \/ Settled(hash, f)'
    <3>1. CASE f \in 1..n
      <4>1. taken[f] = hash[f] \/ Settled(hash, f)
        BY <1>2, <2>1, <2>2, <2>4, <3>1 DEF ContentsSaved
      <4>2. Settled(hash, f)' <=> Settled(hash, f)
        BY <2>1 DEF Settled, Archived, Made
      <4> QED
        BY <2>1, <2>3, <3>1, <4>1, <4>2
    <3>2. CASE f = n + 1
      <4>1. taken' = Append(taken, stamps[f])
        BY <2>1, <2>2, <2>4, <3>2
      <4>2. taken'[f] = stamps[f]
        BY <2>2, <3>2, <4>1 DEF BackupsTyped
      <4> QED
        BY <2>1, <4>2 DEF Settled
    <3> QED
      BY <2>2, <3>1, <3>2
  <2> QED
    BY <1>3, <2>1, <2>3, <2>4 DEF ContentsSaved
<1>8. CASE RenameArchive
  <2>1. /\ backup = "archive" /\ Len(taken) = StateFiles /\ UNCHANGED <<stamps, missed>>
        /\ archives' = Append(archives, taken) /\ lastHash' = hash /\ backup' = "listed"
    BY <1>8 DEF RenameArchive, Remembered, processVars
  <2>2. ASSUME NEW f \in CriticalFiles \ missed
        PROVE  Settled(lastHash, f)'
    <3>1. taken[f] = hash[f] \/ Settled(hash, f)
      BY <2>1 DEF ContentsSaved, CriticalFiles
    <3>2. CASE Settled(hash, f)
      <4>1. PICK h \in Hashes : h = hash
        BY <2>1 DEF BackupsTyped
      <4>2. Settled(h, f)'
        BY <3>2, <4>1, SettledStays
      <4> QED
        BY <2>1, <4>1, <4>2 DEF Settled
    <3>3. CASE taken[f] = hash[f]
      <4>1. Len(archives) + 1 \in Made' /\ archives'[Len(archives) + 1] = taken
        BY <2>1 DEF BackupsTyped, Made
      <4>2. taken[f] \in Archived(f)'
        BY <4>1 DEF Archived
      <4> QED
        BY <2>1, <3>3, <4>2 DEF Settled
    <3> QED
      BY <3>1, <3>2, <3>3
  <2> QED
    BY <2>1, <2>2 DEF ContentsSaved
<1>9. CASE KillProcess
  <2>1. lastHash' = <<>> /\ backup' = "idle"
    BY <1>9 DEF KillProcess
  <2> QED
    BY <2>1, NoHash DEF ContentsSaved, Hashes
<1>10. CASE ArchiveFails
  <2>1. UNCHANGED lastHash /\ backup' = "idle"
    BY <1>10 DEF ArchiveFails
  <2> QED
    BY <1>3, <2>1 DEF ContentsSaved
<1>11. CASE EnforceRollingWindow \/ RollArchive
  BY <1>5, <1>11 DEF EnforceRollingWindow, RollArchive
<1>12. CASE WriteState \/ StartProcess \/ RestoreFrom \/ ExtractFile \/ UNCHANGED backupVars
  BY <1>5, <1>12 DEF WriteState, StartProcess, RestoreFrom, ExtractFile, backupVars
<1> QED
  BY <1>6, <1>7, <1>8, <1>9, <1>10, <1>11, <1>12 DEF BackupsNext

-----------------------------------------------------------------------------
\* A content is still one when later stamps have been given.
LEMMA StampsGrow ==
    ASSUME BackupsTyped, lastStamp' \in Nat, lastStamp' >= lastStamp
    PROVE  /\ \A h \in Hashes : h \in Hashes'
           /\ \A c \in Contents : c \in Contents'
           /\ \A f \in 1..Len(taken) : taken[f] <= lastStamp'
<1>1. lastStamp \in Nat
  BY DEF BackupsTyped
<1>2. \A h \in Hashes : h \in Hashes'
  BY <1>1 DEF Hashes
<1>3. ASSUME NEW c \in Contents PROVE c \in Contents'
  <2>1. \A f \in CriticalFiles : c[f] \in Nat
    BY DEF Contents, CriticalFiles
  <2> QED
    BY <1>1, <2>1 DEF Contents
<1>4. \A f \in 1..Len(taken) : taken[f] <= lastStamp'
  BY <1>1 DEF BackupsTyped
<1> QED
  BY <1>2, <1>3, <1>4

LEMMA TypedStep ==
    ASSUME BackupsTyped, [BackupsNext]_backupVars
    PROVE  BackupsTyped'
<1>1. /\ backup \in {"idle", "archive", "listed", "roll"} /\ crowded \in BOOLEAN
      /\ lastStamp \in Nat /\ stamps \in Hashes
      /\ archives \in Seq(Contents)
      /\ place \in Seq({"backups", "archive"}) /\ Len(place) = Len(archives)
      /\ taken \in Seq(Nat) /\ Len(taken) <= StateFiles
      /\ \A f \in 1..Len(taken) : taken[f] <= lastStamp
      /\ backup = "archive" => hash \in Hashes
      /\ lastHash \in Hashes \/ lastHash = <<>>
  BY DEF BackupsTyped
<1>g. \A f \in CriticalFiles : Archived(f) \subseteq Archived(f)'
  BY ArchivesGrow
<1>u. ASSUME UNCHANGED lastStamp PROVE Hashes' = Hashes /\ Contents' = Contents
  BY <1>u DEF Hashes, Contents
<1>r. ASSUME \A f \in DOMAIN restoring' : f \in DOMAIN restoring /\ restoring'[f] = restoring[f]
      PROVE  \A f \in DOMAIN restoring' : f \in CriticalFiles /\ restoring'[f] \in Archived(f)'
  BY <1>g, <1>r DEF BackupsTyped
<1>2. CASE CreateBackup
  <2>1. Len(<<>>) = 0 /\ <<>> \in Seq(Nat) /\ StateFiles \in Nat /\ 1..0 = {}
    BY BackupConstants
  <2>2. UNCHANGED <<processVars, storeVars, lastHash, crowded>> /\ hash' = stamps /\ taken' = <<>>
        /\ backup' = "archive"
    BY <1>2 DEF CreateBackup
  <2>3. UNCHANGED <<stamps, lastStamp, restoring, archives, place>>
    BY <2>2 DEF processVars, storeVars
  <2> HIDE DEF Hashes, Contents
  <2> QED
    BY <1>1, <1>r, <1>u, <2>1, <2>2, <2>3 DEF BackupsTyped
<1>3. CASE WriteBackup
  <2>1. /\ UNCHANGED <<stamps, lastStamp, restoring, archives, place, lastHash, hash, backup, crowded>>
        /\ Len(taken) < StateFiles
        /\ taken' = Append(taken, stamps[Len(taken) + 1]) \/ taken' = Append(taken, 0)
    BY <1>3 DEF WriteBackup, processVars, storeVars
  <2>2. PICK x : taken' = Append(taken, x) /\ x \in Nat /\ x <= lastStamp
    <3>1. Len(taken) + 1 \in CriticalFiles
      BY <1>1, <2>1, BackupConstants DEF CriticalFiles
    <3>2. stamps[Len(taken) + 1] \in Nat /\ stamps[Len(taken) + 1] <= lastStamp
      BY <1>1, <3>1 DEF Hashes
    <3> QED
      BY <1>1, <2>1, <3>2
  <2>3. /\ taken' \in Seq(Nat) /\ Len(taken') <= StateFiles
        /\ \A f \in 1..Len(taken') : taken'[f] <= lastStamp
    BY <1>1, <2>1, <2>2, BackupConstants
  <2> QED
    BY <1>1, <1>r, <1>u, <2>1, <2>3 DEF BackupsTyped
<1>4. CASE ArchiveFails
  <2>1. Len(<<>>) = 0 /\ <<>> \in Seq(Nat) /\ StateFiles \in Nat /\ 1..0 = {}
    BY BackupConstants
  <2>2. UNCHANGED <<processVars, storeVars, lastHash, crowded>> /\ taken' = <<>> /\ backup' = "idle"
    BY <1>4 DEF ArchiveFails
  <2>3. UNCHANGED <<stamps, lastStamp, restoring, archives, place>>
    BY <2>2 DEF processVars, storeVars
  <2> QED
    BY <1>1, <1>r, <1>u, <2>1, <2>2, <2>3 DEF BackupsTyped
<1>5. CASE RenameArchive
  <2>1. Len(<<>>) = 0 /\ <<>> \in Seq(Nat) /\ StateFiles \in Nat /\ 1..0 = {}
    BY BackupConstants
  <2>2. /\ UNCHANGED <<stamps, lastStamp, restoring, crowded>>
        /\ taken' = <<>> /\ backup = "archive" /\ backup' = "listed" /\ lastHash' = hash
        /\ archives' = Append(archives, taken) /\ place' = Append(place, "backups")
        /\ Len(taken) = StateFiles
    BY <1>5 DEF RenameArchive, Remembered, processVars
  <2>3. taken \in Contents
    BY <1>1, <2>2 DEF Contents, CriticalFiles
  <2>4. archives' \in Seq(Contents) /\ Len(archives') = Len(archives) + 1
    BY <1>1, <2>2, <2>3
  <2>5. place' \in Seq({"backups", "archive"}) /\ Len(place') = Len(place) + 1
    BY <1>1, <2>2
  <2> QED
    BY <1>1, <1>r, <1>u, <2>1, <2>2, <2>4, <2>5 DEF BackupsTyped
<1>6. CASE EnforceRollingWindow
  <2>1. /\ UNCHANGED <<stamps, lastStamp, restoring, archives, place, hash, lastHash, taken>>
        /\ backup' \in {"idle", "roll"} /\ crowded' = FALSE
    BY <1>6 DEF EnforceRollingWindow, processVars, storeVars
  <2> QED
    BY <1>1, <1>r, <1>u, <2>1 DEF BackupsTyped
<1>7. CASE RollArchive
  <2>1. /\ UNCHANGED <<stamps, lastStamp, restoring, archives, hash, lastHash, taken>>
        /\ backup' \in {"idle", "roll"}
    BY <1>7 DEF RollArchive, processVars
  <2>2. PICK a \in rolling : \/ place' = [place EXCEPT ![a] = "archive"] /\ UNCHANGED crowded
                             \/ crowded' = TRUE /\ UNCHANGED place
    BY <1>7 DEF RollArchive
  <2>3. /\ place' \in Seq({"backups", "archive"}) /\ Len(place') = Len(place)
        /\ crowded' \in BOOLEAN
    <3> DEFINE spots == {"backups", "archive"}
    <3>1. PICK n \in Nat : n = Len(place) /\ place \in [1..n -> spots]
      BY <1>1
    <3>2. place' \in [1..n -> spots]
      BY <2>2, <3>1
    <3>3. place' \in Seq(spots) /\ Len(place') = n
      <4> HIDE DEF spots
      <4> QED
        BY <3>2
    <3> QED
      BY <1>1, <2>2, <3>1, <3>3
  <2> QED
    BY <1>1, <1>r, <1>u, <2>1, <2>3 DEF BackupsTyped
<1>8. CASE WriteState
  <2>1. /\ UNCHANGED <<restoring, archives, place, backup, hash, lastHash, taken, crowded>>
        /\ lastStamp' = lastStamp + 1
    BY <1>8 DEF WriteState, storeVars
  <2>2. PICK f \in CriticalFiles : stamps' = [stamps EXCEPT ![f] = lastStamp']
    BY <1>8 DEF WriteState
  <2>3. lastStamp' \in Nat /\ lastStamp' >= lastStamp
    BY <1>1, <2>1
  <2>4. stamps' \in Hashes'
    <3>1. stamps' \in [CriticalFiles -> Nat]
      BY <1>1, <2>2, <2>3 DEF Hashes
    <3>2. \A g \in CriticalFiles : stamps[g] \in Nat /\ stamps[g] <= lastStamp
      BY <1>1 DEF Hashes
    <3>3. \A g \in CriticalFiles : stamps'[g] = stamps[g] \/ stamps'[g] = lastStamp'
      BY <1>1, <2>2 DEF Hashes
    <3>4. \A g \in CriticalFiles : stamps'[g] <= lastStamp'
      BY <1>1, <2>1, <3>2, <3>3
    <3> QED
      BY <3>1, <3>4 DEF Hashes
  <2>5. archives' \in Seq(Contents')
    BY <1>1, <2>1, <2>3, StampsGrow
  <2>6. /\ backup' = "archive" => hash' \in Hashes'
        /\ lastHash' \in Hashes' \/ lastHash' = <<>>
        /\ \A g \in 1..Len(taken') : taken'[g] <= lastStamp'
    BY <1>1, <2>1, <2>3, StampsGrow
  <2> QED
    BY <1>1, <1>r, <2>1, <2>3, <2>4, <2>5, <2>6 DEF BackupsTyped
<1>9. CASE KillProcess
  <2>1. Len(<<>>) = 0 /\ <<>> \in Seq(Nat) /\ StateFiles \in Nat /\ 1..0 = {}
    BY BackupConstants
  <2>2. /\ UNCHANGED <<stamps, lastStamp, restoring, archives, place>>
        /\ taken' = <<>> /\ backup' = "idle" /\ lastHash' = <<>>
        /\ crowded' = (crowded \/ backup \in {"listed", "roll"})
    BY <1>9 DEF KillProcess, storeVars
  <2>3. crowded' \in BOOLEAN
    BY <2>2
  <2> QED
    BY <1>1, <1>r, <1>u, <2>1, <2>2, <2>3 DEF BackupsTyped
<1>10. CASE StartProcess \/ UNCHANGED backupVars
  <2>1. UNCHANGED <<stamps, lastStamp, restoring, archives, place, backup, hash, lastHash, taken, crowded>>
    BY <1>10 DEF StartProcess, storeVars, backupVars
  <2> QED
    BY <1>1, <1>r, <1>u, <2>1 DEF BackupsTyped
<1>11. CASE RestoreFrom
  <2>1. UNCHANGED <<stamps, lastStamp, archives, place, backup, hash, lastHash, taken, crowded>>
    BY <1>11 DEF RestoreFrom, storeVars
  <2>2. PICK a \in Made :
          restoring' = [f \in {g \in CriticalFiles : archives[a][g] # 0} |-> archives[a][f]]
    BY <1>11 DEF RestoreFrom
  <2>3. \A f \in DOMAIN restoring' : f \in CriticalFiles /\ restoring'[f] \in Archived(f)'
    BY <2>1, <2>2 DEF Archived, Made
  <2> QED
    BY <1>1, <1>u, <2>1, <2>3 DEF BackupsTyped
<1>12. CASE ExtractFile
  <2>1. UNCHANGED <<lastStamp, archives, place, backup, hash, lastHash, taken, crowded>>
    BY <1>12 DEF ExtractFile, storeVars
  <2>2. PICK f \in DOMAIN restoring :
          \/ /\ stamps' = [stamps EXCEPT ![f] = restoring[f]]
             /\ restoring' = [g \in DOMAIN restoring \ {f} |-> restoring[g]]
          \/ restoring' = <<>> /\ UNCHANGED stamps
    BY <1>12 DEF ExtractFile
  <2>3. \A g \in DOMAIN restoring' : g \in DOMAIN restoring /\ restoring'[g] = restoring[g]
    <3>1. DOMAIN <<>> = {}
      OBVIOUS
    <3> QED
      BY <2>2, <3>1
  <2>4. restoring[f] \in Nat /\ restoring[f] <= lastStamp
    <3>1. PICK a \in Made : f \in CriticalFiles /\ restoring[f] = archives[a][f]
      BY DEF BackupsTyped, Archived
    <3>2. archives[a] \in Contents
      BY <1>1 DEF Made
    <3> QED
      BY <3>1, <3>2 DEF Contents, CriticalFiles
  <2>5. stamps' \in Hashes
    BY <1>1, <2>2, <2>4 DEF Hashes
  <2> QED
    BY <1>1, <1>r, <1>u, <2>1, <2>3, <2>5 DEF BackupsTyped
<1> QED
  BY <1>2, <1>3, <1>4, <1>5, <1>6, <1>7, <1>8, <1>9, <1>10, <1>11, <1>12 DEF BackupsNext

LEMMA BackupsStart == BackupsInit => BackupsInv
<1> SUFFICES ASSUME BackupsInit PROVE BackupsInv
  OBVIOUS
<1>1. StateFiles \in Nat /\ StateFiles >= 1 /\ MaxBackups \in Nat
  BY BackupConstants
<1>2. /\ <<>> \in Seq(Nat) /\ <<>> \in Seq(Contents) /\ <<>> \in Seq({"backups", "archive"})
      /\ Len(<<>>) = 0 /\ DOMAIN <<>> = {} /\ 1..0 = {}
  OBVIOUS
<1>3. stamps \in Hashes
  BY DEF BackupsInit, Hashes
<1>4. BackupsTyped
  <2>1. /\ backup = "idle" /\ crowded = FALSE /\ lastStamp = 1 /\ archives = <<>> /\ place = <<>>
        /\ taken = <<>> /\ lastHash = <<>> /\ restoring = <<>>
    BY DEF BackupsInit
  <2>2. /\ archives \in Seq(Contents) /\ place \in Seq({"backups", "archive"})
        /\ taken \in Seq(Nat)
    BY <1>2, <2>1
  <2>3. /\ Len(place) = Len(archives) /\ Len(taken) <= StateFiles
        /\ \A f \in 1..Len(taken) : taken[f] <= lastStamp
    BY <1>1, <1>2, <2>1
  <2>4. \A f \in DOMAIN restoring : f \in CriticalFiles /\ restoring[f] \in Archived(f)
    BY <1>2, <2>1
  <2> HIDE DEF Contents, Hashes
  <2> QED
    BY <1>3, <2>1, <2>2, <2>3, <2>4 DEF BackupsTyped
<1>5. ContentsSaved
  BY NoHash DEF BackupsInit, ContentsSaved, Hashes
<1>6. Made = {}
  BY <1>2 DEF BackupsInit, Made
<1>7. WindowKept
  BY <1>6 DEF BackupsInit, WindowKept, Window, InDir
<1> QED
  BY <1>4, <1>5, <1>7 DEF BackupsInv

LEMMA BackupsFound == BackupsInv => RestoreFindsIt
<1> SUFFICES ASSUME BackupsInv PROVE RestoreFindsIt
  OBVIOUS
<1>1. BackupsTyped /\ ContentsSaved /\ WindowKept
  BY DEF BackupsInv
<1>2. SkippedIsSaved
  <2> SUFFICES ASSUME lastHash = stamps, NEW f \in CriticalFiles \ missed
               PROVE  \E a \in Made : archives[a][f] = stamps[f]
    BY DEF SkippedIsSaved
  <2>1. Settled(lastHash, f)
    BY <1>1 DEF BackupsTyped, ContentsSaved
  <2> QED
    BY <2>1 DEF Settled, Archived
<1>3. ASSUME Made # {} PROVE Len(archives) \in InDir
  <2>1. Len(archives) \in Nat /\ Len(archives) \in Made
    BY <1>1, <1>3 DEF BackupsTyped, Made
  <2>2. Len(archives) \in Window
    BY <2>1, BackupConstants DEF Window
  <2> QED
    BY <1>1, <2>2 DEF WindowKept
<1>4. NewestStayNear
  BY <1>1, <1>3 DEF NewestStayNear, WindowKept, Window
<1> QED
  BY <1>2, <1>4 DEF RestoreFindsIt

(* Whoever wants an older state back finds what the backups promise: what  *)
(* a skipped backup would have held is archived, and the window holds the  *)
(* newest, for any number of files and archives.                           *)
THEOREM RestoreFindsAlways == BackupsSpec => []RestoreFindsIt
<1>1. BackupsInv /\ [BackupsNext]_backupVars => BackupsInv'
  <2> SUFFICES ASSUME BackupsInv, [BackupsNext]_backupVars PROVE BackupsInv'
    OBVIOUS
  <2>1. BackupsTyped'
    BY TypedStep DEF BackupsInv
  <2> QED
    BY <2>1, SavedStep, WindowStep DEF BackupsInv
<1> QED
  BY <1>1, BackupsStart, BackupsFound, PTL DEF BackupsSpec

-----------------------------------------------------------------------------
(***************************************************************************)
(* The ledger of who Luna is.                                              *)
(***************************************************************************)
LedgerLines ==
    [kind: {"event", "bundle", "bad", "split"}, versions: SUBSET Versions, ended: BOOLEAN]

Written(lines, v) ==
    \E i \in DOMAIN lines : lines[i].kind # "event" /\ v \in lines[i].versions
Unreadable(lines, v) ==
    \E i \in DOMAIN lines : lines[i].kind \in {"bad", "split"} /\ v \in lines[i].versions

(* Identity.  What is held was written, and what is held to be altered     *)
(* stands on a line that cannot be read.                                   *)
IdentityInv ==
    /\ docs \in Versions \cup {"missing", "binary"}
    /\ ledger \in Seq(LedgerLines)
    /\ \A p \in Processes :
        \/ context[p] \in {Stopped, NoContext}
        \/ IF context[p].integrity_ok THEN Written(ledger, context[p].version)
           ELSE Unreadable(ledger, context[p].version)
    /\ context = [p \in Processes |-> context[p]]

\* What was written is read, or stands on a line that cannot be read.
LEMMA WrittenOrLost ==
    ASSUME NEW lines \in Seq(LedgerLines), NEW v
    PROVE  /\ Verify(lines, v) => Written(lines, v)
           /\ Written(lines, v) => Verify(lines, v) \/ Unreadable(lines, v)
<1>1. \A i \in DOMAIN lines : lines[i] \in LedgerLines
  OBVIOUS
<1>2. \A i \in DOMAIN lines : lines[i].kind \in {"event", "bundle", "bad", "split"}
  BY <1>1 DEF LedgerLines
<1> QED
  BY <1>2 DEF Verify, History, Written, Unreadable

\* The ledger forgets nothing that was written, and repairs no line; what is
\* appended is written, though perhaps onto a line that was cut.
LEMMA LedgerOnlyGrows ==
    ASSUME NEW lines \in Seq(LedgerLines), NEW new \in LedgerLines
    PROVE  LET after == LedgerAppend(lines, new) IN
           /\ after \in Seq(LedgerLines)
           /\ \A v : Written(lines, v) => Written(after, v)
           /\ \A v : Unreadable(lines, v) => Unreadable(after, v)
           /\ new.kind # "event" => \A v \in new.versions : Written(after, v)
<1> DEFINE n == Len(lines)
<1>0. n \in Nat /\ DOMAIN lines = 1..n
  OBVIOUS
<1>1. CASE n > 0 /\ ~lines[n].ended
  <2> DEFINE last == Glue(lines[n], new)
             after == [lines EXCEPT ![n] = last]
  <2>1. LedgerAppend(lines, new) = after
    BY <1>1 DEF LedgerAppend
  <2>2. n \in 1..n /\ lines[n] \in LedgerLines
    BY <1>0, <1>1
  <2>3. /\ last \in LedgerLines
        /\ last.kind \in {"bad", "split"}
        /\ last.versions = lines[n].versions \cup new.versions
    BY <2>2 DEF Glue, LedgerLines
  <2> HIDE DEF last
  <2>4. /\ after \in Seq(LedgerLines) /\ DOMAIN after = 1..n /\ after[n] = last
        /\ \A i \in 1..n : i # n => after[i] = lines[i]
    <3>1. after \in Seq(LedgerLines) /\ DOMAIN after = DOMAIN lines
      BY <1>0, <2>2, <2>3
    <3> QED
      BY <1>0, <2>2, <3>1
  <2> HIDE DEF after
  <2>5. \A v : Written(lines, v) => Written(after, v)
    BY <1>0, <2>2, <2>3, <2>4 DEF Written
  <2>6. \A v : Unreadable(lines, v) => Unreadable(after, v)
    BY <1>0, <2>2, <2>3, <2>4 DEF Unreadable
  <2>7. \A v \in new.versions : Written(after, v)
    BY <2>2, <2>3, <2>4 DEF Written
  <2> QED
    BY <2>1, <2>4, <2>5, <2>6, <2>7
<1>2. CASE ~(n > 0 /\ ~lines[n].ended)
  <2> DEFINE after == Append(lines, new)
  <2>1. LedgerAppend(lines, new) = after
    BY <1>2 DEF LedgerAppend
  <2>2. /\ after \in Seq(LedgerLines) /\ DOMAIN after = 1..(n + 1) /\ after[n + 1] = new
        /\ \A i \in 1..n : after[i] = lines[i]
    BY <1>0
  <2> HIDE DEF after
  <2>3. \A v : Written(lines, v) => Written(after, v)
    BY <1>0, <2>2 DEF Written
  <2>4. \A v : Unreadable(lines, v) => Unreadable(after, v)
    BY <1>0, <2>2 DEF Unreadable
  <2>5. new.kind # "event" => \A v \in new.versions : Written(after, v)
    BY <1>0, <2>2 DEF Written
  <2> QED
    BY <2>1, <2>2, <2>3, <2>4, <2>5
<1> QED
  BY <1>1, <1>2

LEMMA IdentityInitially == IdentityInit => IdentityInv
  BY DEF IdentityInit, IdentityInv

\* A longer ledger leaves what is held written.
LEMMA LedgerStep ==
    ASSUME IdentityInv, NEW new \in LedgerLines,
           ledger' = LedgerAppend(ledger, new)
    PROVE  /\ ledger' \in Seq(LedgerLines)
           /\ \A p \in Processes :
                \/ context[p] \in {Stopped, NoContext}
                \/ IF context[p].integrity_ok THEN Written(ledger', context[p].version)
                   ELSE Unreadable(ledger', context[p].version)
  BY LedgerOnlyGrows DEF IdentityInv

LEMMA CutTypes ==
    ASSUME NEW v \in Versions
    PROVE  /\ BundleLine(v) \in LedgerLines
           /\ CutBundle(BundleLine(v)) \subseteq LedgerLines
           /\ {EventLine} \cup CutEvent(EventLine) \subseteq LedgerLines
<1>1. BundleLine(v) \in LedgerLines /\ EventLine \in LedgerLines
  BY DEF BundleLine, EventLine, LedgerLines
<1>2. ASSUME NEW line \in LedgerLines, NEW k \in {line.kind, "bad", "split"}
      PROVE  [line EXCEPT !.kind = k, !.ended = FALSE] \in LedgerLines
  BY <1>2 DEF LedgerLines
<1> QED
  BY <1>1, <1>2 DEF CutBundle, CutEvent

LEMMA IdentityStep ==
    ASSUME IdentityInv, [IdentityNext]_identityVars
    PROVE  IdentityInv'
<1>1. CASE LogEpoch
  <2>1. PICK event \in {EventLine} \cup CutEvent(EventLine) :
          ledger' = LedgerAppend(ledger, event)
    BY <1>1 DEF LogEpoch
  <2>2. UNCHANGED <<docs, context>>
    BY <1>1 DEF LogEpoch
  <2>3. event \in LedgerLines
    BY <2>1, CutTypes, IdentityAssumption
  <2> QED
    BY <2>1, <2>2, <2>3, LedgerStep DEF IdentityInv
<1>2. CASE EditDocuments
  BY <1>2 DEF EditDocuments, IdentityInv
<1>3. ASSUME NEW p \in Processes, AnchorIdentity(p) PROVE IdentityInv'
  <2>1. /\ context' = [context EXCEPT ![p] = FromBundle(docs, ledger)]
        /\ Verify(ledger, docs) /\ UNCHANGED <<docs, ledger>>
    BY <1>3 DEF AnchorIdentity
  <2>2. FromBundle(docs, ledger).integrity_ok /\ FromBundle(docs, ledger).version = docs
    BY <2>1 DEF FromBundle
  <2>3. Written(ledger, docs)
    BY <2>1, WrittenOrLost DEF IdentityInv
  <2> QED
    BY <2>1, <2>2, <2>3 DEF IdentityInv
<1>4. ASSUME NEW p \in Processes, RecoverIdentity(p) PROVE IdentityInv'
  <2> DEFINE new == BundleLine(docs)
  <2>1. /\ ledger' = LedgerAppend(ledger, new) /\ UNCHANGED docs
        /\ context' = [context EXCEPT ![p] = FromBundle(docs, ledger')]
    BY <1>4 DEF RecoverIdentity, LedgerRebuild
  <2>2. docs \in Versions
    BY <1>4 DEF RecoverIdentity, Asks, ComputeBundle, IdentityInv
  <2>3. new \in LedgerLines /\ new.kind = "bundle" /\ new.versions = {docs}
    BY <2>2, CutTypes DEF BundleLine
  <2> HIDE DEF new
  <2>4. Written(ledger', docs)
    BY <2>1, <2>3, LedgerOnlyGrows DEF IdentityInv
  <2>5. /\ FromBundle(docs, ledger').version = docs
        /\ FromBundle(docs, ledger').integrity_ok = Verify(ledger', docs)
    BY DEF FromBundle
  <2>6. /\ ledger' \in Seq(LedgerLines)
        /\ \A q \in Processes :
                \/ context[q] \in {Stopped, NoContext}
                \/ IF context[q].integrity_ok THEN Written(ledger', context[q].version)
                   ELSE Unreadable(ledger', context[q].version)
    BY <2>1, <2>3, LedgerStep
  <2>7. Verify(ledger', docs) \/ Unreadable(ledger', docs)
    BY <2>4, <2>6, WrittenOrLost
  <2> QED
    BY <2>1, <2>4, <2>5, <2>6, <2>7 DEF IdentityInv
<1>5. ASSUME NEW p \in Processes, RecoveryCut(p) PROVE IdentityInv'
  <2>1. PICK cut \in CutBundle(BundleLine(docs)) : ledger' = LedgerAppend(ledger, cut)
    BY <1>5 DEF RecoveryCut
  <2>2. UNCHANGED <<docs, context>> /\ docs \in Versions
    BY <1>5 DEF RecoveryCut, Asks, ComputeBundle, IdentityInv
  <2>3. cut \in LedgerLines
    BY <2>1, <2>2, CutTypes
  <2> QED
    BY <2>1, <2>2, <2>3, LedgerStep DEF IdentityInv
<1>6. ASSUME NEW p \in Processes, Unrecoverable(p) \/ StopProcess(p) PROVE IdentityInv'
  BY <1>6 DEF Unrecoverable, StopProcess, IdentityInv
<1>7. CASE UNCHANGED identityVars
  BY <1>7 DEF identityVars, IdentityInv
<1> QED
  BY <1>1, <1>2, <1>3, <1>4, <1>5, <1>6, <1>7 DEF IdentityNext

\* However the documents are changed and wherever an append is cut, before its
\* end or inside a character, an identity held to be intact is on record or was
\* glued to a line that was cut, and one held to be altered was.
THEOREM IdentityIsHonest == IdentitySpec => []IntegrityHonest
<1>1. IdentityInv => IntegrityHonest
  <2> SUFFICES ASSUME IdentityInv, NEW c \in Held
               PROVE  /\ c.integrity_ok => Verify(ledger, c.version) \/ Swallowed(c.version)
                      /\ ~c.integrity_ok => Swallowed(c.version)
    BY DEF IntegrityHonest
  <2>1. \A v : Unreadable(ledger, v) <=> Swallowed(v)
    BY DEF Unreadable, Swallowed
  <2>2. \A v : Written(ledger, v) => Verify(ledger, v) \/ Swallowed(v)
    BY <2>1, WrittenOrLost DEF IdentityInv
  <2>3. IF c.integrity_ok THEN Written(ledger, c.version) ELSE Unreadable(ledger, c.version)
    BY DEF IdentityInv, Held, Off
  <2> QED
    BY <2>1, <2>2, <2>3
<1> QED
  BY <1>1, IdentityInitially, IdentityStep, PTL DEF IdentitySpec

-----------------------------------------------------------------------------
(***************************************************************************)
(* The metrics of the checkpoint.                                          *)
(***************************************************************************)
Sources == {"none", "bootstrap", "measured"}
Snapshots == [Metrics -> [value: Nat \cup {Unset}, source: Sources]]

\* A snapshot holds nothing, or a value for each metric; a measured one counts.
Honest(snapshot) ==
    /\ snapshot \in Snapshots
    /\ snapshot = NoMetrics \/ \A m \in Metrics : snapshot[m].value \in Nat
    /\ \A m \in Metrics : snapshot[m].source = "measured" => snapshot[m].value > 0

(* Scores.  A process remembers what the checkpoint holds and its averages *)
(* go on from there.                                                       *)
ScoresInv ==
    /\ open \in BOOLEAN
    /\ Honest(onDisk)
    /\ open =>
        /\ cached = onDisk
        /\ scorer \in [Metrics -> Nat]
        /\ tracker \in [Metrics -> {"bootstrap", "measured"}]
        /\ \A m \in Metrics :
            /\ onDisk[m].value <= scorer[m]
            /\ onDisk[m].source = "measured" => tracker[m] = "measured"
            /\ tracker[m] = "measured" => scorer[m] > 0

LEMMA ScoresInitially == ScoresInit => ScoresInv
<1> SUFFICES ASSUME ScoresInit PROVE ScoresInv
  OBVIOUS
<1>1. Honest(NoMetrics)
  BY DEF Honest, Snapshots, NoMetrics, Missing, Unset, Sources
<1>2. Honest(Unsourced)
  BY DEF Honest, Snapshots, Unsourced, Unset, Sources
<1> QED
  BY <1>1, <1>2 DEF ScoresInit, ScoresInv

\* A process starts from what is on disk, whatever wrote it.
LEMMA StartScoresStep == ASSUME ScoresInv, StartScores PROVE ScoresInv'
<1>1. Honest(onDisk) /\ open' = TRUE /\ cached' = onDisk /\ onDisk' = onDisk
  BY DEF StartScores, ScoresInv
<1>2. CASE Has(onDisk)
  <2>1. scorer' = Restore(onDisk) /\ tracker' = [m \in Metrics |-> RestoredSource(onDisk, m)]
    BY <1>2 DEF StartScores
  <2>2. \A m \in Metrics : onDisk[m].value \in Nat /\ onDisk[m].source \in Sources
    BY <1>1, <1>2 DEF Honest, Has, Snapshots
  <2>3. \A m \in Metrics : /\ scorer'[m] = onDisk[m].value
                           /\ tracker'[m] = RestoredSource(onDisk, m)
                           /\ RestoredSource(onDisk, m) \in {"bootstrap", "measured"}
                           /\ RestoredSource(onDisk, m) = "measured" <=> onDisk[m].source = "measured"
    BY <2>1, <2>2 DEF Restore, RestoredSource, Sources
  <2>4. scorer' \in [Metrics -> Nat] /\ tracker' \in [Metrics -> {"bootstrap", "measured"}]
    BY <2>1, <2>2, <2>3 DEF Restore
  <2>5. \A m \in Metrics : onDisk[m].source = "measured" => onDisk[m].value > 0
    BY <1>1 DEF Honest
  <2> QED
    BY <1>1, <2>2, <2>3, <2>4, <2>5 DEF ScoresInv
<1>3. CASE ~Has(onDisk)
  <2>1. scorer' = Seeds0 /\ tracker' = [m \in Metrics |-> "bootstrap"] /\ onDisk = NoMetrics
    BY <1>3 DEF StartScores, Has
  <2> QED
    BY <1>1, <2>1 DEF ScoresInv, Seeds0, NoMetrics, Missing, Unset
<1> QED
  BY <1>2, <1>3

LEMMA MeasureStep == ASSUME ScoresInv, ChatEvolve PROVE ScoresInv'
<1>1. /\ scorer' = [m \in Metrics |-> scorer[m] + 1] /\ tracker' = [m \in Metrics |-> "measured"]
      /\ open /\ UNCHANGED <<open, cached, onDisk>>
  BY DEF ChatEvolve
<1>2. \A m \in Metrics : /\ scorer[m] \in Nat /\ onDisk[m].value <= scorer[m]
                         /\ onDisk[m].value \in Nat \cup {-1}
  BY <1>1 DEF ScoresInv, Honest, Snapshots, Unset
<1>3. ASSUME NEW m \in Metrics
      PROVE  onDisk[m].value <= scorer[m] + 1 /\ scorer[m] + 1 > 0 /\ scorer[m] + 1 \in Nat
  <2> HIDE DEF ScoresInv
  <2>1. /\ scorer[m] \in Nat /\ onDisk[m].value <= scorer[m]
        /\ onDisk[m].value \in Int
    BY <1>2
  <2> QED
    BY <2>1
<1> QED
  BY <1>1, <1>3 DEF ScoresInv

\* What a session or the loop saves has the averages as they are.
LEMMA SaveScoresStep ==
    ASSUME ScoresInv, SaveScores
    PROVE  /\ ScoresInv'
           /\ \A m \in Metrics : /\ onDisk'[m].value = scorer[m]
                                 /\ onDisk'[m].source = tracker[m]
<1>1. /\ open /\ onDisk' = BuildSnapshot /\ cached' = BuildSnapshot
      /\ UNCHANGED <<open, scorer, tracker>>
  BY DEF SaveScores, SnapshotKept
<1>2. \A m \in Metrics : /\ scorer[m] \in Nat /\ tracker[m] \in {"bootstrap", "measured"}
                         /\ tracker[m] = "measured" => scorer[m] > 0
  BY <1>1 DEF ScoresInv
<1>3. BuildSnapshot = [m \in Metrics |-> [value |-> scorer[m], source |-> tracker[m]]]
  BY <1>2 DEF BuildSnapshot
<1>4. Honest(BuildSnapshot)
  BY <1>2, <1>3 DEF Honest, Snapshots, Sources
<1> QED
  BY <1>1, <1>2, <1>3, <1>4 DEF ScoresInv

LEMMA ScoresStep == ASSUME ScoresInv, [ScoresNext]_scoresVars PROVE ScoresInv'
<1>1. CASE HeartbeatSave
  <2>1. onDisk' = onDisk /\ UNCHANGED <<open, scorer, tracker, cached>>
    BY <1>1 DEF HeartbeatSave, ScoresInv, Has
  <2> QED
    BY <2>1 DEF ScoresInv
<1>2. CASE StopScores
  BY <1>2 DEF StopScores, ScoresInv
<1>3. CASE UNCHANGED scoresVars
  BY <1>3 DEF scoresVars, ScoresInv
<1> QED
  BY <1>1, <1>2, <1>3, StartScoresStep, MeasureStep, SaveScoresStep DEF ScoresNext

\* Whoever saves and after whatever restart, the averages on disk never lose a
\* measurement, measured never becomes a seed, and a seed never passes for
\* measured.
THEOREM MeasurementsStay == ScoresSpec => MetricsKept
<1> DEFINE Kept ==
        \A m \in Metrics :
            /\ onDisk'[m].value >= onDisk[m].value
            /\ onDisk[m].source = "measured" =>
                onDisk'[m].source = "measured" /\ (open' => tracker'[m] = "measured")
            /\ onDisk'[m].source = "measured" => onDisk'[m].value > 0
<1>1. ASSUME ScoresInv, [ScoresNext]_scoresVars PROVE Kept
  <2>1. ScoresInv'
    BY <1>1, ScoresStep
  <2>2. \A m \in Metrics :
          /\ onDisk[m].value \in Nat \cup {-1}
          /\ onDisk'[m].source = "measured" => onDisk'[m].value > 0
          /\ onDisk[m].source = "measured" /\ open' /\ onDisk' = onDisk
                => tracker'[m] = "measured"
    BY <1>1, <2>1 DEF ScoresInv, Honest, Snapshots, Unset
  <2>3. CASE onDisk' = onDisk
    BY <2>2, <2>3
  <2>4. CASE SaveScores
    <3>1. open /\ open' = open /\ tracker' = tracker
      BY <2>4 DEF SaveScores
    <3>2. \A m \in Metrics : /\ onDisk'[m].value = scorer[m] /\ onDisk'[m].source = tracker[m]
      BY <1>1, <2>4, SaveScoresStep
    <3>3. \A m \in Metrics : /\ onDisk[m].value <= scorer[m] /\ scorer[m] \in Nat
                             /\ onDisk[m].source = "measured" => tracker[m] = "measured"
      BY <1>1, <3>1 DEF ScoresInv
    <3> QED
      BY <2>2, <3>1, <3>2, <3>3
  <2>5. onDisk' = onDisk \/ SaveScores
    BY <1>1 DEF ScoresNext, StartScores, ChatEvolve, HeartbeatSave, StopScores, scoresVars, ScoresInv, Has
  <2> QED
    BY <2>3, <2>4, <2>5
<1>2. ScoresInv /\ [ScoresNext]_scoresVars => [Kept]_scoresVars
  BY <1>1
<1> QED
  BY <1>2, ScoresInitially, ScoresStep, PTL DEF ScoresSpec, MetricsKept
=============================================================================
