------------------------------ MODULE Archives ------------------------------
(***************************************************************************)
(* The collection after a dream, ChatSession._run_gc: old dream files and  *)
(* faint memories move from files of their own (hot) into a compressed     *)
(* archive (cold).                                                         *)
(*                                                                         *)
(* DreamCycle.archive_old_dreams runs on the event loop, so one at a time. *)
(* MemoryManager.archive_cold is left to a worker thread with              *)
(* ensure_future, so a second dream may start another one beside it.  Each *)
(* reads the whole archive, removes the files one by one as it appends     *)
(* them to its copy, and writes the copy back at the end.                  *)
(*                                                                         *)
(* A failure is a crash of the process, an archive that cannot be read or  *)
(* written, or a file that cannot be removed.                              *)
(***************************************************************************)
EXTENDS Integers, Sequences, SequencesExt, FiniteSets

CONSTANTS
    Insights,       \* dream files of earlier versions, in insights/
    Seeds,          \* memories of chat turns
    Branches,       \* memories of dreams
    GCs,            \* collections under way at a time
    ArchiveFaults,         \* the failures that may happen
    MaxFaults       \* bound on their number

ASSUME ArchivesAssumption ==
    /\ Insights \cap Seeds = {} /\ Insights \cap Branches = {}
    /\ Seeds \cap Branches = {}
    /\ ArchiveFaults \subseteq {"crash", "read", "write", "unlink"}
    /\ MaxFaults \in Nat

VARIABLES
    hot,            \* entries that have a file of their own
    faint,          \* entries below the threshold of resonance, or 30 days old
    cold,           \* the two archives
    gc,             \* where each collection is
    written,        \* history: the entries ever written
    failures,         \* history: failures, and "overlap" of two collections
    faults          \* history: how many failures

archivesVars == <<hot, faint, cold, gc, written, failures, faults>>

Entries == Insights \cup Seeds \cup Branches
Stores == {"dreams", "memory"}

(* memory.levels, those that are written *)
Levels == <<Seeds, Branches>>

(* level: how many levels are listed; kept: the archive with what was      *)
(* appended; taken: archived > 0.                                          *)
NoCollection == [at |-> "idle", level |-> 0, todo |-> {}, kept |-> <<>>,
         taken |-> FALSE]

(* A collection is "dreams" or "memory" while it goes through the files of *)
(* that store, and Unlinking(s) between an append and the removal.         *)
Unlinking(s) == IF s = "dreams" THEN "dreams unlink" ELSE "memory unlink"

Running(s) == {g \in GCs : gc[g].at \in {s, Unlinking(s)}}

ArchivesTypeOK ==
    /\ hot \subseteq Entries /\ faint \subseteq Entries
    /\ written \subseteq Entries
    /\ cold \in [Stores -> Seq(Entries)]
    /\ gc \in [GCs ->
         [at : {"idle", "dreams", "dreams unlink", "queued", "memory",
                "memory unlink"},
          level : 0..Len(Levels), todo : SUBSET Entries, kept : Seq(Entries),
          taken : BOOLEAN]]
    /\ failures \subseteq {"crash", "read", "write", "unlink", "overlap"}
    /\ faults \in 0..MaxFaults

ArchivesInit ==
    /\ hot = Insights /\ written = Insights
    /\ faint = {}
    /\ cold = [s \in Stores |-> <<>>]
    /\ gc = [g \in GCs |-> NoCollection]
    /\ failures = {}
    /\ faults = 0

Fails(kind) ==
    /\ kind \in ArchiveFaults /\ faults < MaxFaults
    /\ faults' = faults + 1

-----------------------------------------------------------------------------
(* The writers.                                                            *)

(* _write_sync: a temporary file and a rename.                             *)
Write(e) ==
    /\ e \notin written
    /\ hot' = hot \cup {e} /\ written' = written \cup {e}
    /\ UNCHANGED <<cold, gc, failures, faults>>

(* _persist_turn gives no resonance, so a seed is faint from the start.    *)
PersistTurn(e) ==
    /\ e \in Seeds /\ Write(e)
    /\ faint' = faint \cup {e}

(* A dream's drift from psi0 decides the resonance of its branches.        *)
PersistInsight(e) ==
    /\ e \in Branches /\ Write(e)
    /\ faint' \in {faint, faint \cup {e}}

(* The file turns 30 days old.                                             *)
Age(e) ==
    /\ e \in (hot \cap Insights) \ faint
    /\ faint' = faint \cup {e}
    /\ UNCHANGED <<hot, cold, gc, written, failures, faults>>

-----------------------------------------------------------------------------
(* What both archivers do.                                                 *)

(* Mutant of ReadArchive: the archive is written anew at each collection.  *)
ReadNothing(s, kept) == kept = <<>> /\ UNCHANGED <<failures, faults>>

(* An archive that cannot be read counts as empty.                         *)
ReadArchive(s, kept) ==
    LET overlap == IF Running(s) # {} THEN {"overlap"} ELSE {} IN
    \/ /\ kept = cold[s]
       /\ failures' = failures \cup overlap /\ UNCHANGED faults
    \/ /\ cold[s] # <<>>
       /\ Fails("read") /\ failures' = failures \cup overlap \cup {"read"}
       /\ kept = <<>>

(* The files of a directory that go to the archive.                        *)
Listing(directory) == directory \cap hot \cap faint

(* The content of a file is read and appended; a file that is gone, or     *)
(* cannot be parsed, is passed over.                                       *)
Take(g, s, e) ==
    /\ gc[g].at = s /\ e \in gc[g].todo
    /\ gc' = IF e \in hot
             THEN [gc EXCEPT ![g].at = Unlinking(s), ![g].kept = Append(@, e)]
             ELSE [gc EXCEPT ![g].todo = @ \ {e}]
    /\ UNCHANGED <<hot, faint, cold, written, failures, faults>>

(* path.unlink() of the file just appended; archive_old_dreams does not    *)
(* count a file it could not remove, archive_cold does.                    *)
Unlink(g, s) ==
    /\ gc[g].at = Unlinking(s)
    /\ LET e == Last(gc[g].kept)
           next(counts) == [gc EXCEPT ![g].at = s, ![g].todo = @ \ {e},
                                      ![g].taken = @ \/ counts]
       IN  \/ /\ hot' = hot \ {e}
              /\ gc' = next(TRUE)
              /\ UNCHANGED <<failures, faults>>
           \/ /\ e \in hot
              /\ Fails("unlink") /\ failures' = failures \cup {"unlink"}
              /\ gc' = next(s = "memory")
              /\ UNCHANGED hot
    /\ UNCHANGED <<faint, cold, written>>

(* The copy replaces the archive, if there is anything new in it.          *)
WriteArchive(g, s) ==
    \/ /\ cold' = IF gc[g].taken THEN [cold EXCEPT ![s] = gc[g].kept] ELSE cold
       /\ UNCHANGED <<failures, faults>>
    \/ /\ gc[g].taken
       /\ Fails("write") /\ failures' = failures \cup {"write"}
       /\ UNCHANGED cold

-----------------------------------------------------------------------------
(* One collection.                                                         *)

(* _finalize_dream_v2 calls _run_gc, on the event loop.                    *)
RunGC(g) ==
    /\ gc[g].at = "idle" /\ Running("dreams") = {}
    /\ \E kept \in {cold["dreams"], <<>>} :
         /\ ReadArchive("dreams", kept)
         /\ gc' = [gc EXCEPT ![g] = [NoCollection EXCEPT !.at = "dreams", !.kept = kept,
                                                 !.todo = Listing(Insights)]]
    /\ UNCHANGED <<hot, faint, cold, written>>

(* Whether or not the write succeeds, archive_cold is scheduled.           *)
DreamsArchived(g) ==
    /\ gc[g].at = "dreams" /\ gc[g].todo = {}
    /\ WriteArchive(g, "dreams")
    /\ gc' = [gc EXCEPT ![g] = [NoCollection EXCEPT !.at = "queued"]]
    /\ UNCHANGED <<hot, faint, written>>

(* _archive_cold_sync in its thread.                                       *)
ArchiveCold(g) ==
    /\ gc[g].at = "queued"
    /\ \E kept \in {cold["memory"], <<>>} :
         /\ ReadArchive("memory", kept)
         /\ gc' = [gc EXCEPT ![g] = [NoCollection EXCEPT !.at = "memory", !.kept = kept]]
    /\ UNCHANGED <<hot, faint, cold, written>>

NextLevel(g) ==
    /\ gc[g].at = "memory" /\ gc[g].todo = {} /\ gc[g].level < Len(Levels)
    /\ gc' = [gc EXCEPT ![g].level = @ + 1,
                        ![g].todo = Listing(Levels[gc[g].level + 1])]
    /\ UNCHANGED <<hot, faint, cold, written, failures, faults>>

MemoryArchived(g) ==
    /\ gc[g].at = "memory" /\ gc[g].todo = {} /\ gc[g].level = Len(Levels)
    /\ WriteArchive(g, "memory")
    /\ gc' = [gc EXCEPT ![g] = NoCollection]
    /\ UNCHANGED <<hot, faint, written>>

(* The process dies and starts again; a death between two collections      *)
(* leaves everything as it is.                                             *)
CollectorsDie ==
    /\ \E g \in GCs : gc[g].at # "idle"
    /\ Fails("crash") /\ failures' = failures \cup {"crash"}
    /\ gc' = [g \in GCs |-> NoCollection]
    /\ UNCHANGED <<hot, faint, cold, written>>

ArchivesNext ==
    \/ \E e \in Entries : PersistTurn(e) \/ PersistInsight(e) \/ Age(e)
    \/ \E g \in GCs :
         \/ RunGC(g) \/ DreamsArchived(g)
         \/ ArchiveCold(g) \/ NextLevel(g) \/ MemoryArchived(g)
         \/ \E s \in Stores : Unlink(g, s) \/ \E e \in Entries : Take(g, s, e)
    \/ CollectorsDie

ArchivesSpec == ArchivesInit /\ [][ArchivesNext]_archivesVars

-----------------------------------------------------------------------------
(* Properties.                                                             *)

Archived == Range(cold["dreams"]) \cup Range(cold["memory"])

InHands == UNION {Range(gc[g].kept) : g \in GCs}

(* "Memories are NEVER deleted" (memory_manager.py:273), "ZERO DELETION"   *)
(* (dream_cycle.py:345): an entry once written is in its file, in the      *)
(* archive or on its way there.                                            *)
NeverErased == written \subseteq hot \cup Archived \cup InHands

(* The promise holds as long as no process dies in a collection, every     *)
(* archive can be read and written and no two collections overlap; that a  *)
(* file cannot be removed does it no harm.                                 *)
OnlyFailuresErase ==
    failures \cap {"crash", "read", "write", "overlap"} = {} => NeverErased

(* Crashes and failed writes lose what a collection had in hand at most:   *)
(* what an archive holds it keeps, unless an archive could not be read or  *)
(* two collections overlap.                                                *)
ArchiveOnlyGrows ==
    [][failures' \cap {"read", "overlap"} = {} =>
         \A s \in Stores : Range(cold[s]) \subseteq Range(cold'[s])]_archivesVars

(* An entry that is neither faint nor old stays where search finds it.     *)
VividStays == written \ faint \subseteq hot
=============================================================================
