------------------------------ MODULE Backups ------------------------------
(***************************************************************************)
(* StateBackup: archives of the state files, the rolling window, and the   *)
(* restore command, a process of its own that asks nobody whether Luna     *)
(* runs.  A backup is taken on the event loop, while worker threads go on  *)
(* writing.  A file's content, size and time of change are one stamp,      *)
(* which a restore brings back with the content.                           *)
(***************************************************************************)
EXTENDS Naturals, Sequences, FiniteSets

CONSTANTS
    StateFiles,     \* number of critical files, in the order of their paths
    MaxBackups,     \* max_backups
    MaxStamp,       \* bound: writes of state files
    MaxMade         \* bound: archives made

ASSUME BackupAssumption ==
    /\ {StateFiles, MaxBackups} \subseteq Nat \ {0}
    /\ {MaxStamp, MaxMade} \subseteq Nat

VARIABLES
    running,        \* a Luna process is up
    stamps,         \* stamp of each state file
    lastStamp,      \* the last stamp given
    backup,         \* create_backup: "idle", "archive", "listed" or "roll"
    hash,           \* the stamps hashed when the backup began
    lastHash,       \* _last_content_hash, <<>> when there is none
    taken,          \* stamps archived so far, 0 for a file passed over
    archives,       \* content of the archives made, oldest first
    place,          \* where each of them is: backups/ or backups/archive/
    rolling,        \* what the rolling window still has to move
    restoring,      \* the files the restore command still has to extract, with their content
    missed,         \* history: files that some backup could not read
    crowded         \* history: the last roll did not move all it should

backupVars == <<running, stamps, lastStamp, backup, hash, lastHash, taken, archives, place,
                rolling, restoring, missed, crowded>>
processVars == <<running, stamps, lastStamp, restoring>>
storeVars == <<archives, place>>

CriticalFiles == 1 .. StateFiles
Made == 1 .. Len(archives)
InDir == {a \in Made : place[a] = "backups"}

-----------------------------------------------------------------------------
(* A backup.                                                               *)

\* Unchanged since the last one: nothing happens.
CreateBackup ==
    /\ running /\ backup = "idle" /\ Len(archives) < MaxMade
    /\ stamps # lastHash
    /\ hash' = stamps
    /\ taken' = <<>>
    /\ backup' = "archive"
    /\ UNCHANGED <<processVars, storeVars, lastHash, rolling, missed, crowded>>

\* A file that cannot be read is passed over.
WriteBackup ==
    /\ backup = "archive" /\ Len(taken) < StateFiles
    /\ LET f == Len(taken) + 1 IN
       \/ taken' = Append(taken, stamps[f]) /\ UNCHANGED missed
       \/ taken' = Append(taken, 0) /\ missed' = missed \cup {f}
    /\ UNCHANGED <<processVars, storeVars, backup, hash, lastHash, rolling, crowded>>

\* The temporary file is removed and nothing is remembered.
ArchiveFails ==
    /\ backup = "archive"
    /\ backup' = "idle" /\ hash' = <<>> /\ taken' = <<>>
    /\ UNCHANGED <<processVars, storeVars, lastHash, rolling, missed, crowded>>

\* Mutant of Remembered: the hash is taken when the archive is complete.
RememberedLate == stamps

\* What the archive is taken to hold.
Remembered == hash

RenameArchive ==
    /\ backup = "archive" /\ Len(taken) = StateFiles
    /\ archives' = Append(archives, taken)
    /\ place' = Append(place, "backups")
    /\ lastHash' = Remembered
    /\ hash' = <<>> /\ taken' = <<>>
    /\ backup' = "listed"
    /\ UNCHANGED <<processVars, rolling, missed, crowded>>

\* Mutant of Exceeding: the list is taken to begin with the oldest.
ExceedingNewest(dir) == {a \in dir : Cardinality({b \in dir : b < a}) >= MaxBackups}

\* list_backups has the newest first; what follows the first max_backups.
Exceeding(dir) == {a \in dir : Cardinality({b \in dir : b > a}) >= MaxBackups}

\* The list is made once; the metadata beside each archive are read by nobody.
EnforceRollingWindow ==
    /\ backup = "listed"
    /\ rolling' = Exceeding(InDir)
    /\ crowded' = FALSE
    /\ backup' = IF rolling' = {} THEN "idle" ELSE "roll"
    /\ UNCHANGED <<processVars, storeVars, hash, lastHash, taken, missed>>

\* The newest of them first; one that cannot be moved is left where it is.
RollArchive ==
    /\ backup = "roll"
    /\ \E a \in rolling :
        /\ \A b \in rolling : b <= a
        /\ \/ place' = [place EXCEPT ![a] = "archive"] /\ UNCHANGED crowded
           \/ crowded' = TRUE /\ UNCHANGED place
        /\ rolling' = rolling \ {a}
    /\ backup' = IF rolling' = {} THEN "idle" ELSE "roll"
    /\ UNCHANGED <<processVars, hash, lastHash, taken, archives, missed>>

-----------------------------------------------------------------------------
(* What happens around it.                                                 *)

\* The process, one of its threads, or somebody else writes a state file.
WriteState ==
    /\ lastStamp < MaxStamp
    /\ lastStamp' = lastStamp + 1
    /\ \E f \in CriticalFiles : stamps' = [stamps EXCEPT ![f] = lastStamp']
    /\ UNCHANGED <<running, restoring, storeVars, backup, hash, lastHash, taken, rolling, missed, crowded>>

\* The hash of the last backup is only in memory.
KillProcess ==
    /\ running
    /\ running' = FALSE
    /\ backup' = "idle" /\ rolling' = {}
    /\ hash' = <<>> /\ lastHash' = <<>> /\ taken' = <<>>
    /\ crowded' = (crowded \/ backup \in {"listed", "roll"})
    /\ UNCHANGED <<stamps, lastStamp, restoring, storeVars, missed>>

StartProcess ==
    /\ ~running
    /\ running' = TRUE
    /\ UNCHANGED <<stamps, lastStamp, restoring, storeVars, backup, hash, lastHash, taken, rolling, missed, crowded>>

\* The latest of the directory, or any archive by its path; only one user restores.
RestoreFrom ==
    /\ DOMAIN restoring = {}
    /\ \E a \in Made :
         restoring' = [f \in {g \in CriticalFiles : archives[a][g] # 0} |-> archives[a][f]]
    /\ UNCHANGED <<running, stamps, lastStamp, storeVars, backup, hash, lastHash, taken, rolling, missed, crowded>>

\* Files are extracted one by one; an error or a kill leaves the rest as it is.
ExtractFile ==
    /\ \E f \in DOMAIN restoring :
        /\ \A g \in DOMAIN restoring : f <= g
        /\ \/ /\ stamps' = [stamps EXCEPT ![f] = restoring[f]]
              /\ restoring' = [g \in DOMAIN restoring \ {f} |-> restoring[g]]
           \/ restoring' = <<>> /\ UNCHANGED stamps
    /\ UNCHANGED <<running, lastStamp, storeVars, backup, hash, lastHash, taken, rolling, missed, crowded>>

BackupsInit ==
    /\ running = FALSE
    /\ stamps = [f \in CriticalFiles |-> 1] /\ lastStamp = 1
    /\ backup = "idle" /\ hash = <<>> /\ lastHash = <<>> /\ taken = <<>>
    /\ archives = <<>> /\ place = <<>>
    /\ rolling = {} /\ restoring = <<>>
    /\ missed = {} /\ crowded = FALSE

BackupsNext ==
    \/ CreateBackup \/ WriteBackup \/ ArchiveFails \/ RenameArchive
    \/ EnforceRollingWindow \/ RollArchive
    \/ WriteState \/ KillProcess \/ StartProcess \/ RestoreFrom \/ ExtractFile

BackupsSpec == BackupsInit /\ [][BackupsNext]_backupVars

BackupsTypeOK ==
    /\ DOMAIN stamps = CriticalFiles /\ \A f \in CriticalFiles : stamps[f] \in 1 .. lastStamp
    /\ Len(place) = Len(archives) /\ \A a \in Made : Len(archives[a]) = StateFiles
    /\ backup = "idle" => rolling = {}

-----------------------------------------------------------------------------
(* Properties.                                                             *)

(* A backup that is skipped since nothing changed is not missing: whoever  *)
(* wrote or restored meanwhile, each file's content is in some archive,    *)
(* unless a backup could not read the file.                                *)
SkippedIsSaved ==
    lastHash = stamps =>
        \A f \in CriticalFiles \ missed : \E a \in Made : archives[a][f] = stamps[f]

(* The window holds the newest: what restore_latest takes is the last that *)
(* was made, whatever was killed; and once a roll has moved all it should, *)
(* the last max_backups lie in the directory and the others are archived.  *)
NewestStayNear ==
    /\ Made # {} => Len(archives) \in InDir
    /\ backup = "idle" /\ ~crowded => InDir = {a \in Made : a + MaxBackups > Len(archives)}

(* Whoever wants an older state back finds what the backups promise.       *)
RestoreFindsIt == SkippedIsSaved /\ NewestStayNear
=============================================================================
