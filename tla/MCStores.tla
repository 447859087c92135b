------------------------------ MODULE MCStores ------------------------------
(* What Luna keeps on disk: the fractal memory with its archives, the chat *)
(* history, the backups, the ledger of who she is, the metrics of her      *)
(* checkpoint, and what chat and daemon hand each other through the disk.  *)
(* The first state chooses the store that moves.                           *)
EXTENDS Archives, ChatHistory, Backups, Identity, Scores, Handoff, TLC

VARIABLE part

storesVars ==
    <<archivesVars, historyVars, backupVars, identityVars, scoresVars,
      handoffVars, part>>

StoresInit ==
    /\ ArchivesInit /\ HistoryInit /\ BackupsInit /\ IdentityInit /\ ScoresInit
    /\ HandoffInit
    /\ part \in {"archives", "history", "backups", "identity", "scores", "handoff"}
    /\ part # "identity" => docs = CHOOSE v \in Versions : TRUE
    /\ part # "scores" => onDisk = NoMetrics
    /\ part # "handoff" => tmux = CHOOSE t \in Machines : TRUE

Others(name) ==
    /\ IF name = "archives" THEN TRUE ELSE UNCHANGED archivesVars
    /\ IF name = "history" THEN TRUE ELSE UNCHANGED historyVars
    /\ IF name = "backups" THEN TRUE ELSE UNCHANGED backupVars
    /\ IF name = "identity" THEN TRUE ELSE UNCHANGED identityVars
    /\ IF name = "scores" THEN TRUE ELSE UNCHANGED scoresVars
    /\ IF name = "handoff" THEN TRUE ELSE UNCHANGED handoffVars

StoresNext ==
    /\ UNCHANGED part
    /\ Others(part)
    /\ \/ part = "archives" /\ ArchivesNext
       \/ part = "history" /\ HistoryNext
       \/ part = "backups" /\ BackupsNext
       \/ part = "identity" /\ IdentityNext
       \/ part = "scores" /\ ScoresNext
       \/ part = "handoff" /\ HandoffNext

StoresSpec == StoresInit /\ [][StoresNext]_storesVars

(* The memories of chat turns are all alike, and so are the collections.   *)
Alike == Permutations(Seeds) \cup Permutations(GCs)
=============================================================================
