---------------------------- MODULE MCArchives ----------------------------
(* The memories of chat turns are all alike, and so are the collections.   *)
EXTENDS Archives, TLC

Alike == Permutations(Seeds) \cup Permutations(GCs)
=============================================================================
