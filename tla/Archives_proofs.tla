--------------------------- MODULE Archives_proofs ---------------------------
(***************************************************************************)
(* What a collection moves to the archives, for any sets of entries and    *)
(* collections and any number of failures.                                 *)
(***************************************************************************)
EXTENDS Archives, TLAPS

-----------------------------------------------------------------------------
(* Sequences and their ranges.                                             *)

LEMMA RangeEmpty == Range(<<>>) = {}
  BY DEF Range

LEMMA RangeIn == ASSUME NEW S, NEW s \in Seq(S) PROVE Range(s) \subseteq S
  BY DEF Range

LEMMA RangeAppend ==
  ASSUME NEW S, NEW s \in Seq(S), NEW e \in S
  PROVE  /\ Append(s, e) \in Seq(S)
         /\ Append(s, e) # <<>>
         /\ Range(Append(s, e)) = Range(s) \cup {e}
         /\ Last(Append(s, e)) = e
<1>1. Append(s, e) \in Seq(S) /\ Append(s, e) # <<>> /\ Last(Append(s, e)) = e
  BY DEF Last
<1>2. /\ DOMAIN Append(s, e) = 1 .. Len(s) + 1
      /\ DOMAIN s = 1 .. Len(s)
      /\ Len(s) \in Nat
      /\ \A i \in 1 .. Len(s) : Append(s, e)[i] = s[i]
      /\ Append(s, e)[Len(s) + 1] = e
  OBVIOUS
<1>3. Range(s) \cup {e} \subseteq Range(Append(s, e))
  BY <1>2 DEF Range
<1>4. Range(Append(s, e)) \subseteq Range(s) \cup {e}
  <2> SUFFICES ASSUME NEW i \in 1 .. Len(s) + 1
               PROVE  Append(s, e)[i] \in Range(s) \cup {e}
    BY <1>2 DEF Range
  <2>1. CASE i = Len(s) + 1
    BY <2>1, <1>2
  <2>2. CASE i # Len(s) + 1
    BY <2>2, <1>2 DEF Range
  <2> QED
    BY <2>1, <2>2
<1> QED
  BY <1>1, <1>3, <1>4

LEMMA LastInRange ==
  ASSUME NEW S, NEW s \in Seq(S), s # <<>>
  PROVE  Last(s) \in Range(s)
<1>1. Len(s) \in DOMAIN s
  OBVIOUS
<1> QED
  BY <1>1 DEF Last, Range

-----------------------------------------------------------------------------
(* Types.                                                                  *)

Collection ==
    [at : {"idle", "dreams", "dreams unlink", "queued", "memory",
           "memory unlink"},
     level : 0..Len(Levels), todo : SUBSET Entries, kept : Seq(Entries),
     taken : BOOLEAN]

LEMMA IdleIsCollection == NoCollection \in Collection
  BY DEF NoCollection, Collection, Levels

Kinds == {"crash", "read", "write", "unlink", "overlap"}

LEMMA TypeInit == ArchivesInit => ArchivesTypeOK
<1> SUFFICES ASSUME ArchivesInit PROVE ArchivesTypeOK
  OBVIOUS
<1>1. cold \in [Stores -> Seq(Entries)]
  BY DEF ArchivesInit
<1>2. gc \in [GCs -> Collection]
  BY IdleIsCollection DEF ArchivesInit
<1>3. hot \subseteq Entries /\ faint \subseteq Entries /\ written \subseteq Entries
  BY DEF ArchivesInit, Entries
<1>4. failures = {} /\ faults \in 0..MaxFaults
  BY ArchivesAssumption DEF ArchivesInit
<1> QED
  BY <1>1, <1>2, <1>3, <1>4 DEF ArchivesTypeOK, Collection

LEMMA Typed ==
  ASSUME ArchivesTypeOK
  PROVE  /\ hot \subseteq Entries /\ faint \subseteq Entries
         /\ written \subseteq Entries
         /\ cold \in [Stores -> Seq(Entries)]
         /\ gc \in [GCs -> Collection]
         /\ failures \subseteq Kinds
         /\ faults \in 0..MaxFaults
  BY DEF ArchivesTypeOK, Collection, Kinds

LEMMA FaultType ==
  ASSUME ArchivesTypeOK, NEW kind, Fails(kind)
  PROVE  faults' \in 0..MaxFaults
  BY ArchivesAssumption, Typed DEF Fails

LEMMA ReadType ==
  ASSUME ArchivesTypeOK, NEW s \in Stores, NEW kept, ReadArchive(s, kept)
  PROVE  kept \in Seq(Entries) /\ failures' \subseteq Kinds /\ faults' \in 0..MaxFaults
<1> DEFINE overlap == IF Running(s) # {} THEN {"overlap"} ELSE {}
<1>1. cold[s] \in Seq(Entries) /\ <<>> \in Seq(Entries) /\ failures \subseteq Kinds
  BY Typed
<1>2. overlap \subseteq Kinds
  BY DEF Kinds
<1>3. CASE kept = cold[s] /\ failures' = failures \cup overlap /\ UNCHANGED faults
  BY <1>1, <1>2, <1>3, Typed
<1>4. CASE Fails("read") /\ failures' = failures \cup overlap \cup {"read"} /\ kept = <<>>
  BY <1>1, <1>2, <1>4, FaultType DEF Kinds
<1> QED
  BY <1>3, <1>4 DEF ReadArchive

LEMMA WriteType ==
  ASSUME ArchivesTypeOK, NEW g \in GCs, NEW s \in Stores, WriteArchive(g, s)
  PROVE  /\ cold' \in [Stores -> Seq(Entries)]
         /\ failures' \subseteq Kinds
         /\ faults' \in 0..MaxFaults
<1>1. /\ cold \in [Stores -> Seq(Entries)]
      /\ gc[g].kept \in Seq(Entries)
      /\ failures \subseteq Kinds
      /\ faults \in 0..MaxFaults
  BY DEF ArchivesTypeOK, Kinds
<1>2. CASE Fails("write") /\ failures' = failures \cup {"write"} /\ UNCHANGED cold
  BY <1>1, <1>2, FaultType DEF Kinds
<1>3. CASE /\ cold' = IF gc[g].taken THEN [cold EXCEPT ![s] = gc[g].kept] ELSE cold
           /\ UNCHANGED <<failures, faults>>
  BY <1>1, <1>3
<1> QED
  BY <1>2, <1>3 DEF WriteArchive

LEMMA TypeStep == ArchivesTypeOK /\ [ArchivesNext]_archivesVars => ArchivesTypeOK'
<1> SUFFICES ASSUME ArchivesTypeOK, [ArchivesNext]_archivesVars PROVE ArchivesTypeOK'
  OBVIOUS
<1> USE ArchivesAssumption
<1>g. gc \in [GCs -> Collection]
  BY DEF ArchivesTypeOK, Collection
<1>t. ArchivesTypeOK' <=> /\ (hot \subseteq Entries /\ faint \subseteq Entries)'
                  /\ (written \subseteq Entries)'
                  /\ cold' \in [Stores -> Seq(Entries)]
                  /\ gc' \in [GCs -> Collection]
                  /\ failures' \subseteq Kinds
                  /\ faults' \in 0..MaxFaults
  BY DEF ArchivesTypeOK, Collection, Kinds
<1>1. ASSUME NEW e \in Entries, PersistTurn(e) \/ PersistInsight(e) \/ Age(e)
      PROVE  ArchivesTypeOK'
  BY <1>1, <1>t DEF ArchivesTypeOK, Collection, PersistTurn, PersistInsight, Write, Age
<1>2. ASSUME NEW g \in GCs, RunGC(g) PROVE ArchivesTypeOK'
  <2>1. PICK kept \in {cold["dreams"], <<>>} :
          /\ ReadArchive("dreams", kept)
          /\ gc' = [gc EXCEPT ![g] = [NoCollection EXCEPT !.at = "dreams", !.kept = kept,
                                                  !.todo = Listing(Insights)]]
    BY <1>2 DEF RunGC
  <2>2. [NoCollection EXCEPT !.at = "dreams", !.kept = kept, !.todo = Listing(Insights)]
          \in Collection
    BY <2>1, ReadType, IdleIsCollection DEF Stores, Collection, Listing, ArchivesTypeOK
  <2> QED
    BY <1>2, <1>g, <1>t, <2>1, <2>2, ReadType DEF RunGC, ArchivesTypeOK, Stores
<1>3. ASSUME NEW g \in GCs, DreamsArchived(g) PROVE ArchivesTypeOK'
  <2>1. [NoCollection EXCEPT !.at = "queued"] \in Collection
    BY IdleIsCollection DEF Collection
  <2> QED
    BY <1>3, <1>g, <1>t, <2>1, WriteType DEF DreamsArchived, ArchivesTypeOK, Stores
<1>4. ASSUME NEW g \in GCs, ArchiveCold(g) PROVE ArchivesTypeOK'
  <2>1. PICK kept \in {cold["memory"], <<>>} :
          /\ ReadArchive("memory", kept)
          /\ gc' = [gc EXCEPT ![g] = [NoCollection EXCEPT !.at = "memory", !.kept = kept]]
    BY <1>4 DEF ArchiveCold
  <2>2. [NoCollection EXCEPT !.at = "memory", !.kept = kept] \in Collection
    BY <2>1, ReadType, IdleIsCollection DEF Stores, Collection
  <2> QED
    BY <1>4, <1>g, <1>t, <2>1, <2>2, ReadType DEF ArchiveCold, ArchivesTypeOK, Stores
<1>5. ASSUME NEW g \in GCs, NextLevel(g) PROVE ArchivesTypeOK'
  <2> DEFINE level == gc[g].level + 1
             c == [gc[g] EXCEPT !.level = level, !.todo = Listing(Levels[level])]
  <2>1. level \in 0..Len(Levels)
    <3>1. gc[g].level \in 0..Len(Levels) /\ gc[g].level < Len(Levels) /\ Len(Levels) = 2
      BY <1>5, <1>g DEF NextLevel, Collection, Levels
    <3> QED
      BY <3>1
  <2>2. Listing(Levels[level]) \subseteq Entries
    BY Typed DEF Listing
  <2>3. c \in Collection
    BY <1>g, <2>1, <2>2 DEF Collection
  <2>4. gc' = [gc EXCEPT ![g] = c]
    BY <1>5, <1>g DEF NextLevel, Collection
  <2> QED
    BY <1>5, <1>g, <1>t, <2>3, <2>4, Typed DEF NextLevel
<1>6. ASSUME NEW g \in GCs, MemoryArchived(g) PROVE ArchivesTypeOK'
  BY <1>6, <1>g, <1>t, IdleIsCollection, WriteType
  DEF MemoryArchived, ArchivesTypeOK, Stores
<1>7. ASSUME NEW g \in GCs, NEW s \in Stores, Unlink(g, s) PROVE ArchivesTypeOK'
  <2> DEFINE e == Last(gc[g].kept)
             next(counts) == [gc[g] EXCEPT !.at = s, !.todo = @ \ {e},
                                           !.taken = @ \/ counts]
  <2>1. \A counts \in BOOLEAN : next(counts) \in Collection
    BY <1>g DEF Collection, Stores
  <2>2. PICK counts \in BOOLEAN : gc' = [gc EXCEPT ![g] = next(counts)]
    BY <1>7, <1>g DEF Unlink, Collection
  <2>3. hot' \subseteq Entries
    BY <1>7, Typed DEF Unlink
  <2>4. failures' \subseteq Kinds /\ faults' \in 0..MaxFaults
    BY <1>7, Typed, FaultType DEF Unlink, Kinds
  <2> QED
    BY <1>7, <1>g, <1>t, <2>1, <2>2, <2>3, <2>4, Typed DEF Unlink
<1>8. ASSUME NEW g \in GCs, NEW s \in Stores, NEW e \in Entries, Take(g, s, e)
      PROVE  ArchivesTypeOK'
  <2> DEFINE c == IF e \in hot
                  THEN [gc[g] EXCEPT !.at = Unlinking(s),
                                     !.kept = Append(gc[g].kept, e)]
                  ELSE [gc[g] EXCEPT !.todo = gc[g].todo \ {e}]
  <2>1. Append(gc[g].kept, e) \in Seq(Entries)
    BY <1>g, RangeAppend DEF Collection
  <2>2. c \in Collection
    BY <1>g, <2>1 DEF Collection, Stores, Unlinking
  <2>3. gc' = [gc EXCEPT ![g] = c]
    BY <1>8, <1>g DEF Take, Collection
  <2> QED
    BY <1>8, <1>g, <1>t, <2>2, <2>3, Typed DEF Take
<1>9. CASE CollectorsDie
  <2>1. gc' \in [GCs -> Collection]
    BY <1>9, IdleIsCollection DEF CollectorsDie
  <2>2. failures' \subseteq Kinds /\ faults' \in 0..MaxFaults
    BY <1>9, Typed, FaultType DEF CollectorsDie, Kinds
  <2> QED
    BY <1>9, <1>t, <2>1, <2>2, Typed DEF CollectorsDie
<1>10. CASE UNCHANGED archivesVars
  BY <1>10 DEF archivesVars, ArchivesTypeOK
<1> QED
  BY <1>1, <1>2, <1>3, <1>4, <1>5, <1>6, <1>7, <1>8, <1>9, <1>10 DEF ArchivesNext

(* The stores, the archives and the collections keep their types, whatever *)
(* fails and however many collections overlap.                             *)
THEOREM ArchivesTypeCorrect == ArchivesSpec => []ArchivesTypeOK
  BY TypeInit, TypeStep, PTL DEF ArchivesSpec

-----------------------------------------------------------------------------
(* Each action as a change of one collection.                              *)

Others(g) == \A h \in GCs \ {g} : gc'[h] = gc[h]

LEMMA RunGCFields ==
  ASSUME ArchivesTypeOK, NEW g \in GCs, RunGC(g)
  PROVE  /\ Others(g)
         /\ gc'[g].at = "dreams" /\ gc'[g].todo = Listing(Insights)
         /\ gc'[g].taken = FALSE
         /\ gc'[g].kept \in {cold["dreams"], <<>>}
         /\ ReadArchive("dreams", gc'[g].kept)
  BY Typed DEF RunGC, NoCollection, Others, Collection

LEMMA ArchiveColdFields ==
  ASSUME ArchivesTypeOK, NEW g \in GCs, ArchiveCold(g)
  PROVE  /\ Others(g)
         /\ gc'[g].at = "memory" /\ gc'[g].todo = {}
         /\ gc'[g].taken = FALSE
         /\ gc'[g].kept \in {cold["memory"], <<>>}
         /\ ReadArchive("memory", gc'[g].kept)
  BY Typed DEF ArchiveCold, NoCollection, Others, Collection

LEMMA NextLevelFields ==
  ASSUME ArchivesTypeOK, NEW g \in GCs, NextLevel(g)
  PROVE  /\ Others(g)
         /\ gc'[g].at = "memory" /\ gc'[g].todo \subseteq (Seeds \cup Branches) \cap faint
         /\ gc'[g].taken = gc[g].taken
         /\ gc'[g].kept = gc[g].kept
<1>1. /\ gc[g].level \in 0..2 /\ gc[g].level < 2 /\ Len(Levels) = 2
      /\ Levels[1] = Seeds /\ Levels[2] = Branches
  BY Typed DEF NextLevel, Collection, Levels
<1>2. gc[g].level + 1 \in {1, 2}
  BY <1>1
<1>3. Listing(Levels[gc[g].level + 1]) \subseteq (Seeds \cup Branches) \cap faint
  BY <1>1, <1>2 DEF Listing
<1> QED
  BY <1>3, Typed DEF NextLevel, Others, Collection

LEMMA TakeFields ==
  ASSUME ArchivesTypeOK, NEW g \in GCs, NEW s \in Stores, NEW e \in Entries,
         Take(g, s, e)
  PROVE  /\ Others(g)
         /\ gc'[g].taken = gc[g].taken
         /\ gc'[g].todo \subseteq gc[g].todo
         /\ \/ /\ e \in hot
               /\ gc'[g].at = Unlinking(s)
               /\ gc'[g].kept = Append(gc[g].kept, e)
            \/ gc'[g].at = s /\ gc'[g].kept = gc[g].kept
<1>1. CASE e \in hot
  BY <1>1, Typed DEF Take, Others, Collection
<1>2. CASE e \notin hot
  BY <1>2, Typed DEF Take, Others, Collection
<1> QED
  BY <1>1, <1>2

LEMMA UnlinkFields ==
  ASSUME ArchivesTypeOK, NEW g \in GCs, NEW s \in Stores, Unlink(g, s)
  PROVE  /\ Others(g)
         /\ gc'[g].at = s
         /\ gc'[g].todo \subseteq gc[g].todo
         /\ gc'[g].kept = gc[g].kept
         /\ \/ /\ hot' = hot \ {Last(gc[g].kept)}
               /\ gc'[g].taken = TRUE
               /\ UNCHANGED failures
            \/ /\ Last(gc[g].kept) \in hot
               /\ UNCHANGED hot
               /\ failures' = failures \cup {"unlink"}
               /\ s = "memory" => gc'[g].taken
               /\ gc[g].taken => gc'[g].taken
<1> DEFINE next(counts) ==
      [gc EXCEPT ![g].at = s, ![g].todo = @ \ {Last(gc[g].kept)},
                 ![g].taken = @ \/ counts]
<1>1. ASSUME NEW counts \in BOOLEAN, gc' = next(counts)
      PROVE  /\ Others(g)
             /\ gc'[g].at = s
             /\ gc'[g].todo \subseteq gc[g].todo
             /\ gc'[g].kept = gc[g].kept
             /\ gc'[g].taken = (gc[g].taken \/ counts)
  BY <1>1, Typed DEF Others, Collection
<1>2. CASE hot' = hot \ {Last(gc[g].kept)} /\ gc' = next(TRUE) /\ UNCHANGED <<failures, faults>>
  BY <1>2, <1>1
<1>3. CASE /\ Last(gc[g].kept) \in hot /\ UNCHANGED hot
           /\ failures' = failures \cup {"unlink"} /\ gc' = next(s = "memory")
  BY <1>3, <1>1
<1> QED
  BY <1>2, <1>3 DEF Unlink

-----------------------------------------------------------------------------
(* What a collection handles.                                              *)

Of(s) == IF s = "dreams" THEN Insights ELSE Seeds \cup Branches

(* All a collection has in hand at a store is faint and of its kind, and   *)
(* what it removes is what it has appended last.                           *)
Handled(g, s) ==
    gc[g].at \in {s, Unlinking(s)} =>
        /\ gc[g].todo \subseteq Of(s) \cap faint
        /\ Range(gc[g].kept) \subseteq Of(s) \cap faint
        /\ gc[g].at = Unlinking(s) => gc[g].kept # <<>>

Rests(g) == gc[g].at \in {"idle", "queued"} => gc[g].kept = <<>>

Shelved(s) == Range(cold[s]) \subseteq Of(s) \cap faint

VividInv ==
    /\ ArchivesTypeOK
    /\ \A s \in Stores : Shelved(s)
    /\ \A g \in GCs : Rests(g)
    /\ \A g \in GCs, s \in Stores : Handled(g, s)
    /\ VividStays

LEMMA VividInit == ArchivesInit => VividInv
<1> SUFFICES ASSUME ArchivesInit PROVE VividInv
  OBVIOUS
<1>1. ArchivesTypeOK
  BY TypeInit
<1>2. \A s \in Stores : Shelved(s)
  BY RangeEmpty DEF ArchivesInit, Shelved
<1>3. \A g \in GCs : gc[g].at = "idle" /\ gc[g].kept = <<>>
  BY DEF ArchivesInit, NoCollection
<1>4. \A g \in GCs, s \in Stores : Rests(g) /\ Handled(g, s)
  BY <1>3 DEF Rests, Handled, Unlinking, Stores
<1>5. VividStays
  BY DEF ArchivesInit, VividStays
<1> QED
  BY <1>1, <1>2, <1>3, <1>4, <1>5 DEF VividInv, Rests

(* The collections that do not move keep what they have.                   *)
LEMMA OthersHandled ==
  ASSUME VividInv, NEW g \in GCs, Others(g), faint \subseteq faint',
         NEW h \in GCs \ {g}, NEW s \in Stores
  PROVE  Handled(h, s)' /\ Rests(h)'
  BY DEF VividInv, Others, Handled, Rests, Of

LEMMA VividStep == VividInv /\ [ArchivesNext]_archivesVars => VividInv'
<1> SUFFICES ASSUME VividInv, [ArchivesNext]_archivesVars PROVE VividInv'
  OBVIOUS
<1>t. ArchivesTypeOK /\ ArchivesTypeOK'
  BY TypeStep DEF VividInv
<1>u. Stores = {"dreams", "memory"}
  BY DEF Stores
<1>1. ASSUME NEW e \in Entries, PersistTurn(e) \/ PersistInsight(e) \/ Age(e)
      PROVE  VividInv'
  <2>1. faint \subseteq faint' /\ UNCHANGED <<cold, gc>>
    BY <1>1 DEF PersistTurn, PersistInsight, Write, Age
  <2>2. VividStays'
    BY <1>1 DEF VividInv, VividStays, PersistTurn, PersistInsight, Write, Age
  <2> QED
    BY <1>t, <2>1, <2>2 DEF VividInv, Shelved, Rests, Handled, Of
<1>2. ASSUME NEW g \in GCs, RunGC(g) PROVE VividInv'
  <2>1. UNCHANGED <<hot, faint, cold, written>>
    BY <1>2 DEF RunGC
  <2>2. Handled(g, "dreams")' /\ Handled(g, "memory")' /\ Rests(g)'
    BY <1>t, <1>2, <2>1, RunGCFields, RangeEmpty
    DEF VividInv, Shelved, Handled, Rests, Listing, Of, Stores, Unlinking
  <2> QED
    BY <1>t, <1>u, <1>2, <2>1, <2>2, RunGCFields, OthersHandled
    DEF VividInv, Shelved, VividStays, Of
<1>3. ASSUME NEW g \in GCs, DreamsArchived(g) PROVE VividInv'
  <2>1. UNCHANGED <<hot, faint, written>>
    BY <1>3 DEF DreamsArchived
  <2>2. Others(g) /\ gc'[g].at = "queued" /\ gc'[g].kept = <<>>
    BY <1>t, <1>3, Typed DEF DreamsArchived, NoCollection, Others, Collection
  <2>3. Handled(g, "dreams")' /\ Handled(g, "memory")' /\ Rests(g)'
    BY <2>2 DEF Handled, Rests, Unlinking
  <2>4. \A s \in Stores : Shelved(s)'
    BY <1>t, <1>3, <2>1, Typed
    DEF VividInv, DreamsArchived, WriteArchive, Shelved, Handled, Of, Stores
  <2> QED
    BY <1>t, <1>u, <2>1, <2>2, <2>3, <2>4, OthersHandled DEF VividInv, VividStays
<1>4. ASSUME NEW g \in GCs, ArchiveCold(g) PROVE VividInv'
  <2>1. UNCHANGED <<hot, faint, cold, written>>
    BY <1>4 DEF ArchiveCold
  <2>2. Handled(g, "dreams")' /\ Handled(g, "memory")' /\ Rests(g)'
    BY <1>t, <1>4, <2>1, ArchiveColdFields, RangeEmpty
    DEF VividInv, Shelved, Handled, Rests, Of, Stores, Unlinking
  <2> QED
    BY <1>t, <1>u, <1>4, <2>1, <2>2, ArchiveColdFields, OthersHandled
    DEF VividInv, Shelved, VividStays, Of
<1>5. ASSUME NEW g \in GCs, NextLevel(g) PROVE VividInv'
  <2>1. UNCHANGED <<hot, faint, cold, written>> /\ gc[g].at = "memory"
    BY <1>5 DEF NextLevel
  <2>2. Handled(g, "dreams")' /\ Handled(g, "memory")' /\ Rests(g)'
    BY <1>t, <1>5, <2>1, NextLevelFields
    DEF VividInv, Handled, Rests, Of, Stores, Unlinking
  <2> QED
    BY <1>t, <1>u, <1>5, <2>1, <2>2, NextLevelFields, OthersHandled
    DEF VividInv, Shelved, VividStays, Of
<1>6. ASSUME NEW g \in GCs, MemoryArchived(g) PROVE VividInv'
  <2>1. UNCHANGED <<hot, faint, written>>
    BY <1>6 DEF MemoryArchived
  <2>2. Others(g) /\ gc'[g].at = "idle" /\ gc'[g].kept = <<>>
    BY <1>t, <1>6, Typed DEF MemoryArchived, NoCollection, Others
  <2>3. Handled(g, "dreams")' /\ Handled(g, "memory")' /\ Rests(g)'
    BY <2>2 DEF Handled, Rests, Unlinking
  <2>4. \A s \in Stores : Shelved(s)'
    BY <1>t, <1>6, <2>1, Typed
    DEF VividInv, MemoryArchived, WriteArchive, Shelved, Handled, Of, Stores
  <2> QED
    BY <1>t, <1>u, <2>1, <2>2, <2>3, <2>4, OthersHandled DEF VividInv, VividStays
<1>7. ASSUME NEW g \in GCs, NEW s \in Stores, Unlink(g, s) PROVE VividInv'
  <2>1. UNCHANGED <<faint, cold, written>> /\ gc[g].at = Unlinking(s)
    BY <1>7 DEF Unlink
  <2>2. Last(gc[g].kept) \in faint
    <3>1. gc[g].kept \in Seq(Entries) /\ gc[g].kept # <<>>
          /\ Range(gc[g].kept) \subseteq faint
      BY <1>t, <2>1, Typed DEF VividInv, Handled, Collection
    <3> QED
      BY <3>1, LastInRange
  <2>3. VividStays'
    BY <1>t, <1>7, <2>1, <2>2, UnlinkFields DEF VividInv, VividStays
  <2>4. Handled(g, "dreams")' /\ Handled(g, "memory")' /\ Rests(g)'
    BY <1>t, <1>7, <2>1, UnlinkFields
    DEF VividInv, Handled, Rests, Of, Stores, Unlinking
  <2> QED
    BY <1>t, <1>u, <1>7, <2>1, <2>3, <2>4, UnlinkFields, OthersHandled
    DEF VividInv, Shelved, Of
<1>8. ASSUME NEW g \in GCs, NEW s \in Stores, NEW e \in Entries, Take(g, s, e)
      PROVE  VividInv'
  <2>1. /\ UNCHANGED <<hot, faint, cold, written>>
        /\ gc[g].at = s /\ e \in gc[g].todo /\ gc[g].kept \in Seq(Entries)
    BY <1>t, <1>8, Typed DEF Take, Collection
  <2>2. /\ Range(Append(gc[g].kept, e)) = Range(gc[g].kept) \cup {e}
        /\ Append(gc[g].kept, e) # <<>>
    BY <2>1, RangeAppend
  <2>3. Handled(g, "dreams")' /\ Handled(g, "memory")' /\ Rests(g)'
    BY <1>t, <1>8, <2>1, <2>2, TakeFields
    DEF VividInv, Handled, Rests, Of, Stores, Unlinking
  <2> QED
    BY <1>t, <1>u, <1>8, <2>1, <2>3, TakeFields, OthersHandled
    DEF VividInv, Shelved, VividStays, Of
<1>9. CASE CollectorsDie
  <2>1. UNCHANGED <<hot, faint, cold, written>>
    BY <1>9 DEF CollectorsDie
  <2>2. \A g \in GCs : gc'[g].at = "idle" /\ gc'[g].kept = <<>>
    BY <1>9 DEF CollectorsDie, NoCollection
  <2>3. \A g \in GCs, s \in Stores : Rests(g)' /\ Handled(g, s)'
    BY <2>2 DEF Rests, Handled, Unlinking, Stores
  <2> QED
    BY <1>t, <1>u, <2>1, <2>3 DEF VividInv, Shelved, VividStays, Of
<1>10. CASE UNCHANGED archivesVars
  BY <1>t, <1>10 DEF archivesVars, VividInv, Shelved, Rests, Handled, Of, VividStays
<1> QED
  BY <1>1, <1>2, <1>3, <1>4, <1>5, <1>6, <1>7, <1>8, <1>9, <1>10 DEF ArchivesNext

(* An entry that is neither faint nor old keeps its file, whatever fails   *)
(* and however many collections overlap.                                   *)
THEOREM ArchivesVividStay == ArchivesSpec => []VividStays
<1>1. VividInv => VividStays
  BY DEF VividInv
<1> QED
  BY <1>1, VividInit, VividStep, PTL DEF ArchivesSpec

-----------------------------------------------------------------------------
(* Without an unreadable archive and without overlapping collections one   *)
(* collection at a time is at a store, and its copy has all the archive    *)
(* holds.                                                                  *)

Legible == failures \cap {"read", "overlap"} = {}

At(g, s) == gc[g].at \in {s, Unlinking(s)}

Alone(s) == \A g, h \in GCs : At(g, s) /\ At(h, s) => g = h

CopyHolds(g, s) == At(g, s) => Range(cold[s]) \subseteq Range(gc[g].kept)

GrowInv ==
    /\ VividInv
    /\ Legible => \A s \in Stores : Alone(s) /\ \A g \in GCs : CopyHolds(g, s)

Grows == \A s \in Stores : Range(cold[s]) \subseteq Range(cold'[s])

LEMMA GrowInit == ArchivesInit => GrowInv
<1> SUFFICES ASSUME ArchivesInit PROVE GrowInv
  OBVIOUS
<1>1. \A g \in GCs : gc[g].at = "idle"
  BY DEF ArchivesInit, NoCollection
<1>2. \A g \in GCs, s \in Stores : ~At(g, s)
  BY <1>1 DEF At, Unlinking, Stores
<1> QED
  BY <1>2, VividInit DEF GrowInv, Alone, CopyHolds

LEMMA FailuresStay == ArchivesTypeOK /\ [ArchivesNext]_archivesVars => failures \subseteq failures'
  BY DEF ArchivesNext, archivesVars, PersistTurn, PersistInsight, Write, Age, RunGC, ReadArchive,
         DreamsArchived, WriteArchive, ArchiveCold, NextLevel, MemoryArchived,
         Unlink, Take, CollectorsDie

(* A legible start of a collection at a store nobody is at.                *)
LEMMA LegibleRead ==
  ASSUME GrowInv, NEW s \in Stores, NEW kept, ReadArchive(s, kept),
         failures \subseteq failures', Legible'
  PROVE  kept = cold[s] /\ \A g \in GCs : ~At(g, s)
<1>1. kept = cold[s] /\ failures' = failures \cup (IF Running(s) # {} THEN {"overlap"} ELSE {})
  BY DEF ReadArchive, Legible
<1>2. Running(s) = {}
  BY <1>1 DEF Legible
<1> QED
  BY <1>1, <1>2 DEF Running, At

(* The end of a collection: its copy replaces the archive.                 *)
LEMMA LegibleWrite ==
  ASSUME GrowInv, Legible, NEW g \in GCs, NEW s \in Stores, At(g, s),
         WriteArchive(g, s)
  PROVE  /\ Grows
         /\ \A t \in Stores \ {s} : cold'[t] = cold[t]
<1>1. cold \in [Stores -> Seq(Entries)] /\ Range(cold[s]) \subseteq Range(gc[g].kept)
  BY Typed DEF GrowInv, VividInv, CopyHolds
<1> QED
  BY <1>1 DEF WriteArchive, Grows

LEMMA GrowStep == GrowInv /\ [ArchivesNext]_archivesVars => GrowInv' /\ (Legible' => Grows)
<1> SUFFICES ASSUME GrowInv, [ArchivesNext]_archivesVars, Legible'
             PROVE  (\A s \in Stores : Alone(s)' /\ \A g \in GCs : CopyHolds(g, s)') /\ Grows
  BY VividStep DEF GrowInv
<1>t. ArchivesTypeOK /\ ArchivesTypeOK' /\ VividInv /\ VividInv'
  BY VividStep DEF GrowInv, VividInv
<1>f. failures \subseteq failures' /\ Legible
  BY <1>t, FailuresStay DEF Legible
<1>u. \A s \in Stores : Alone(s) /\ \A g \in GCs : CopyHolds(g, s)
  BY <1>f DEF GrowInv
<1>v. Stores = {"dreams", "memory"}
  BY DEF Stores
<1>1. ASSUME NEW e \in Entries, PersistTurn(e) \/ PersistInsight(e) \/ Age(e)
      PROVE  UNCHANGED <<cold, gc>>
  BY <1>1 DEF PersistTurn, PersistInsight, Write, Age
<1>2. CASE UNCHANGED <<cold, gc>>
  BY <1>2, <1>u DEF Alone, CopyHolds, At, Grows
<1>3. ASSUME NEW g \in GCs, NEW s \in Stores, UNCHANGED cold, Others(g),
             gc'[g].at = s, gc'[g].kept = cold[s], \A h \in GCs : ~At(h, s)
      PROVE  (\A t \in Stores : Alone(t)' /\ \A h \in GCs : CopyHolds(h, t)') /\ Grows
  <2>1. \A t \in Stores : At(g, t)' => t = s
    BY <1>3, <1>v DEF At, Unlinking
  <2>2. \A h \in GCs, t \in Stores :
          At(h, t)' => (h = g /\ t = s) \/ (h # g /\ t # s /\ At(h, t))
    BY <1>3, <2>1 DEF At, Others
  <2> QED
    BY <1>3, <1>u, <2>2 DEF Alone, CopyHolds, Others, Grows
<1>4. ASSUME NEW g \in GCs, NEW s \in Stores, UNCHANGED cold, Others(g),
             At(g, s), At(g, s)', Range(gc[g].kept) \subseteq Range(gc'[g].kept)
      PROVE  (\A t \in Stores : Alone(t)' /\ \A h \in GCs : CopyHolds(h, t)') /\ Grows
  <2>1. \A h \in GCs, t \in Stores : At(h, t)' => At(h, t)
    <3>1. \A t \in Stores : At(g, t)' => t = s
      BY <1>4, <1>v DEF At, Unlinking
    <3> QED
      BY <1>4, <3>1 DEF At, Others
  <2>2. \A h \in GCs : Range(gc[h].kept) \subseteq Range(gc'[h].kept)
    BY <1>4 DEF Others
  <2> QED
    BY <1>4, <1>u, <2>1, <2>2 DEF Alone, CopyHolds, Grows
<1>5. ASSUME NEW g \in GCs, NEW s \in Stores, At(g, s), WriteArchive(g, s),
             Others(g), gc'[g].at \in {"idle", "queued"}
      PROVE  (\A t \in Stores : Alone(t)' /\ \A h \in GCs : CopyHolds(h, t)') /\ Grows
  <2>1. Grows /\ \A t \in Stores \ {s} : cold'[t] = cold[t]
    BY <1>5, <1>f, LegibleWrite
  <2>2. \A t \in Stores : ~At(g, t)'
    BY <1>5, <1>v DEF At, Unlinking
  <2>3. \A h \in GCs : ~At(h, s)'
    BY <1>5, <1>u, <2>2 DEF Alone, At, Others
  <2> QED
    BY <1>5, <1>u, <2>1, <2>2, <2>3 DEF Alone, CopyHolds, At, Others
<1>6. ASSUME NEW g \in GCs, RunGC(g) PROVE UNCHANGED cold /\ gc'[g].kept = cold["dreams"]
                                           /\ \A h \in GCs : ~At(h, "dreams")
  BY <1>6, <1>t, <1>f, <1>v, RunGCFields, LegibleRead DEF RunGC
<1>7. ASSUME NEW g \in GCs, ArchiveCold(g) PROVE UNCHANGED cold /\ gc'[g].kept = cold["memory"]
                                           /\ \A h \in GCs : ~At(h, "memory")
  BY <1>7, <1>t, <1>f, <1>v, ArchiveColdFields, LegibleRead DEF ArchiveCold
<1>8. ASSUME NEW g \in GCs, RunGC(g) \/ ArchiveCold(g)
      PROVE  (\A t \in Stores : Alone(t)' /\ \A h \in GCs : CopyHolds(h, t)') /\ Grows
  <2>1. CASE RunGC(g)
    BY <2>1, <1>t, <1>v, <1>6, <1>3, RunGCFields
  <2>2. CASE ArchiveCold(g)
    BY <2>2, <1>t, <1>v, <1>7, <1>3, ArchiveColdFields
  <2> QED
    BY <1>8, <2>1, <2>2
<1>9. ASSUME NEW g \in GCs, NextLevel(g)
      PROVE  (\A t \in Stores : Alone(t)' /\ \A h \in GCs : CopyHolds(h, t)') /\ Grows
  <2>1. UNCHANGED cold /\ At(g, "memory") /\ At(g, "memory")'
    BY <1>9, <1>t, NextLevelFields DEF NextLevel, At
  <2> QED
    BY <1>9, <1>t, <1>v, <2>1, <1>4, NextLevelFields
<1>10. ASSUME NEW g \in GCs, NEW s \in Stores, NEW e \in Entries, Take(g, s, e)
       PROVE  (\A t \in Stores : Alone(t)' /\ \A h \in GCs : CopyHolds(h, t)') /\ Grows
  <2>1. UNCHANGED cold /\ At(g, s) /\ At(g, s)'
    BY <1>10, <1>t, TakeFields DEF Take, At
  <2>2. gc[g].kept \in Seq(Entries)
    BY <1>t, Typed DEF Collection
  <2>3. Range(gc[g].kept) \subseteq Range(gc'[g].kept)
    <3>1. Range(Append(gc[g].kept, e)) = Range(gc[g].kept) \cup {e}
      BY <2>2, RangeAppend
    <3>2. gc'[g].kept \in {gc[g].kept, Append(gc[g].kept, e)}
      BY <1>10, <1>t, TakeFields
    <3> QED
      BY <3>1, <3>2
  <2> QED
    BY <1>10, <1>t, <2>1, <2>3, <1>4, TakeFields
<1>11. ASSUME NEW g \in GCs, NEW s \in Stores, Unlink(g, s)
       PROVE  (\A t \in Stores : Alone(t)' /\ \A h \in GCs : CopyHolds(h, t)') /\ Grows
  <2>1. UNCHANGED cold /\ At(g, s) /\ At(g, s)'
    BY <1>11, <1>t, UnlinkFields DEF Unlink, At
  <2> QED
    BY <1>11, <1>t, <2>1, <1>4, UnlinkFields
<1>12. ASSUME NEW g \in GCs, DreamsArchived(g) \/ MemoryArchived(g)
       PROVE  (\A t \in Stores : Alone(t)' /\ \A h \in GCs : CopyHolds(h, t)') /\ Grows
  <2>1. Others(g) /\ gc'[g].at \in {"idle", "queued"}
    <3>1. CASE DreamsArchived(g)
      BY <3>1, <1>t, Typed DEF DreamsArchived, NoCollection, Others
    <3>2. CASE MemoryArchived(g)
      BY <3>2, <1>t, Typed DEF MemoryArchived, NoCollection, Others
    <3> QED
      BY <1>12, <3>1, <3>2
  <2>2. \/ At(g, "dreams") /\ WriteArchive(g, "dreams")
        \/ At(g, "memory") /\ WriteArchive(g, "memory")
    BY <1>12 DEF DreamsArchived, MemoryArchived, At
  <2> QED
    BY <1>v, <2>1, <2>2, <1>5
<1>13. CASE CollectorsDie
  <2>1. UNCHANGED cold /\ \A g \in GCs : gc'[g].at = "idle"
    BY <1>13 DEF CollectorsDie, NoCollection
  <2> QED
    BY <2>1, <1>v DEF Alone, CopyHolds, At, Grows, Unlinking
<1>14. CASE UNCHANGED archivesVars
  BY <1>14, <1>2 DEF archivesVars
<1> QED
  BY <1>1, <1>2, <1>8, <1>9, <1>10, <1>11, <1>12, <1>13, <1>14 DEF ArchivesNext

(* What an archive holds it keeps, through crashes, failed writes and      *)
(* files that cannot be removed, until an archive cannot be read or two    *)
(* collections overlap.                                                    *)
THEOREM ArchivesOnlyGrow == ArchivesSpec => ArchiveOnlyGrows
<1>1. GrowInv /\ [ArchivesNext]_archivesVars => [Legible' => Grows]_archivesVars
  BY GrowStep
<1>2. (Legible' => Grows) <=> (failures' \cap {"read", "overlap"} = {} =>
         \A s \in Stores : Range(cold[s]) \subseteq Range(cold'[s]))
  BY DEF Legible, Grows
<1>3. GrowInv /\ [ArchivesNext]_archivesVars =>
        [failures' \cap {"read", "overlap"} = {} =>
         \A s \in Stores : Range(cold[s]) \subseteq Range(cold'[s])]_archivesVars
  BY <1>1, <1>2
<1>4. GrowInv /\ [ArchivesNext]_archivesVars => GrowInv'
  BY GrowStep
<1> QED
  BY <1>3, <1>4, GrowInit, PTL DEF ArchivesSpec, ArchiveOnlyGrows

-----------------------------------------------------------------------------
(* Nothing is lost as long as only removals fail.                          *)

Sound == failures \cap {"crash", "read", "write", "overlap"} = {}

(* What a collection has appended without counting it still has its file.  *)
Untaken(g, s) ==
    At(g, s) /\ ~gc[g].taken => Range(gc[g].kept) \subseteq Range(cold[s]) \cup hot

LossInv ==
    /\ GrowInv
    /\ Sound => NeverErased /\ \A g \in GCs, s \in Stores : Untaken(g, s)

LEMMA LossInit == ArchivesInit => LossInv
<1> SUFFICES ASSUME ArchivesInit PROVE LossInv
  OBVIOUS
<1>1. \A g \in GCs : gc[g].at = "idle"
  BY DEF ArchivesInit, NoCollection
<1>2. \A g \in GCs, s \in Stores : ~At(g, s)
  BY <1>1 DEF At, Unlinking, Stores
<1>3. NeverErased
  BY DEF ArchivesInit, NeverErased
<1> QED
  BY <1>2, <1>3, GrowInit DEF LossInv, Untaken

(* An entry that leaves the hands of a collection that moves leaves those  *)
(* of that collection only.                                                *)
LEMMA Hands ==
  ASSUME NEW g \in GCs, Others(g)
  PROVE  /\ InHands \subseteq InHands' \cup Range(gc[g].kept)
         /\ Range(gc'[g].kept) \subseteq InHands'
         /\ Range(gc[g].kept) \subseteq InHands
<1>1. \A x : x \in InHands <=> \E h \in GCs : x \in Range(gc[h].kept)
  BY DEF InHands
<1>2. \A x : x \in InHands' <=> \E h \in GCs : x \in Range(gc'[h].kept)
  BY DEF InHands
<1> QED
  BY <1>1, <1>2 DEF Others

(* A collection that moves without losing anything from its hands, and     *)
(* without an archive losing anything.                                     *)
LEMMA NothingLost ==
  ASSUME NeverErased, Grows, NEW g \in GCs, Others(g), written' = written,
         hot \subseteq hot' \cup Range(gc'[g].kept),
         Range(gc[g].kept) \subseteq hot' \cup Archived' \cup Range(gc'[g].kept)
  PROVE  NeverErased'
<1>1. Archived \subseteq Archived'
  BY DEF Archived, Grows, Stores
<1> QED
  BY <1>1, Hands DEF NeverErased

LEMMA LossStep == LossInv /\ [ArchivesNext]_archivesVars => LossInv'
<1> SUFFICES ASSUME LossInv, [ArchivesNext]_archivesVars, Sound'
             PROVE  NeverErased' /\ \A g \in GCs, s \in Stores : Untaken(g, s)'
  BY GrowStep DEF LossInv
<1>t. ArchivesTypeOK /\ VividInv /\ GrowInv /\ VividInv' /\ GrowInv'
  BY GrowStep DEF LossInv, GrowInv, VividInv
<1>f. failures \subseteq failures' /\ Sound /\ Legible /\ Legible'
  BY <1>t, FailuresStay DEF Sound, Legible
<1>g. Grows
  BY <1>t, <1>f, GrowStep
<1>u. NeverErased /\ \A g \in GCs, s \in Stores : Untaken(g, s)
  BY <1>f DEF LossInv
<1>v. Stores = {"dreams", "memory"}
  BY DEF Stores
<1>a. \A s \in Stores : Alone(s) /\ \A g \in GCs : CopyHolds(g, s)
  BY <1>t, <1>f DEF GrowInv
<1>1. ASSUME NEW e \in Entries, PersistTurn(e) \/ PersistInsight(e) \/ Age(e)
      PROVE  NeverErased' /\ \A g \in GCs, s \in Stores : Untaken(g, s)'
  <2>1. UNCHANGED <<cold, gc>> /\ hot \subseteq hot' /\ written' \subseteq written \cup hot'
    BY <1>1 DEF PersistTurn, PersistInsight, Write, Age
  <2> QED
    BY <1>u, <2>1 DEF NeverErased, Untaken, At, Archived, InHands
<1>2. ASSUME NEW g \in GCs, NEW s \in Stores, UNCHANGED <<hot, cold>>, Others(g),
             \A t \in Stores : At(g, t)' => t = s, Untaken(g, s)'
      PROVE  \A h \in GCs, t \in Stores : Untaken(h, t)'
  BY <1>2, <1>u DEF Untaken, At, Others
<1>3. ASSUME NEW g \in GCs, RunGC(g) \/ ArchiveCold(g)
      PROVE  NeverErased' /\ \A h \in GCs, s \in Stores : Untaken(h, s)'
  <2>1. UNCHANGED <<hot, cold, written>> /\ gc[g].at \in {"idle", "queued"}
    BY <1>3 DEF RunGC, ArchiveCold
  <2>2. Others(g)
    BY <1>3, <1>t, RunGCFields, ArchiveColdFields
  <2>3. Range(gc[g].kept) = {}
    BY <1>t, <2>1, RangeEmpty DEF VividInv, Rests
  <2>4. PICK s \in Stores : gc'[g].at = s /\ gc'[g].kept \in {cold[s], <<>>}
    BY <1>3, <1>t, <1>v, RunGCFields, ArchiveColdFields
  <2>5. Untaken(g, s)'
    BY <2>1, <2>4, RangeEmpty DEF Untaken
  <2>6. \A t \in Stores : At(g, t)' => t = s
    BY <2>4, <1>v DEF At, Unlinking
  <2> QED
    BY <1>g, <1>u, <1>2, <2>1, <2>2, <2>3, <2>5, <2>6, NothingLost
<1>4. ASSUME NEW g \in GCs, NextLevel(g)
      PROVE  NeverErased' /\ \A h \in GCs, s \in Stores : Untaken(h, s)'
  <2>1. /\ UNCHANGED <<hot, cold, written>> /\ gc[g].at = "memory"
        /\ Others(g) /\ gc'[g].at = "memory"
        /\ gc'[g].kept = gc[g].kept /\ gc'[g].taken = gc[g].taken
    BY <1>4, <1>t, NextLevelFields DEF NextLevel
  <2>2. Untaken(g, "memory")'
    BY <1>u, <1>v, <2>1 DEF Untaken, At
  <2>3. \A t \in Stores : At(g, t)' => t = "memory"
    BY <2>1, <1>v DEF At, Unlinking
  <2> QED
    BY <1>g, <1>u, <1>v, <1>2, <2>1, <2>2, <2>3, NothingLost
<1>5. ASSUME NEW g \in GCs, NEW s \in Stores, NEW e \in Entries, Take(g, s, e)
      PROVE  NeverErased' /\ \A h \in GCs, t \in Stores : Untaken(h, t)'
  <2>1. /\ UNCHANGED <<hot, cold, written>> /\ Others(g)
        /\ At(g, s) /\ gc'[g].at \in {s, Unlinking(s)}
        /\ gc'[g].taken = gc[g].taken
    BY <1>5, <1>t, TakeFields DEF Take, At
  <2>k. gc[g].kept \in Seq(Entries)
    BY <1>t, Typed DEF Collection
  <2>2. Range(Append(gc[g].kept, e)) = Range(gc[g].kept) \cup {e}
    BY <2>k, RangeAppend
  <2>3. \/ e \in hot /\ gc'[g].kept = Append(gc[g].kept, e)
        \/ gc'[g].kept = gc[g].kept
    BY <1>5, <1>t, TakeFields
  <2>4. Untaken(g, s)'
    BY <1>u, <2>1, <2>2, <2>3 DEF Untaken, At
  <2>5. \A t \in Stores : At(g, t)' => t = s
    BY <2>1, <1>v DEF At, Unlinking
  <2> QED
    BY <1>g, <1>u, <1>2, <2>1, <2>2, <2>3, <2>4, <2>5, NothingLost
<1>6. ASSUME NEW g \in GCs, NEW s \in Stores, Unlink(g, s)
      PROVE  NeverErased' /\ \A h \in GCs, t \in Stores : Untaken(h, t)'
  <2>1. /\ UNCHANGED <<cold, written>> /\ At(g, s) /\ gc'[g].at = s
        /\ Others(g) /\ gc'[g].kept = gc[g].kept
    BY <1>6, <1>t, UnlinkFields DEF Unlink, At
  <2>2. /\ gc[g].kept \in Seq(Entries) /\ gc[g].kept # <<>>
        /\ Range(gc[g].kept) \subseteq Of(s)
    BY <1>6, <1>t, Typed DEF Unlink, VividInv, Handled, Collection
  <2>3. Last(gc[g].kept) \in Range(gc[g].kept)
    BY <2>2, LastInRange
  <2>4. hot \subseteq hot' \cup Range(gc'[g].kept)
    BY <1>6, <1>t, <2>1, <2>3, UnlinkFields
  <2>5. Untaken(g, s)'
    BY <1>6, <1>t, <1>u, <2>1, UnlinkFields DEF Untaken, At
  <2>6. ASSUME NEW h \in GCs, NEW t \in Stores, <<h, t>> # <<g, s>>
        PROVE  Untaken(h, t)'
    <3>1. CASE h = g
      BY <3>1, <2>1, <2>6, <1>v DEF Untaken, At, Unlinking
    <3>2. CASE h # g /\ t = s
      BY <3>2, <2>1, <1>a DEF Untaken, Alone, At, Others
    <3>3. CASE h # g /\ t # s
      <4>1. Of(s) \cap Of(t) = {}
        BY <3>3, <1>v, ArchivesAssumption DEF Of
      <4>2. hot \subseteq hot' \cup Of(s)
        BY <2>1, <2>2, <2>4
      <4>3. At(h, t)' => At(h, t) /\ Range(gc[h].kept) \subseteq Of(t)
        BY <3>3, <2>1, <1>t DEF VividInv, Handled, At, Others
      <4> QED
        BY <3>3, <1>u, <2>1, <4>1, <4>2, <4>3 DEF Untaken, At, Others
    <3> QED
      BY <3>1, <3>2, <3>3
  <2>7. NeverErased'
    BY <1>g, <1>u, <2>1, <2>4, NothingLost
  <2> QED
    BY <2>5, <2>6, <2>7
<1>7. ASSUME NEW g \in GCs, NEW s \in Stores, At(g, s), WriteArchive(g, s),
             UNCHANGED <<hot, written>>, Others(g),
             gc'[g].at \in {"idle", "queued"}
      PROVE  NeverErased' /\ \A h \in GCs, t \in Stores : Untaken(h, t)'
  <2>1. cold' = IF gc[g].taken THEN [cold EXCEPT ![s] = gc[g].kept] ELSE cold
    BY <1>7 DEF WriteArchive, Sound
  <2>2. cold \in [Stores -> Seq(Entries)]
    BY <1>t, Typed
  <2>3. Range(gc[g].kept) \subseteq Range(cold'[s]) \cup hot
    BY <1>7, <1>u, <2>1, <2>2 DEF Untaken
  <2>4. NeverErased'
    <3>1. Range(cold'[s]) \subseteq Archived'
      BY <1>v DEF Archived
    <3> QED
      BY <1>7, <1>g, <1>u, <2>3, <3>1, NothingLost
  <2>5. \A t \in Stores : ~At(g, t)'
    BY <1>7, <1>v DEF At, Unlinking
  <2>6. \A h \in GCs \ {g}, t \in Stores : Untaken(h, t)'
    BY <1>7, <1>u, <1>g DEF Untaken, At, Others, Grows
  <2> QED
    BY <2>4, <2>5, <2>6 DEF Untaken
<1>8. ASSUME NEW g \in GCs, DreamsArchived(g) \/ MemoryArchived(g)
      PROVE  NeverErased' /\ \A h \in GCs, t \in Stores : Untaken(h, t)'
  <2>1. CASE DreamsArchived(g)
    <3>1. Others(g) /\ gc'[g].at = "queued"
      BY <2>1, <1>t, Typed DEF DreamsArchived, NoCollection, Others
    <3>2. At(g, "dreams") /\ WriteArchive(g, "dreams") /\ UNCHANGED <<hot, written>>
      BY <2>1 DEF DreamsArchived, At
    <3> QED
      BY <3>1, <3>2, <1>7, <1>v
  <2>2. CASE MemoryArchived(g)
    <3>1. Others(g) /\ gc'[g].at = "idle"
      BY <2>2, <1>t, Typed DEF MemoryArchived, NoCollection, Others
    <3>2. At(g, "memory") /\ WriteArchive(g, "memory") /\ UNCHANGED <<hot, written>>
      BY <2>2 DEF MemoryArchived, At
    <3> QED
      BY <3>1, <3>2, <1>7, <1>v
  <2> QED
    BY <1>8, <2>1, <2>2
<1>9. CASE CollectorsDie
  BY <1>9 DEF CollectorsDie, Sound
<1>10. CASE UNCHANGED archivesVars
  BY <1>10, <1>u DEF archivesVars, NeverErased, Archived, InHands, Untaken, At
<1> QED
  BY <1>1, <1>3, <1>4, <1>5, <1>6, <1>8, <1>9, <1>10 DEF ArchivesNext

(* As long as no process dies in a collection, archives can be read and    *)
(* written and collections do not overlap, every entry ever written is in  *)
(* its file, in an archive or on its way there, even if files cannot be    *)
(* removed.                                                                *)
THEOREM ArchivesLoseNothing == ArchivesSpec => []OnlyFailuresErase
<1>1. LossInv => OnlyFailuresErase
  BY DEF LossInv, OnlyFailuresErase, Sound
<1> QED
  BY <1>1, LossInit, LossStep, PTL DEF ArchivesSpec
=============================================================================
