----------------------------- MODULE CycleStore -----------------------------
(***************************************************************************)
(* The store of cycle records: one file of lines a day, appended to, and   *)
(* an index kept in memory and saved after every append.  An append may be *)
(* cut anywhere (a full disk, a kill), the save of the index may fail, and *)
(* a power cut may leave the index file unreadable.  A file is the         *)
(* sequence of what its appends left: the record's number and              *)
(*   "line"   the record and its newline,                                  *)
(*   "bare"   the record without its newline,                              *)
(*   "cut"    a part of it,                                                *)
(*   "split"  a part of it that ends inside a character: the file is no    *)
(*            longer UTF-8, and read_text raises.                          *)
(***************************************************************************)
EXTENDS Naturals, Sequences, FiniteSets

CONSTANTS
    Days,           \* bound: days that the store sees, 1..Days
    MaxRecords,     \* bound: records written
    MaxFaults       \* bound: writes that fail or are cut, kills, power cuts

ASSUME CycleAssumption == Days \in Nat \ {0} /\ {MaxRecords, MaxFaults} \subseteq Nat

VARIABLES
    store,          \* "open", "down" between processes, "none" when its index could
                    \* not be loaded: the components of the process are all given up
    today,
    file,           \* the file of each day
    index,          \* record -> day, in memory
    indexFile,      \* the index on disk, empty unless saved and readable
    indexState,     \* "missing", "saved" or "unreadable"
    written,        \* records handed to write
    acked,          \* records whose write returned
    faults

cycleVars == <<store, today, file, index, indexFile, indexState, written, acked, faults>>

Records == 1..MaxRecords
Entries == [rec : Records, kind : {"line", "bare", "cut", "split"}]
Indexes == UNION {[R -> 1..Days] : R \in SUBSET Records}

CyclesTypeOK ==
    /\ store \in {"open", "down", "none"}
    /\ today \in 1..Days
    /\ file \in [1..Days -> Seq(Entries)]
    /\ index \in Indexes /\ (store # "open" => index = <<>>)
    /\ indexFile \in Indexes
    /\ indexState \in {"missing", "saved", "unreadable"}
    /\ indexState # "saved" => indexFile = <<>>
    /\ written \in 0..MaxRecords
    /\ acked \subseteq 1..written
    /\ faults \in 0..MaxFaults

-----------------------------------------------------------------------------
(* What the lines of a file are worth.                                     *)

Decodable(f) == \A k \in DOMAIN f : f[k].kind # "split"

\* Line k parses: nothing that was left before or appended after is glued to it.
Parses(f, k) ==
    /\ f[k].kind \in {"line", "bare"}
    /\ k > 1 => f[k - 1].kind = "line"
    /\ f[k].kind = "bare" => k = Len(f)

\* _read_file: the lines that do not parse are skipped.
Readable(f) == {f[k].rec : k \in {n \in DOMAIN f : Parses(f, n)}}

Stored == UNION {Readable(file[d]) : d \in {e \in 1..Days : Decodable(file[e])}}

CyclesInit ==
    /\ store = "down"
    /\ today = 1
    /\ file = [d \in 1..Days |-> <<>>]
    /\ index = <<>>
    /\ indexFile = <<>> /\ indexState = "missing"
    /\ written = 0 /\ acked = {} /\ faults = 0

-----------------------------------------------------------------------------
(* Writing: append, then index, then save the index.                       *)

Extended == [r \in DOMAIN index \cup {written'} |->
                IF r = written' THEN today ELSE index[r]]

NewRecord ==
    /\ store = "open" /\ written < MaxRecords
    /\ written' = written + 1

Appended(kind) ==
    file' = [file EXCEPT ![today] = Append(@, [rec |-> written', kind |-> kind])]

SaveIndex == indexFile' = index' /\ indexState' = "saved"

Fault == faults < MaxFaults /\ faults' = faults + 1

\* Mutant of WriteCycle: the index is saved when the store is closed only.
WriteUnsaved ==
    /\ NewRecord
    /\ Appended("line")
    /\ index' = Extended
    /\ acked' = acked \cup {written'}
    /\ UNCHANGED <<store, today, indexFile, indexState, faults>>

WriteCycle ==
    /\ NewRecord
    /\ Appended("line")
    /\ index' = Extended
    /\ SaveIndex
    /\ acked' = acked \cup {written'}
    /\ UNCHANGED <<store, today, faults>>

\* The append raises, having written nothing, or less than all.
AppendFails ==
    /\ NewRecord /\ Fault
    /\ UNCHANGED file \/ \E kind \in {"bare", "cut", "split"} : Appended(kind)
    /\ UNCHANGED <<store, today, index, indexFile, indexState, acked>>

\* The index is saved to a file of its own, which then does not replace the old
\* one; in memory the record is indexed.
IndexSaveFails ==
    /\ NewRecord /\ Fault
    /\ Appended("line")
    /\ index' = Extended
    /\ UNCHANGED <<store, today, indexFile, indexState, acked>>

\* The process is killed in a write; the index on disk is the old one.
KilledInWrite ==
    /\ NewRecord /\ Fault
    /\ \E kind \in {"line", "bare", "cut", "split"} : Appended(kind)
    /\ store' = "down" /\ index' = <<>>
    /\ UNCHANGED <<today, indexFile, indexState, acked>>

NextDay ==
    /\ today < Days
    /\ today' = today + 1
    /\ UNCHANGED <<store, file, index, indexFile, indexState, written, acked, faults>>

-----------------------------------------------------------------------------
(* Processes.                                                              *)

Ends ==
    /\ store # "down"
    /\ store' = "down" /\ index' = <<>>
    /\ UNCHANGED <<today, file, indexFile, indexState, written, acked, faults>>

\* The index was replaced, and its content had not reached the disk.
PowerCut ==
    /\ Fault
    /\ indexState # "missing"
    /\ store' = "down" /\ index' = <<>>
    /\ indexFile' = <<>> /\ indexState' = "unreadable"
    /\ UNCHANGED <<today, file, written, acked>>

\* _rebuild_index: every record that its day's file yields.
Rebuilt == [r \in Stored |-> CHOOSE d \in 1..Days : r \in Readable(file[d])]

Opens ==
    /\ store = "down"
    /\ indexState # "unreadable"
    /\ store' = "open"
    /\ index' = indexFile
    /\ UNCHANGED <<today, file, indexFile, indexState, written, acked, faults>>

OpensAndRebuilds ==
    /\ store = "down" /\ indexState = "unreadable"
    /\ \A d \in 1..Days : Decodable(file[d])
    /\ store' = "open"
    /\ index' = Rebuilt
    /\ SaveIndex
    /\ UNCHANGED <<today, file, written, acked, faults>>

\* One file that is not UTF-8 makes the rebuild raise, and so does a save that fails.
CannotOpen ==
    /\ store = "down" /\ indexState = "unreadable"
    /\ \/ (\E d \in 1..Days : ~Decodable(file[d])) /\ UNCHANGED faults
       \/ Fault
    /\ store' = "none"
    /\ UNCHANGED <<today, file, index, indexFile, indexState, written, acked>>

CyclesNext ==
    \/ WriteCycle \/ AppendFails \/ IndexSaveFails \/ KilledInWrite
    \/ NextDay \/ Ends \/ PowerCut
    \/ Opens \/ OpensAndRebuilds \/ CannotOpen

CyclesSpec == CyclesInit /\ [][CyclesNext]_cycleVars

-----------------------------------------------------------------------------
(* Properties.                                                             *)

\* read: the index names the day, and the day's file yields the record.
Found(r) == r \in DOMAIN index /\ Decodable(file[index[r]]) /\ r \in Readable(file[index[r]])

\* A failure inside a write of day d left something before the line of r.
GluedTo(d, r) ==
    \E k \in DOMAIN file[d] : k > 1 /\ file[d][k].rec = r /\ file[d][k - 1].kind # "line"

\* Whatever failed since, a record whose write returned is found while the
\* store is open, unless a cut append came right before it in its file, or one
\* that ended inside a character anywhere in it.
AckedAreFound ==
    store = "open" =>
        \A r \in acked : Found(r) \/ \E d \in 1..Days : GluedTo(d, r) \/ ~Decodable(file[d])

\* The index promises nothing that was not appended whole: each entry is a line
\* of the day it names.
IndexedWereAppended ==
    \A r \in DOMAIN index :
        \E k \in DOMAIN file[index[r]] : file[index[r]][k].rec = r /\ file[index[r]][k].kind \in {"line", "bare"}
=============================================================================
