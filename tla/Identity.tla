------------------------------ MODULE Identity ------------------------------
(***************************************************************************)
(* How Luna knows who she is when she starts (LunaEngine._load_identity):  *)
(* the founding documents are hashed (luna/identity/bundle.py), looked up  *)
(* in an append-only ledger (ledger.py), and written there when they are   *)
(* not found (recovery.py).  Every process of hers starts so.              *)
(*                                                                         *)
(* A bundle is the version of the documents it hashes: no two versions     *)
(* have one hash.  A line that a kill or a full disk cut short has no end, *)
(* and the next one is written onto it.                                    *)
(***************************************************************************)
EXTENDS Integers, Sequences

CONSTANTS
    Versions,       \* versions of the founding documents
    Processes,      \* processes of Luna: chat, daemon, API
    MaxLines        \* bound: lines of the ledger

ASSUME IdentityAssumption == Versions # {} /\ MaxLines \in Nat

VARIABLES
    docs,           \* the documents on disk; "missing": one is; "binary": one is not UTF-8
    ledger,         \* lines of identity_ledger.jsonl
    context         \* identity_context of each process; Stopped when it does not run

identityVars == <<docs, ledger, context>>

(* A line: "bundle" and "event" parse, "bad" does not, "split" ends inside *)
(* a character (to_json keeps the dash of a RESTORED intent as it is).     *)
(* versions are the bundles whose text is in it.                           *)
BundleLine(version) == [kind |-> "bundle", versions |-> {version}, ended |-> TRUE]
EventLine == [kind |-> "event", versions |-> {}, ended |-> TRUE]

(* What is left of a line that was cut: all but its end, or less.  The     *)
(* event of an epoch is ASCII.                                             *)
CutEvent(line) == {[line EXCEPT !.kind = k, !.ended = FALSE] : k \in {line.kind, "bad"}}
CutBundle(line) == CutEvent(line) \cup {[line EXCEPT !.kind = "split", !.ended = FALSE]}

-----------------------------------------------------------------------------
(* IdentityLedger *)
Glue(old, new) ==
    [kind |-> IF "split" \in {old.kind, new.kind} THEN "split" ELSE "bad",
     versions |-> old.versions \cup new.versions, ended |-> new.ended]

LedgerAppend(lines, new) ==
    LET n == Len(lines) IN
    IF n > 0 /\ ~lines[n].ended
    THEN [lines EXCEPT ![n] = Glue(lines[n], new)]
    ELSE Append(lines, new)

(* history: the bundles; events and what is not JSON are skipped.  A split *)
(* character raises UnicodeDecodeError into the caller.                    *)
Legible(lines) == \A i \in DOMAIN lines : lines[i].kind # "split"
History(lines) ==
    UNION {lines[i].versions : i \in {j \in DOMAIN lines : lines[j].kind = "bundle"}}
Verify(lines, version) == version \in History(lines)

(* compute_bundle: "none" where it raises or is not called. *)
ComputeBundle == IF docs \in Versions THEN docs ELSE "none"

(* IdentityContext.from_bundle *)
FromBundle(version, lines) == [version |-> version, integrity_ok |-> Verify(lines, version)]
NoContext == [version |-> "none", integrity_ok |-> FALSE]
Stopped == [version |-> "off", integrity_ok |-> FALSE]

(* Mutant: what is recovered is not anchored. *)
RebuiltLedger(lines, version) == lines

(* _try_ledger_rebuild: the documents as they are now, written down.       *)
(* Nothing is embedded; a search finds the documents the rebuild had.      *)
LedgerRebuild(lines, version) == LedgerAppend(lines, BundleLine(version))

-----------------------------------------------------------------------------
IdentityInit ==
    /\ docs \in Versions
    /\ ledger = <<>>
    /\ context = [p \in Processes |-> Stopped]

Off(p) == context[p] = Stopped

(* _load_identity asks the ledger when the documents can be hashed; a      *)
(* ledger that raises keeps the process from starting.                     *)
Asks(p) == Off(p) /\ ComputeBundle # "none" /\ Legible(ledger)

(* The documents are known. *)
AnchorIdentity(p) ==
    /\ Asks(p) /\ Verify(ledger, docs)
    /\ context' = [context EXCEPT ![p] = FromBundle(docs, ledger)]
    /\ UNCHANGED <<docs, ledger>>

(* They are not: the RecoveryShell takes them for what Luna is. *)
RecoverIdentity(p) ==
    /\ Asks(p) /\ ~Verify(ledger, docs) /\ Len(ledger) < MaxLines
    /\ ledger' = LedgerRebuild(ledger, docs)
    /\ context' = [context EXCEPT ![p] = FromBundle(docs, ledger')]
    /\ UNCHANGED docs

(* The process is killed, or the disk is full, in the middle of the line:  *)
(* the start fails.                                                        *)
RecoveryCut(p) ==
    /\ Asks(p) /\ ~Verify(ledger, docs) /\ Len(ledger) < MaxLines
    /\ \E cut \in CutBundle(BundleLine(docs)) : ledger' = LedgerAppend(ledger, cut)
    /\ UNCHANGED <<docs, context>>

(* Nothing can be hashed: Luna runs without an identity. *)
Unrecoverable(p) ==
    /\ Off(p)
    /\ ComputeBundle = "none"
    /\ context' = [context EXCEPT ![p] = NoContext]
    /\ UNCHANGED <<docs, ledger>>

StopProcess(p) ==
    /\ ~Off(p)
    /\ context' = [context EXCEPT ![p] = Stopped]
    /\ UNCHANGED <<docs, ledger>>

(* epoch_reset notes itself in a ledger that exists, whole or cut. *)
LogEpoch ==
    /\ ledger # <<>> /\ Len(ledger) < MaxLines
    /\ \E event \in {EventLine} \cup CutEvent(EventLine) :
          ledger' = LedgerAppend(ledger, event)
    /\ UNCHANGED <<docs, context>>

(* Somebody edits, loses or restores a document. *)
EditDocuments ==
    /\ docs' \in Versions \cup {"missing", "binary"}
    /\ UNCHANGED <<ledger, context>>

IdentityNext ==
    \/ LogEpoch \/ EditDocuments
    \/ \E p \in Processes : AnchorIdentity(p) \/ RecoverIdentity(p) \/ RecoveryCut(p)
                            \/ Unrecoverable(p) \/ StopProcess(p)

IdentitySpec == IdentityInit /\ [][IdentityNext]_identityVars

-----------------------------------------------------------------------------
Held == {context[p] : p \in {q \in Processes : ~Off(q) /\ context[q] # NoContext}}

(* Written, and unreadable since: it stands on a line that was cut, or     *)
(* glued to one that was.                                                  *)
Swallowed(version) ==
    \E i \in DOMAIN ledger : ledger[i].kind \in {"bad", "split"} /\ version \in ledger[i].versions

(* An identity held to be intact is on record, or was when the process     *)
(* started and another start was written onto its line; one held to be     *)
(* altered is one whose record a cut line swallowed.  However the          *)
(* documents were changed, a start never finds them altered ("Alterations  *)
(* are detectable", ledger.py:4, holds for a reader of the ledger only).   *)
IntegrityHonest ==
    \A c \in Held :
        /\ c.integrity_ok => Verify(ledger, c.version) \/ Swallowed(c.version)
        /\ ~c.integrity_ok => Swallowed(c.version)
=============================================================================
