-------------------------- MODULE StoreTransaction --------------------------
(***************************************************************************)
(* The record store on disk: checked section snapshots, the operation      *)
(* journal (src/journal.c) and the compaction transaction that folds the   *)
(* journal into the snapshots (src/store_compact.c, store_transaction.c),  *)
(* with a power failure or a failed write between any two of its steps.    *)
(*                                                                         *)
(* A record is the number of the operation that inserted it and the        *)
(* section it belongs to.  Compaction holds the store lock and journal_mu, *)
(* so nothing but a crash happens between its steps.  A section write that *)
(* fails may be visible or not; the transaction marker, on which recovery  *)
(* depends, has besides a state the next power failure may bring back.     *)
(***************************************************************************)
EXTENDS Naturals, Sequences, FiniteSets

CONSTANTS
    Files,       \* "journal" and the section files, in the order of tx_rels
    Sections,    \* the section files, in the order compaction replaces them
    None,        \* no file
    MaxIssued, MaxFaults, MaxCrashes, MaxCompactions  \* bounds of the model

Section == {Sections[i] : i \in DOMAIN Sections}
Record == [id : Nat, section : Section]
Snapshot == [records : SUBSET Record]
Operation == [seq : Nat, record : Record]
Journal == Seq(Operation)
Copies == [snap : [Section -> Snapshot \cup {None}], journal : Journal \cup {None}]

ASSUME StoreAssumption ==
    /\ Files \in Seq(STRING) /\ Sections \in Seq(STRING) /\ Sections # <<>>
    /\ {Files[i] : i \in DOMAIN Files} = Section \cup {"journal"} /\ "journal" \notin Section
    /\ None \notin Snapshot \cup Copies
    /\ MaxIssued \in Nat /\ MaxFaults \in Nat
    /\ MaxCrashes \in Nat /\ MaxCompactions \in Nat

VARIABLES
    \* disk
    snap,       \* the records in every section file, None without a file
    journal,    \* the frames of journal.xcdn, a torn tail left out
    synced,     \* how many of them are known to be on disk
    marker,     \* compact.pending as seen now: what the backups hold, or None
    kept,       \* compact.pending as a power failure may leave it
    backup,     \* the .compact.bak files
    \* memory
    up, poisoned, table, journalOps,
    pc, at,     \* where compaction or recovery is
    due,        \* the purge-due records of the running compaction
    before,     \* its journal_ops_before
    \* bounds and history
    issued, faults, crashes, compactions,
    acked,      \* records whose operation returned success
    promised,   \* those of them whose durability was reported
    gone,       \* records purged by a compaction that reported its commit
    dropped     \* records a compaction ever set out to purge

disk == <<snap, journal, synced, marker, kept, backup>>
files == <<snap, journal, synced>>
memory == <<up, poisoned, table, journalOps>>
where == <<pc, at, due, before>>
bounds == <<issued, faults, crashes, compactions>>
history == <<acked, promised, gone, dropped>>
vars == <<disk, memory, where, bounds, history>>

Fault == faults < MaxFaults /\ faults' = faults + 1
NoBackup == [snap |-> [s \in Section |-> None], journal |-> None]

Init ==
    /\ snap = [s \in Section |-> None] /\ journal = <<>> /\ synced = 0
    /\ marker = None /\ kept = None /\ backup = NoBackup
    /\ up = FALSE /\ poisoned = FALSE /\ table = {} /\ journalOps = 0
    /\ pc = "idle" /\ at = 0 /\ due = {} /\ before = 0
    /\ issued = 0 /\ faults = 0 /\ crashes = 0 /\ compactions = 0
    /\ acked = {} /\ promised = {} /\ gone = {} /\ dropped = {}

\* The records a set of snapshots and a journal stand for.
Held(ss) == UNION {ss[s].records : s \in {t \in Section : ss[t] # None}}
Replayed(js) == {js[i].record : i \in DOMAIN js}
-----------------------------------------------------------------------------
(* asper_journal_append and asper_journal_sync.                            *)

Ready == up /\ ~poisoned /\ pc = "idle"

Frame(s) == [seq |-> journalOps + 1, record |-> [id |-> issued + 1, section |-> s]]

\* The frame is in the file, synced if the caller or the policy asks for it;
\* only then is the operation applied to the table.
AppendOp(s, sync) ==
    /\ Ready /\ issued < MaxIssued
    /\ issued' = issued + 1
    /\ journal' = Append(journal, Frame(s))
    /\ synced' = IF sync THEN Len(journal') ELSE synced
    /\ journalOps' = journalOps + 1
    /\ table' = table \cup {Frame(s).record}
    /\ acked' = acked \cup {Frame(s).record}
    /\ promised' = IF sync THEN acked' ELSE promised
    /\ UNCHANGED <<snap, marker, kept, backup, up, poisoned, where, faults, crashes,
                   compactions, gone, dropped>>

\* Mutation: the store goes on after an uncertain append.
AppendFailsGoesOn(s) ==
    /\ Ready /\ issued < MaxIssued /\ Fault
    /\ issued' = issued + 1
    /\ journal' \in {journal, Append(journal, Frame(s))}
    /\ UNCHANGED <<snap, synced, marker, kept, backup, memory, where, crashes,
                   compactions, history>>

\* A failed write is taken back by a durable truncation, or poisons the store
\* with the frame there or not; a failed sync poisons it with the frame there.
AppendFails(s) ==
    /\ Ready /\ issued < MaxIssued /\ Fault
    /\ issued' = issued + 1
    /\ \/ synced' = Len(journal) /\ UNCHANGED <<journal, poisoned>>
       \/ /\ journal' \in {journal, Append(journal, Frame(s))}
          /\ poisoned' = TRUE /\ UNCHANGED synced
    /\ UNCHANGED <<snap, marker, kept, backup, up, table, journalOps, where,
                   crashes, compactions, history>>

Sync ==
    /\ Ready
    /\ synced' = Len(journal) /\ promised' = acked
    /\ UNCHANGED <<snap, journal, marker, kept, backup, memory, where, bounds, acked,
                   gone, dropped>>

SyncFails ==
    /\ Ready /\ Fault
    /\ poisoned' = TRUE
    /\ UNCHANGED <<disk, up, table, journalOps, where, issued, crashes, compactions,
                   history>>
-----------------------------------------------------------------------------
(* asper_store_compact: back up, write the marker, replace the sections,   *)
(* reset the journal, remove the marker.                                   *)

Goto(p, n) == pc' = p /\ at' = n

\* Every other record stands for one whose purge time may come.
Deprecated(r) == r.id % 2 = 1

CompactStart ==
    /\ Ready /\ compactions < MaxCompactions
    /\ compactions' = compactions + 1
    /\ due' \in SUBSET {r \in table : Deprecated(r)}
    /\ dropped' = dropped \cup due'
    /\ before' = journalOps
    /\ Goto("backup", 1)
    /\ UNCHANGED <<disk, memory, issued, faults, crashes, acked, promised, gone>>

\* Mutation: the journal is not backed up.
BackupWithoutJournal ==
    /\ pc = "backup"
    /\ backup' = IF Files[at] = "journal" THEN [backup EXCEPT !.journal = <<>>]
                 ELSE [backup EXCEPT !.snap[Files[at]] = snap[Files[at]]]
    /\ IF at < Len(Files) THEN Goto("backup", at + 1) ELSE Goto("marker", 0)
    /\ UNCHANGED <<files, marker, kept, memory, due, before, bounds, history>>

\* asper_compact_begin copies one file after the other.
Backup ==
    /\ pc = "backup"
    /\ backup' = IF Files[at] = "journal" THEN [backup EXCEPT !.journal = journal]
                 ELSE [backup EXCEPT !.snap[Files[at]] = snap[Files[at]]]
    /\ IF at < Len(Files) THEN Goto("backup", at + 1) ELSE Goto("marker", 0)
    /\ UNCHANGED <<files, marker, kept, memory, due, before, bounds, history>>

\* Nothing was replaced yet: the backups are removed, the store goes on.
BackupFails ==
    /\ pc = "backup" /\ Fault
    /\ backup' = NoBackup
    /\ Goto("idle", 0) /\ due' = {}
    /\ UNCHANGED <<before, files, marker, kept, memory, issued, crashes, compactions, history>>

WriteMarker ==
    /\ pc = "marker"
    /\ marker' = backup /\ kept' = backup
    /\ Goto("write", 1)
    /\ UNCHANGED <<files, backup, memory, due, before, bounds, history>>

\* Mutation: the store goes on with a marker that may be there.
WriteMarkerFailsGoesOn ==
    /\ pc = "marker" /\ Fault
    /\ \/ backup' = NoBackup /\ UNCHANGED marker
       \/ marker' = backup /\ UNCHANGED backup
    /\ Goto("idle", 0) /\ due' = {}
    /\ UNCHANGED <<before, files, kept, memory, issued, crashes, compactions, history>>

\* A marker that is visible after a failed write poisons the store.
WriteMarkerFails ==
    /\ pc = "marker" /\ Fault
    /\ \/ backup' = NoBackup /\ UNCHANGED <<marker, kept, poisoned>>
       \/ marker' = backup /\ poisoned' = TRUE /\ UNCHANGED <<backup, kept>>
    /\ Goto("idle", 0) /\ due' = {}
    /\ UNCHANGED <<before, files, up, table, journalOps, issued, crashes, compactions, history>>

Projected(s) == [records |-> {r \in table \ due : r.section = s}]

WriteSection ==
    /\ pc = "write"
    /\ snap' = [snap EXCEPT ![Sections[at]] = Projected(Sections[at])]
    /\ IF at < Len(Sections) THEN Goto("write", at + 1) ELSE Goto("reset", 0)
    /\ UNCHANGED <<journal, synced, marker, kept, backup, memory, due, before, bounds, history>>

ResetJournal ==
    /\ pc = "reset"
    /\ journal' = <<>> /\ synced' = 0 /\ journalOps' = 0
    /\ Goto("commit", 0)
    /\ UNCHANGED <<snap, marker, kept, backup, up, poisoned, table, due, before, bounds, history>>

\* A failed replacement is rolled back at once.
WriteFails ==
    /\ pc \in {"write", "reset"} /\ Fault
    /\ \/ UNCHANGED files
       \/ /\ pc = "write"
          /\ snap' = [snap EXCEPT ![Sections[at]] = Projected(Sections[at])]
          /\ UNCHANGED <<journal, synced>>
       \/ pc = "reset" /\ journal' = <<>> /\ synced' = 0 /\ UNCHANGED snap
    /\ Goto("rollback", 1)
    /\ UNCHANGED <<marker, kept, backup, memory, due, before, issued, crashes, compactions,
                   history>>

\* Mutation: the marker's removal is not synced.
CommitUnsynced ==
    /\ pc = "commit"
    /\ marker' = None
    /\ table' = table \ due
    /\ gone' = gone \cup due /\ promised' = acked
    /\ Goto("idle", 0) /\ due' = {}
    /\ UNCHANGED <<before, files, kept, backup, up, poisoned, journalOps, bounds, acked,
                   dropped>>

\* asper_compact_commit: the marker goes, then the backups; the purge-due
\* records leave the table and everything in it is on disk.
Commit ==
    /\ pc = "commit"
    /\ marker' = None /\ kept' = None /\ backup' = NoBackup
    /\ table' = table \ due
    /\ gone' = gone \cup due /\ promised' = acked
    /\ Goto("idle", 0) /\ due' = {}
    /\ UNCHANGED <<before, files, up, poisoned, journalOps, bounds, acked, dropped>>

\* Mutation: the backups go although the marker may stay.
CommitFailsCleans ==
    /\ pc = "commit" /\ Fault
    /\ marker' \in {marker, None}
    /\ backup' = NoBackup
    /\ poisoned' = TRUE
    /\ Goto("idle", 0) /\ due' = {}
    /\ UNCHANGED <<before, files, kept, up, table, journalOps, issued, crashes,
                   compactions, history>>

\* The unlink or the sync of its directory fails: commit_uncertain.
CommitFails ==
    /\ pc = "commit" /\ Fault
    /\ marker' \in {marker, None}
    /\ poisoned' = TRUE
    /\ Goto("idle", 0) /\ due' = {}
    /\ UNCHANGED <<before, files, kept, backup, up, table, journalOps, issued, crashes,
                   compactions, history>>
-----------------------------------------------------------------------------
(* asper_compact_recover, in the running store and on open: validate every *)
(* backup, restore one file after the other, remove the marker.            *)

Validated == marker = backup

Restore ==
    /\ pc \in {"rollback", "recover"} /\ Validated
    /\ at <= Len(Files)
    /\ IF Files[at] = "journal"
       THEN /\ journal' = backup.journal /\ synced' = Len(backup.journal)
            /\ UNCHANGED snap
       ELSE /\ snap' = [snap EXCEPT ![Files[at]] = backup.snap[Files[at]]]
            /\ UNCHANGED <<journal, synced>>
    /\ Goto(pc, at + 1)
    /\ UNCHANGED <<marker, kept, backup, memory, due, before, bounds, history>>

RestoreDone ==
    /\ pc \in {"rollback", "recover"} /\ at = Len(Files) + 1
    /\ marker' = None /\ kept' = None /\ backup' = NoBackup
    /\ journalOps' = IF pc = "rollback" THEN before ELSE journalOps
    /\ IF pc = "rollback" THEN Goto("idle", 0) ELSE Goto("load", 0)
    /\ due' = {}
    /\ UNCHANGED <<before, files, up, poisoned, table, bounds, history>>

\* A backup that does not match, or a failed step: poisoned in the running
\* store, a failed open otherwise; the marker may be gone from sight.
RestoreFails ==
    /\ pc \in {"rollback", "recover"}
    /\ \/ Fault /\ marker' \in IF at = Len(Files) + 1 THEN {marker, None} ELSE {marker}
       \/ ~Validated /\ UNCHANGED <<marker, faults>>
    /\ poisoned' = (pc = "rollback")
    /\ Goto("idle", 0) /\ due' = {}
    /\ UNCHANGED <<before, files, kept, backup, up, table, journalOps, issued, crashes,
                   compactions, history>>
-----------------------------------------------------------------------------
(* asper_store_open, and the end of a process.                             *)

Open ==
    /\ ~up /\ pc = "idle"
    /\ IF marker = None THEN Goto("load", 0) ELSE Goto("recover", 1)
    /\ UNCHANGED <<disk, memory, due, before, bounds, history>>

\* A snapshot that holds a record twice, an insert of a known record or a
\* frame out of sequence is an error: nothing is opened.
Loadable ==
    /\ Held(snap) \cap Replayed(journal) = {}
    /\ \A i \in DOMAIN journal : journal[i].seq = i

\* The journal and its directory are synced, and with it the marker's removal.
Load ==
    /\ pc = "load" /\ Loadable
    /\ table' = Held(snap) \cup Replayed(journal)
    /\ journalOps' = Len(journal)
    /\ synced' = Len(journal) /\ kept' = marker
    /\ up' = TRUE
    /\ acked' = table' /\ promised' = table'
    /\ Goto("idle", 0)
    /\ UNCHANGED <<snap, journal, marker, backup, poisoned, due, before, bounds, gone,
                   dropped>>

EmptyMemory ==
    /\ up' = FALSE /\ poisoned' = FALSE /\ table' = {} /\ journalOps' = 0
    /\ Goto("idle", 0) /\ due' = {} /\ before' = 0

\* Power fails: frames that were not synced may be lost, from the end.
Crash ==
    /\ up \/ pc # "idle"
    /\ crashes < MaxCrashes /\ crashes' = crashes + 1
    /\ \E n \in synced .. Len(journal) : journal' = SubSeq(journal, 1, n) /\ synced' = n
    /\ \E m \in {marker, kept} : marker' = m /\ kept' = m
    /\ EmptyMemory
    /\ UNCHANGED <<snap, backup, issued, faults, compactions, history>>

\* The process ends without a power failure: nothing visible is lost.
Close ==
    /\ up /\ pc = "idle"
    /\ crashes < MaxCrashes /\ crashes' = crashes + 1
    /\ EmptyMemory
    /\ UNCHANGED <<disk, issued, faults, compactions, history>>
-----------------------------------------------------------------------------
Next ==
    \/ \E i \in DOMAIN Sections :
          \/ \E sync \in BOOLEAN : AppendOp(Sections[i], sync)
          \/ AppendFails(Sections[i])
    \/ Sync \/ SyncFails
    \/ CompactStart \/ Backup \/ BackupFails \/ WriteMarker \/ WriteMarkerFails
    \/ WriteSection \/ ResetJournal \/ WriteFails \/ Commit \/ CommitFails
    \/ Restore \/ RestoreDone \/ RestoreFails
    \/ Open \/ Load \/ Crash \/ Close

Spec == Init /\ [][Next]_vars

\* A started compaction or recovery goes on, and the host opens a closed store.
FairSpec ==
    /\ Spec
    /\ WF_vars(Backup \/ WriteMarker \/ WriteSection \/ ResetJournal \/ Commit)
    /\ WF_vars(Open \/ Restore \/ RestoreDone \/ Load)
-----------------------------------------------------------------------------
(* Properties. *)

\* What asper_store_open would load if the power failed now: recovery puts the
\* backups of a marker back, else a synced part of the journal is replayed.
Outcome(m, n) ==
    IF m # None THEN [held |-> Held(backup.snap), frames |-> backup.journal]
    ELSE [held |-> Held(snap), frames |-> SubSeq(journal, 1, n)]
Outcomes == {Outcome(m, n) : m \in {marker, kept}, n \in synced .. Len(journal)}
Loaded(o) == o.held \cup Replayed(o.frames)

(* However a compaction, an append or a recovery is cut short, the next    *)
(* open finds every record whose durability was reported, unless it was    *)
(* due for purging.                                                        *)
NoPromiseBroken == \A o \in Outcomes : promised \ dropped \subseteq Loaded(o)

(* A power failure takes records from the end only: with a record all the  *)
(* acknowledged ones before it survive; and at most one operation that was *)
(* not acknowledged can surface, the one whose failure poisoned the store. *)
LossFromTheEnd ==
    \A o \in Outcomes :
        /\ Cardinality(Loaded(o) \ acked) <= 1
        /\ \A r \in Loaded(o), q \in acked \ dropped :
              q.id < r.id => q \in Loaded(o)

(* No open meets an operation whose record a snapshot already holds, nor a *)
(* record that a reported compaction purged: half of a compaction never    *)
(* shows, and a whole one is never undone.                                 *)
NothingComesBack ==
    \A o \in Outcomes :
        o.held \cap Replayed(o.frames) = {} /\ gone \cap Loaded(o) = {}

(* While the store serves requests, its files hold what its table holds,   *)
(* and no marker is left that could take later operations back.            *)
MemoryMatchesDisk ==
    Ready => /\ Held(snap) \cup Replayed(journal) = table
             /\ marker = None /\ kept = None

(* A closed store opens again, whatever interrupted the compaction or the *)
(* recovery: no sequence of crashes and failed writes bricks the store.    *)
OpensAgain == ~up ~> up
=============================================================================
