--------------------------- MODULE SourceSnapshot ---------------------------
(***************************************************************************)
(* Source acquisition of the archive-sync workflow (crates/                *)
(* lexonarchivebuilder-archive-sync/src/snapshot.rs): rsync mirrors the    *)
(* source, every regular file of the mirror is stored as a payload block,  *)
(* a manifest block names them, and the journal records the manifest and   *)
(* queues one mailbox per entry.  An acquisition that the journal records  *)
(* as completed is reused, whatever the source has become.                 *)
(*                                                                         *)
(* A block is its content (the store is content addressed), so a block     *)
(* identifier is the block.  The rsync process and the block store are     *)
(* external: rsync brings over one file at a time and may fail at any      *)
(* moment, a put may fail, and what a put acknowledged stays.              *)
(***************************************************************************)
EXTENDS WorkflowJournal

CONSTANTS
    Paths,            \* relative paths under the source
    Contents,         \* contents of a regular file
    MaxSourceChanges, \* bound: changes of the source
    MaxAttempts       \* bound: acquisitions begun

ASSUME SourceSnapshotAssumption ==
    /\ MaxSourceChanges \in Nat
    /\ MaxAttempts \in Nat
    /\ Contents # {}

NoFile == "no_file"
NotRegular == "not_regular"     \* a symbolic link or a special file
Files == Contents \cup {NoFile, NotRegular}

MailboxItem(path) == <<"mailbox", path>>

VARIABLES
    source,     \* the remote archive
    mirror,     \* snapshot_root
    blocks,     \* the block store
    acquire,    \* the acquisition in progress
    changes,    \* changes of the source so far
    attempts    \* acquisitions begun so far

snapshotVars == <<source, mirror, blocks, acquire, changes, attempts>>
allVars == <<journalVars, snapshotVars>>

Idle == [pc |-> "idle", todo |-> {}, entries |-> [p \in {} |-> NoFile]]

AcquireStart ==
    /\ source = [p \in Paths |-> CHOOSE c \in Contents : TRUE]
    /\ mirror = [p \in Paths |-> NoFile]
    /\ blocks = {}
    /\ acquire = Idle
    /\ changes = 0
    /\ attempts = 0

\* The acquisition runs where rsync does, so the journal is not Windows'.
SnapshotInit == JournalStart(FALSE) /\ AcquireStart

Payload(content) == [media |-> "application/octet-stream", body |-> content]
ManifestBlock(entries, at) ==
    [media |-> "application/json", body |-> [entries |-> entries, acquiredAt |-> at]]

EntriesOf(manifest) == manifest.body.entries

\* Queue the mailbox of every entry.
QueueMailboxes(j, paths) ==
    [j EXCEPT !.work["MailboxAdmission"].pending =
        @ \cup ({MailboxItem(p) : p \in paths}
                 \ j.work["MailboxAdmission"].completed)]

\* load_source_snapshot_manifest: only a manifest block of this media type.
ManifestLoads(manifest) == manifest \in blocks /\ manifest.media = "application/json"

\* A completed acquisition is reused; the journal moves on from the stage that
\* a journal saved too early may still show.
AcquireReuse ==
    LET queued == IF journal.stage \in {"SourceAcquisition", "MailboxAdmission"}
                  THEN QueueMailboxes(journal, DOMAIN EntriesOf(journal.manifest))
                  ELSE journal
    IN  /\ InMemory /\ acquire.pc = "idle"
        /\ journal.acquired
        /\ ManifestLoads(journal.manifest)
        /\ journal' = IF queued.stage = "SourceAcquisition"
                      THEN SetStage(queued, "MailboxAdmission")
                      ELSE queued
        /\ UNCHANGED <<windows, disk, saving, unsaved, snapshotVars>>

\* Mutant: a completed acquisition is begun again, over what it recorded.
AcquireBeginAlways ==
    /\ InMemory /\ acquire.pc = "idle"
    /\ attempts < MaxAttempts
    /\ journal' = [SetStage(journal, "SourceAcquisition") EXCEPT !.started = TRUE]
    /\ acquire' = [Idle EXCEPT !.pc = "rsync", !.todo = Paths]
    /\ attempts' = attempts + 1
    /\ UNCHANGED <<windows, disk, saving, unsaved, source, mirror, blocks, changes>>

AcquireBegin ==
    /\ InMemory /\ acquire.pc = "idle"
    /\ ~journal.acquired
    /\ attempts < MaxAttempts
    /\ journal' = [SetStage(journal, "SourceAcquisition")
                     EXCEPT !.started = TRUE, !.acquired = FALSE, !.manifest = Absent]
    /\ acquire' = [Idle EXCEPT !.pc = "rsync", !.todo = Paths]
    /\ attempts' = attempts + 1
    /\ UNCHANGED <<windows, disk, saving, unsaved, source, mirror, blocks, changes>>

\* rsync -a --delete --partial, one path at a time.
RsyncFile(path) ==
    /\ acquire.pc = "rsync"
    /\ path \in acquire.todo
    /\ mirror' = [mirror EXCEPT ![path] = source[path]]
    /\ acquire' = IF acquire.todo = {path}
                  THEN [acquire EXCEPT !.pc = "collect", !.todo = Paths]
                  ELSE [acquire EXCEPT !.todo = @ \ {path}]
    /\ UNCHANGED <<journalVars, source, blocks, changes, attempts>>

\* Mutant: a file is entered although its payload was not stored.
CollectEntryUnstored(path) ==
    /\ acquire.pc = "collect"
    /\ path \in acquire.todo
    /\ acquire' = [acquire EXCEPT
          !.todo = @ \ {path},
          !.entries = IF mirror[path] \in Contents
                      THEN [p \in DOMAIN @ \cup {path} |->
                              IF p = path THEN mirror[path] ELSE @[p]]
                      ELSE @]
    /\ UNCHANGED <<journalVars, source, mirror, blocks, changes, attempts>>

\* collect_snapshot_entries: store a regular file and enter it, pass over
\* everything else.
CollectEntry(path) ==
    /\ acquire.pc = "collect"
    /\ path \in acquire.todo
    /\ IF mirror[path] \in Contents
       THEN /\ blocks' = blocks \cup {Payload(mirror[path])}
            /\ acquire' = [acquire EXCEPT
                 !.todo = @ \ {path},
                 !.entries = [p \in DOMAIN @ \cup {path} |->
                                IF p = path THEN mirror[path] ELSE @[p]]]
       ELSE /\ acquire' = [acquire EXCEPT !.todo = @ \ {path}]
            /\ UNCHANGED blocks
    /\ UNCHANGED <<journalVars, source, mirror, changes, attempts>>

StoreManifest ==
    /\ acquire.pc = "collect"
    /\ acquire.todo = {}
    /\ blocks' = blocks \cup {ManifestBlock(acquire.entries, attempts)}
    /\ acquire' = [acquire EXCEPT !.pc = "record"]
    /\ UNCHANGED <<journalVars, source, mirror, changes, attempts>>

RecordSnapshot ==
    /\ acquire.pc = "record"
    /\ journal' = SetStage(
          QueueMailboxes(
             [journal EXCEPT !.acquired = TRUE,
                             !.manifest = ManifestBlock(acquire.entries, attempts)],
             DOMAIN acquire.entries),
          "MailboxAdmission")
    /\ acquire' = Idle
    /\ UNCHANGED <<windows, disk, saving, unsaved, source, mirror, blocks, changes, attempts>>

\* rsync exits with an error, a file cannot be read, a put fails: the journal
\* in memory keeps what AcquireBegin wrote.
AcquireFails ==
    /\ acquire.pc \in {"rsync", "collect"}
    /\ acquire' = Idle
    /\ UNCHANGED <<journalVars, source, mirror, blocks, changes, attempts>>

SourceChanges ==
    /\ changes < MaxSourceChanges
    /\ \E p \in Paths : \E f \in Files \ {source[p]} : source' = [source EXCEPT ![p] = f]
    /\ changes' = changes + 1
    /\ UNCHANGED <<journalVars, mirror, blocks, acquire, attempts>>

\* The calls on the journal that do not belong to the acquisition, those of the
\* mailbox admission that follows it; the caller of acquire_source_snapshot has
\* lent it the journal.
JournalStep ==
    /\ acquire.pc = "idle"
    /\ \/ WorkCall({"MailboxAdmission", "ChunkDerivation"},
                   [MailboxAdmission |-> {MailboxItem(p) : p \in Paths}])
       \/ LoadOrNew \/ SaveWrite \/ SavePersist \/ SaveFails
    /\ UNCHANGED snapshotVars

Evicted ==
    /\ Stop
    /\ acquire' = Idle
    /\ UNCHANGED <<source, mirror, blocks, changes, attempts>>

SnapshotNext ==
    \/ AcquireReuse \/ AcquireBegin \/ StoreManifest \/ RecordSnapshot \/ AcquireFails
    \/ \E p \in Paths : RsyncFile(p) \/ CollectEntry(p)
    \/ SourceChanges \/ JournalStep \/ Evicted

SnapshotSpec == SnapshotInit /\ [][SnapshotNext]_allVars

----------------------------------------------------------------------------
(* Properties.                                                              *)

\* The variables of the acquisition have their types.
SnapshotTypeOK ==
    /\ source \in [Paths -> Files]
    /\ mirror \in [Paths -> Files]
    /\ acquire.pc \in {"idle", "rsync", "collect", "record"}
    /\ acquire.todo \subseteq Paths
    /\ DOMAIN acquire.entries \subseteq Paths
    /\ changes \in 0..MaxSourceChanges
    /\ attempts \in 0..MaxAttempts

\* A saved journal that says the source was acquired can be resumed from: the
\* manifest it names and every payload the manifest names are in the block store
\* (payloads before the manifest, the manifest before the journal).
DurableManifestReadable ==
    disk # NoJournal /\ disk.acquired =>
        /\ ManifestLoads(disk.manifest)
        /\ \A p \in DOMAIN EntriesOf(disk.manifest) :
              Payload(EntriesOf(disk.manifest)[p]) \in blocks

\* A generation works on one snapshot: once a saved journal records an
\* acquisition, no later one records another manifest, although the source goes
\* on changing and acquire_source_snapshot is called again after every restart.
SnapshotFixed ==
    [][disk # NoJournal /\ disk.acquired
         => disk' # NoJournal /\ disk'.acquired /\ disk'.manifest = disk.manifest]_disk

\* No mailbox of the snapshot is forgotten: in every saved journal of an
\* acquired source each manifest entry is pending or completed.
MailboxesAccounted ==
    disk # NoJournal /\ disk.acquired =>
        \A p \in DOMAIN EntriesOf(disk.manifest) :
            MailboxItem(p) \in disk.work["MailboxAdmission"].pending
                               \cup disk.work["MailboxAdmission"].completed

\* What was saved stays so, through every sequence of calls, saves, failures and
\* restarts: committed work, the outcome, the journal itself, and the snapshot the
\* generation works on (WorkflowJournalStore::save, acquire_source_snapshot).
SavedStateKept == CommittedWorkKept /\ SavedOutcomeIsFinal /\ JournalNeverLost /\ SnapshotFixed
=============================================================================
