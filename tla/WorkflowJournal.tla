-------------------------- MODULE WorkflowJournal --------------------------
(***************************************************************************)
(* The archive-sync workflow journal (crates/lexonarchivebuilder-archive-  *)
(* sync/src/lib.rs): the record that carries a generation's stage, its     *)
(* work inventories, its audit evidence and its outcome, the operations    *)
(* that change it, the validation that a save and a load both run, and the *)
(* store that replaces the journal file through a temporary file.          *)
(*                                                                         *)
(* Every operation is public and there is no driver in the crate, so the   *)
(* calls may come in any order.  Timestamps and identifiers are reduced to *)
(* "present", "absent" and, where an operation looks at it, "blank" (a     *)
(* text that trims to nothing).  A call that is refused before it changes  *)
(* anything is not a step.                                                 *)
(***************************************************************************)
EXTENDS Naturals, FiniteSets

CONSTANTS
    ItemsOf,          \* the work item identifiers of each kind of work
    MaxUnsaved        \* bound: changes made in memory between two saves

WorkKinds == {"MailboxAdmission", "Chunking", "Embedding", "Indexing", "Publication"}

ASSUME WorkflowJournalAssumption ==
    /\ DOMAIN ItemsOf \subseteq WorkKinds
    /\ MaxUnsaved \in Nat

\* WorkflowStage, in the order workflow_stage_rank gives them.
Rank ==
    [SourceAcquisition |-> 0, MailboxAdmission |-> 1, ChunkDerivation |-> 2,
     Embedding |-> 3, PublishedRootGeneration |-> 4, RootHistoryPublication |-> 5,
     TerminalSuccess |-> 6, TerminalFailure |-> 6]

Stages == DOMAIN Rank
TerminalStages == {"TerminalSuccess", "TerminalFailure"}

\* An identifier that is not recorded, and the journal that is not there.
Absent == "absent"
NoJournal == [stage |-> "none"]

----------------------------------------------------------------------------
(* The journal and the operations on it, as functions of the journal.      *)

Inventory == [pending |-> {}, completed |-> {}]

\* WorkflowJournal::new, for a generation whose source has not been acquired.
NewJournal ==
    [stage        |-> "SourceAcquisition",
     started      |-> FALSE,   \* source_snapshot.acquisition_started_at
     acquired     |-> FALSE,   \* source_snapshot.acquisition_completed_at
     manifest     |-> Absent,  \* source_snapshot.corpus_manifest_identity
     work         |-> [k \in WorkKinds |-> Inventory],
     frozen       |-> FALSE,   \* audit.work_set_frozen, with its work_set_id
     root         |-> Absent,  rootAt  |-> Absent,
     entry        |-> Absent,  entryAt |-> Absent,
     noted        |-> FALSE,   \* audit.root_change_explanation, subordinate_journals
     checkpoints  |-> {},
     outcome      |-> Absent]  \* terminal_outcome, with generation.completed_at

SetStage(j, stage) == [j EXCEPT !.stage = stage]

QueueWork(j, kind, item) ==
    IF item \in j.work[kind].completed
    THEN j
    ELSE [j EXCEPT !.work[kind].pending = @ \cup {item}]

\* An item that was completed before is completed again without a record.
RecordCheckpoint(j, stage, kind, item) ==
    LET done == [j EXCEPT !.work[kind].pending = @ \ {item},
                          !.work[kind].completed = @ \cup {item}]
    IN  IF item \in j.work[kind].completed
        THEN done
        ELSE [done EXCEPT
                !.stage = IF Rank[stage] > Rank[@] THEN stage ELSE @,
                !.checkpoints = @ \cup {[stage |-> stage, kind |-> kind, item |-> item]}]

FreezeWorkSet(j) == [j EXCEPT !.frozen = TRUE]

\* The identifier is stored before the timestamp is looked at: a blank
\* timestamp fails the call and leaves the identifier behind.
RecordPublishedRoot(j, time) ==
    [j EXCEPT !.root = "root", !.rootAt = IF time = "blank" THEN @ ELSE time]

RecordRootHistoryEntry(j, time) ==
    [j EXCEPT !.entry = "entry", !.entryAt = IF time = "blank" THEN @ ELSE time]

\* record_root_change_explanation and upsert_subordinate_journal: kept with the
\* journal, and looked at by no other operation.
RecordNote(j) == [j EXCEPT !.noted = TRUE]

RecordTerminal(j, stage) == [j EXCEPT !.stage = stage, !.outcome = stage]

----------------------------------------------------------------------------
(* WorkflowJournal::validate.                                               *)

WorkInventoryValid(inventory) == inventory.pending \cap inventory.completed = {}

Paired(j) ==
    /\ (j.root = Absent) = (j.rootAt = Absent)
    /\ (j.entry = Absent) = (j.entryAt = Absent)

CheckpointsValid(j) ==
    /\ \A c, d \in j.checkpoints : c.kind = d.kind /\ c.item = d.item => c = d
    /\ \A c \in j.checkpoints :
          /\ c.stage \notin TerminalStages
          /\ c.item \in j.work[c.kind].completed
          /\ c.item \notin j.work[c.kind].pending
          /\ Rank[j.stage] >= Rank[c.stage]

\* A terminal stage and the outcome it names go together.
TerminalStateValid(j) ==
    j.outcome = IF j.stage \in TerminalStages THEN j.stage ELSE Absent

\* The stages that admit no pending work of a kind.
WorkKindPendingAfterStage(kind, stage) ==
    /\ stage # "TerminalFailure"
    /\ CASE kind = "MailboxAdmission" -> Rank[stage] >= 2
         [] kind = "Chunking"         -> Rank[stage] >= 3
         [] kind = "Embedding"        -> Rank[stage] >= 4
         [] OTHER                     -> FALSE

StageOrderedStateValid(j) ==
    /\ \A kind \in WorkKinds :
          WorkKindPendingAfterStage(kind, j.stage) => j.work[kind].pending = {}
    /\ j.stage \in {"PublishedRootGeneration", "RootHistoryPublication", "TerminalSuccess"}
          => j.frozen
    /\ j.stage \in {"RootHistoryPublication", "TerminalSuccess"} => j.root # Absent
    /\ j.stage = "TerminalSuccess" => j.entry # Absent

Validate(j) ==
    /\ \A kind \in WorkKinds : WorkInventoryValid(j.work[kind])
    /\ Paired(j)
    /\ CheckpointsValid(j)
    /\ TerminalStateValid(j)
    /\ StageOrderedStateValid(j)

----------------------------------------------------------------------------
(* The process that holds a journal in memory, and the journal file.        *)

VARIABLES
    windows,    \* the build: Windows removes the journal before replacing it
    journal,    \* the journal in memory, or NoJournal
    disk,       \* the journal file, or NoJournal
    saving,     \* how far a save has come: "idle", "written" or "removed"
    unsaved     \* changes since the last save or load

journalVars == <<windows, journal, disk, saving, unsaved>>

JournalStart(build) ==
    /\ windows = build
    /\ journal = NoJournal
    /\ disk = NoJournal
    /\ saving = "idle"
    /\ unsaved = 0

JournalInit == \E build \in BOOLEAN : JournalStart(build)

\* Load: the file's journal when there is one, which validate must accept;
\* without a file the caller begins a new one.
LoadOrNew ==
    /\ journal = NoJournal
    /\ disk # NoJournal => Validate(disk)
    /\ journal' = IF disk = NoJournal THEN NewJournal ELSE disk
    /\ UNCHANGED <<windows, disk, saving, unsaved>>

InMemory == journal # NoJournal /\ saving = "idle"

Change(j) ==
    /\ InMemory
    /\ unsaved < MaxUnsaved
    /\ journal' = j
    /\ unsaved' = unsaved + 1
    /\ UNCHANGED <<windows, disk, saving>>

\* The calls that name these stages and these items of each kind of work.
WorkCall(stages, itemsOf) ==
    \/ \E stage \in stages : Change(SetStage(journal, stage))
    \/ \E kind \in DOMAIN itemsOf : \E item \in itemsOf[kind] :
          \/ Change(QueueWork(journal, kind, item))
          \/ \E stage \in stages \ TerminalStages :
                Change(RecordCheckpoint(journal, stage, kind, item))

AuditCall ==
    \/ Change(FreezeWorkSet(journal))
    \/ \E time \in {"blank", "time"} : Change(RecordPublishedRoot(journal, time))
    \/ \E time \in {"blank", "time"} : Change(RecordRootHistoryEntry(journal, time))
    \/ Change(RecordNote(journal))
    \/ \E stage \in TerminalStages : Change(RecordTerminal(journal, stage))

Operate == WorkCall(Stages, ItemsOf) \/ AuditCall

\* save: validate, then write and flush a temporary file beside the journal.
SaveWrite ==
    /\ InMemory
    /\ Validate(journal)
    /\ saving' = "written"
    /\ UNCHANGED <<windows, journal, disk, unsaved>>

\* persist_overwriting_if_needed on Windows: the old journal goes first.
SaveRemove ==
    /\ windows
    /\ saving = "written"
    /\ disk # NoJournal
    /\ disk' = NoJournal
    /\ saving' = "removed"
    /\ UNCHANGED <<windows, journal, unsaved>>

\* The rename that replaces the file, and the flush of its directory.
SavePersist ==
    /\ \/ saving = "removed"
       \/ saving = "written" /\ (windows => disk = NoJournal)
    /\ disk' = journal
    /\ saving' = "idle"
    /\ unsaved' = 0
    /\ UNCHANGED <<windows, journal>>

\* A write, flush, removal or rename that fails drops the temporary file.
SaveFails ==
    /\ saving # "idle"
    /\ saving' = "idle"
    /\ UNCHANGED <<windows, journal, disk, unsaved>>

\* The process ends, or the machine goes away: the temporary file is lost.
Stop ==
    /\ journal # NoJournal
    /\ journal' = NoJournal
    /\ saving' = "idle"
    /\ unsaved' = 0
    /\ UNCHANGED <<windows, disk>>

StoreNext == LoadOrNew \/ SaveWrite \/ SaveRemove \/ SavePersist \/ SaveFails \/ Stop

JournalNext == Operate \/ StoreNext

JournalSpec == JournalInit /\ [][JournalNext]_journalVars

----------------------------------------------------------------------------
(* Properties.                                                              *)

AllItems == UNION {ItemsOf[k] : k \in DOMAIN ItemsOf}
WorkflowJournals ==
    [stage : Stages, started : BOOLEAN, acquired : BOOLEAN, manifest : {Absent},
     work : [WorkKinds -> [pending : SUBSET AllItems,
                           completed : SUBSET AllItems]],
     frozen : BOOLEAN,
     root : {Absent, "root"}, rootAt : {Absent, "time"},
     entry : {Absent, "entry"}, entryAt : {Absent, "time"},
     noted : BOOLEAN,
     checkpoints : SUBSET [stage : Stages, kind : WorkKinds,
                           item : AllItems],
     outcome : {Absent} \cup TerminalStages]

\* The variables have their types, whatever manifest a journal names (the
\* records of lib.rs; SourceSnapshot says what a manifest is).
JournalTypeOK ==
    /\ journal = NoJournal \/ [journal EXCEPT !.manifest = Absent] \in WorkflowJournals
    /\ disk = NoJournal \/ [disk EXCEPT !.manifest = Absent] \in WorkflowJournals
    /\ saving \in {"idle", "written", "removed"}
    /\ unsaved \in 0..MaxUnsaved

CompletedOf(j, kind) == IF j = NoJournal THEN {} ELSE j.work[kind].completed

\* Committed work stays committed: whatever is called, saved, failed, stopped
\* and loaded again, an item a saved journal lists as completed is completed in
\* every later one, so a restart does not repeat it (queue, checkpoint, save;
\* whether there is a later one, JournalNeverLost says).
CommittedWorkKept ==
    [][disk' # NoJournal =>
         \A kind \in WorkKinds : CompletedOf(disk, kind) \subseteq CompletedOf(disk', kind)]_disk

\* A restart can trust the checkpoints: every item that a saved journal lists as
\* completed has one checkpoint record, and the saved stage is not behind it, so
\* the workflow never re-enters a stage it has left with committed work
\* (record_checkpoint's bookkeeping, validate's rank check).
CheckpointsHoldAfterRestart ==
    disk # NoJournal =>
        \A kind \in WorkKinds : \A item \in disk.work[kind].completed :
            \E c \in disk.checkpoints :
                /\ c.kind = kind /\ c.item = item
                /\ Rank[c.stage] <= Rank[disk.stage]

\* A generation that was saved with an outcome never goes back to work: no
\* sequence of calls and restarts saves it in a stage that is not terminal
\* (validate_terminal_state).
SavedOutcomeIsFinal ==
    [][disk # NoJournal /\ disk' # NoJournal /\ disk.stage \in TerminalStages
         => disk'.stage \in TerminalStages]_disk

\* "The workflow maintains one durable journal": once there is a journal file,
\* there is one at every later moment, a stop in the middle of a save included.
\* The Windows build is the exception: its save removes the file first.
JournalNeverLost == [][disk # NoJournal /\ ~windows => disk' # NoJournal]_disk
=============================================================================
