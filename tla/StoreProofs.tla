----------------------------- MODULE StoreProofs -----------------------------
(***************************************************************************)
(* Proofs about what is stored and read back: the archive-sync journal and *)
(* its file (WorkflowJournal), source acquisition over it                  *)
(* (SourceSnapshot), the answers of the MCP tools while the indexer        *)
(* publishes (McpServer), and the two ends of a read through the gateway:  *)
(* the server's task slots (BlockGateway), the client's transport          *)
(* (Http3Transport) and the read path over it (GatewayRead).               *)
(***************************************************************************)
EXTENDS MCStores, BlockGateway, GatewayRead, FiniteSetTheorems, TLAPS

-----------------------------------------------------------------------------
(* The journal and the calls on it.                                        *)

\* A journal whose work items are of I, whatever manifest it names.
JournalOf(I, j) ==
    j \in [stage : Stages, started : BOOLEAN, acquired : BOOLEAN, manifest : {j.manifest},
           work : [WorkKinds -> [pending : SUBSET I, completed : SUBSET I]],
           frozen : BOOLEAN,
           root : {Absent, "root"}, rootAt : {Absent, "time"},
           entry : {Absent, "entry"}, entryAt : {Absent, "time"},
           noted : BOOLEAN,
           checkpoints : SUBSET [stage : Stages, kind : WorkKinds, item : I],
           outcome : {Absent} \cup TerminalStages]

Completed(j, kind) == j.work[kind].completed
Known(j, kind) == j.work[kind].pending \cup j.work[kind].completed

\* Every completed item has its checkpoint.
Checkpointed(j) ==
    \A kind \in WorkKinds : \A item \in Completed(j, kind) :
        \E c \in j.checkpoints : c.kind = kind /\ c.item = item

\* What a later form of a journal keeps: completed work, work that is known, and
\* an outcome.
Keeps(j, k) ==
    /\ \A kind \in WorkKinds : /\ Completed(j, kind) \subseteq Completed(k, kind)
                               /\ Known(j, kind) \subseteq Known(k, kind)
    /\ j.outcome # Absent => k.outcome # Absent

\* What a call makes of the journal.
Successor(I, j, k) ==
    /\ JournalOf(I, k)
    /\ k # NoJournal
    /\ Keeps(j, k)
    /\ Checkpointed(j) => Checkpointed(k)

SameSnapshot(j, k) == k.acquired = j.acquired /\ k.manifest = j.manifest

\* A journal is not the absence of one.
LEMMA JournalIsOne ==
    ASSUME NEW I, NEW j, JournalOf(I, j)
    PROVE  j # NoJournal
  <1>1. j.stage \in Stages
    BY DEF JournalOf
  <1>2. NoJournal.stage \notin Stages
    BY DEF NoJournal, Stages, Rank
  <1> QED BY <1>1, <1>2

\* A call that leaves the work and its checkpoints alone.
LEMMA SameWorkSucceeds ==
    ASSUME NEW I, NEW j, NEW k, JournalOf(I, k), k.work = j.work,
           k.checkpoints = j.checkpoints, j.outcome # Absent => k.outcome # Absent
    PROVE  Successor(I, j, k)
  <1>1. k # NoJournal
    BY JournalIsOne
  <1> QED BY <1>1 DEF Successor, Keeps, Checkpointed, Completed, Known

\* set_stage.
LEMMA SetStageSucceeds ==
    ASSUME NEW I, NEW j, JournalOf(I, j), NEW stage \in Stages
    PROVE  Successor(I, j, SetStage(j, stage)) /\ SameSnapshot(j, SetStage(j, stage))
  <1>0. PICK k : k = SetStage(j, stage)
    OBVIOUS
  <1>1. JournalOf(I, k)
    BY <1>0 DEF JournalOf, SetStage
  <1>2. /\ k.work = j.work /\ k.outcome = j.outcome /\ k.checkpoints = j.checkpoints
        /\ k.acquired = j.acquired /\ k.manifest = j.manifest
    BY <1>0 DEF JournalOf, SetStage
  <1> QED BY <1>0, <1>1, <1>2, SameWorkSucceeds DEF SameSnapshot

\* freeze_work_set and the notes.
LEMMA FlagSucceeds ==
    ASSUME NEW I, NEW j, JournalOf(I, j), NEW k, k = FreezeWorkSet(j) \/ k = RecordNote(j)
    PROVE  Successor(I, j, k) /\ SameSnapshot(j, k)
  <1>1. JournalOf(I, k)
    <2>1. CASE k = FreezeWorkSet(j)
      BY <2>1 DEF JournalOf, FreezeWorkSet
    <2>2. CASE k = RecordNote(j)
      BY <2>2 DEF JournalOf, RecordNote
    <2> QED BY <2>1, <2>2
  <1>2. /\ k.work = j.work /\ k.outcome = j.outcome /\ k.checkpoints = j.checkpoints
        /\ k.acquired = j.acquired /\ k.manifest = j.manifest
    BY DEF JournalOf, FreezeWorkSet, RecordNote
  <1> QED BY <1>1, <1>2, SameWorkSucceeds DEF SameSnapshot

\* record_published_root and record_root_history_entry.
LEMMA EvidenceSucceeds ==
    ASSUME NEW I, NEW j, JournalOf(I, j), NEW time \in {"blank", "time"}, NEW k,
           k = RecordPublishedRoot(j, time) \/ k = RecordRootHistoryEntry(j, time)
    PROVE  Successor(I, j, k) /\ SameSnapshot(j, k)
  <1>1. JournalOf(I, k)
    <2>1. CASE k = RecordPublishedRoot(j, time)
      BY <2>1 DEF JournalOf, RecordPublishedRoot
    <2>2. CASE k = RecordRootHistoryEntry(j, time)
      BY <2>2 DEF JournalOf, RecordRootHistoryEntry
    <2> QED BY <2>1, <2>2
  <1>2. /\ k.work = j.work /\ k.outcome = j.outcome /\ k.checkpoints = j.checkpoints
        /\ k.acquired = j.acquired /\ k.manifest = j.manifest
    BY DEF JournalOf, RecordPublishedRoot, RecordRootHistoryEntry
  <1> QED BY <1>1, <1>2, SameWorkSucceeds DEF SameSnapshot

\* The outcome is recorded with the stage that has its name.
LEMMA TerminalSucceeds ==
    ASSUME NEW I, NEW j, JournalOf(I, j), NEW stage \in TerminalStages
    PROVE  /\ Successor(I, j, RecordTerminal(j, stage))
           /\ SameSnapshot(j, RecordTerminal(j, stage))
  <1>0. PICK k : k = RecordTerminal(j, stage)
    OBVIOUS
  <1>1. stage \in Stages /\ stage # Absent
    BY DEF TerminalStages, Stages, Rank, Absent
  <1>2. JournalOf(I, k)
    BY <1>0, <1>1 DEF JournalOf, RecordTerminal
  <1>3. /\ k.work = j.work /\ k.outcome # Absent /\ k.checkpoints = j.checkpoints
        /\ k.acquired = j.acquired /\ k.manifest = j.manifest
    BY <1>0, <1>1 DEF JournalOf, RecordTerminal
  <1> QED BY <1>0, <1>2, <1>3, SameWorkSucceeds DEF SameSnapshot

\* The inventories.
Inventories(I) == [WorkKinds -> [pending : SUBSET I, completed : SUBSET I]]

\* A journal with other inventories.
LEMMA WithWork ==
    ASSUME NEW I, NEW j, JournalOf(I, j), NEW w \in Inventories(I), NEW k,
           k = [j EXCEPT !.work = w]
    PROVE  /\ JournalOf(I, k)
           /\ k.work = w /\ k.outcome = j.outcome /\ k.checkpoints = j.checkpoints
           /\ k.stage = j.stage /\ k.acquired = j.acquired /\ k.manifest = j.manifest
  BY DEF JournalOf, Inventories

\* queue_work: what is completed is not queued again.
LEMMA QueueSucceeds ==
    ASSUME NEW I, NEW j, JournalOf(I, j), NEW kind \in WorkKinds, NEW item \in I
    PROVE  /\ Successor(I, j, QueueWork(j, kind, item))
           /\ SameSnapshot(j, QueueWork(j, kind, item))
  <1>0. PICK k : k = QueueWork(j, kind, item)
    OBVIOUS
  <1> DEFINE w == IF item \in j.work[kind].completed THEN j.work
                  ELSE [j.work EXCEPT ![kind].pending = @ \cup {item}]
  <1>a. j.work \in Inventories(I)
    BY DEF JournalOf, Inventories
  <1>b. w \in Inventories(I)
    BY <1>a DEF Inventories
  <1>c. \A other \in WorkKinds :
            /\ w[other].completed = j.work[other].completed
            /\ j.work[other].pending \subseteq w[other].pending
    BY <1>a DEF Inventories
  <1>d. k = [j EXCEPT !.work = w]
    BY <1>0 DEF JournalOf, QueueWork
  <1> HIDE DEF w
  <1>1. JournalOf(I, k)
    BY <1>b, <1>d, WithWork
  <1>2. /\ k.outcome = j.outcome /\ k.checkpoints = j.checkpoints /\ k.work = w
        /\ k.acquired = j.acquired /\ k.manifest = j.manifest
    BY <1>b, <1>d, WithWork
  <1>3. \A other \in WorkKinds : Completed(k, other) = Completed(j, other)
                                 /\ Known(j, other) \subseteq Known(k, other)
    BY <1>2, <1>c DEF Completed, Known
  <1>4. k # NoJournal
    BY <1>1, JournalIsOne
  <1>5. Checkpointed(j) => Checkpointed(k)
    BY <1>2, <1>3 DEF Checkpointed
  <1> QED BY <1>0, <1>1, <1>2, <1>3, <1>4, <1>5 DEF Successor, SameSnapshot, Keeps

\* record_checkpoint: the item is completed, with a checkpoint when it was not
\* before.
LEMMA CheckpointSucceeds ==
    ASSUME NEW I, NEW j, JournalOf(I, j), NEW kind \in WorkKinds, NEW item \in I,
           NEW stage \in Stages
    PROVE  /\ Successor(I, j, RecordCheckpoint(j, stage, kind, item))
           /\ SameSnapshot(j, RecordCheckpoint(j, stage, kind, item))
  <1> DEFINE finished == [j EXCEPT !.work[kind].pending = @ \ {item},
                                   !.work[kind].completed = @ \cup {item}]
             point == [stage |-> stage, kind |-> kind, item |-> item]
  <1>0. PICK k : k = RecordCheckpoint(j, stage, kind, item)
    OBVIOUS
  <1>1. PICK d : d = finished
    OBVIOUS
  <1> DEFINE w == [j.work EXCEPT ![kind].pending = @ \ {item},
                                 ![kind].completed = @ \cup {item}]
  <1>a. j.work \in Inventories(I)
    BY DEF JournalOf, Inventories
  <1>b. w \in Inventories(I)
    BY <1>a DEF Inventories
  <1>c. \A other \in WorkKinds :
            /\ w[other].completed = IF other = kind THEN j.work[other].completed \cup {item}
                                    ELSE j.work[other].completed
            /\ w[other].pending = IF other = kind THEN j.work[other].pending \ {item}
                                  ELSE j.work[other].pending
    BY <1>a DEF Inventories
  <1>d. d = [j EXCEPT !.work = w]
    BY <1>1 DEF JournalOf
  <1> HIDE DEF w
  <1>2. JournalOf(I, d)
    BY <1>b, <1>d, WithWork
  <1>3. /\ d.outcome = j.outcome /\ d.checkpoints = j.checkpoints /\ d.stage = j.stage
        /\ d.acquired = j.acquired /\ d.manifest = j.manifest /\ d.work = w
    BY <1>b, <1>d, WithWork
  <1>4. \A other \in WorkKinds :
            /\ Completed(d, other) = IF other = kind THEN Completed(j, other) \cup {item}
                                     ELSE Completed(j, other)
            /\ Known(j, other) \subseteq Known(d, other)
    BY <1>3, <1>c DEF Completed, Known
  <1>5. k = IF item \in Completed(j, kind) THEN d
            ELSE [d EXCEPT !.stage = IF Rank[stage] > Rank[@] THEN stage ELSE @,
                           !.checkpoints = @ \cup {point}]
    BY <1>0, <1>1 DEF RecordCheckpoint, Completed
  <1>6. point \in [stage : Stages, kind : WorkKinds, item : I]
    OBVIOUS
  <1> HIDE DEF finished, point
  <1>7. JournalOf(I, k)
    BY <1>2, <1>5, <1>6 DEF JournalOf
  <1>8. /\ k.outcome = j.outcome /\ k.work = d.work
        /\ k.acquired = j.acquired /\ k.manifest = j.manifest
        /\ j.checkpoints \subseteq k.checkpoints
        /\ item \notin Completed(j, kind) => point \in k.checkpoints
    BY <1>2, <1>3, <1>5 DEF JournalOf
  <1>9. k # NoJournal
    BY <1>7, JournalIsOne
  <1>10. Keeps(j, k)
    BY <1>4, <1>8 DEF Keeps, Completed, Known
  <1>11. ASSUME Checkpointed(j)
         PROVE  Checkpointed(k)
    <2> SUFFICES ASSUME NEW other \in WorkKinds, NEW x \in Completed(k, other)
                 PROVE  \E c \in k.checkpoints : c.kind = other /\ c.item = x
      BY DEF Checkpointed
    <2>1. x \in Completed(d, other)
      BY <1>8 DEF Completed
    <2>2. CASE x \in Completed(j, other)
      BY <2>2, <1>8, <1>11 DEF Checkpointed
    <2>3. CASE x \notin Completed(j, other)
      <3>1. other = kind /\ x = item
        BY <2>1, <2>3, <1>4
      <3>2. point.kind = kind /\ point.item = item
        BY DEF point
      <3> QED BY <3>1, <3>2, <2>3, <1>8
    <2> QED BY <2>2, <2>3
  <1> QED BY <1>0, <1>7, <1>8, <1>9, <1>10, <1>11 DEF Successor, SameSnapshot

-----------------------------------------------------------------------------
(* The journal in memory and the journal file.                             *)

JournalTypes(I) ==
    /\ journal = NoJournal \/ JournalOf(I, journal)
    /\ disk = NoJournal \/ JournalOf(I, disk)
    /\ saving \in {"idle", "written", "removed"}
    /\ unsaved \in 0..MaxUnsaved

\* Only a journal that was validated reaches the file.
SavedValid ==
    /\ saving # "idle" => journal # NoJournal /\ Validate(journal)
    /\ disk # NoJournal => Validate(disk)

\* The journal in memory goes on from the one in the file.
GoesOn == journal # NoJournal /\ disk # NoJournal => Keeps(disk, journal)

CheckpointsKept ==
    /\ journal # NoJournal => Checkpointed(journal)
    /\ disk # NoJournal => Checkpointed(disk)

JournalInv(I) == JournalTypes(I) /\ SavedValid /\ GoesOn /\ CheckpointsKept

\* There is no journal at the start.
LEMMA JournalStartInv ==
    ASSUME NEW I, NEW build, JournalStart(build)
    PROVE  JournalInv(I)
  BY WorkflowJournalAssumption
  DEF JournalStart, JournalInv, JournalTypes, SavedValid, GoesOn, CheckpointsKept

\* What is kept is kept in the end.
LEMMA KeepsOn ==
    ASSUME NEW j, NEW k, NEW l, Keeps(j, k), Keeps(k, l)
    PROVE  Keeps(j, l)
  BY DEF Keeps

\* A journal keeps what it has.
LEMMA KeepsItself ==
    ASSUME NEW j
    PROVE  Keeps(j, j)
  BY DEF Keeps

\* The journal in memory takes its next form, the file and the save do not change.
JournalGoes(k) == journal' = k /\ disk' = disk /\ saving' = saving /\ saving = "idle"

\* A call keeps the invariant.
LEMMA CallKeeps ==
    ASSUME NEW I, JournalInv(I), journal # NoJournal, NEW k, Successor(I, journal, k),
           JournalGoes(k), unsaved' \in 0..MaxUnsaved
    PROVE  JournalInv(I)'
  <1>0. journal' = k /\ disk' = disk /\ saving' = "idle"
    BY DEF JournalGoes, JournalInv, JournalTypes
  <1>1. JournalTypes(I)'
    BY <1>0 DEF JournalInv, JournalTypes, Successor
  <1>2. SavedValid'
    BY <1>0 DEF JournalInv, SavedValid
  <1>3. GoesOn'
    BY <1>0, KeepsOn DEF JournalInv, GoesOn, Successor
  <1>4. CheckpointsKept'
    BY <1>0 DEF JournalInv, CheckpointsKept, Successor
  <1> QED BY <1>1, <1>2, <1>3, <1>4 DEF JournalInv

\* A change within the bound.
LEMMA ChangeKeeps ==
    ASSUME NEW I, JournalInv(I), NEW k, Change(k), Successor(I, journal, k)
    PROVE  JournalInv(I)'
  <1>1. JournalGoes(k) /\ journal # NoJournal
    BY DEF Change, InMemory, JournalGoes
  <1>2. unsaved' \in 0..MaxUnsaved
    BY WorkflowJournalAssumption DEF Change, JournalInv, JournalTypes
  <1> QED BY <1>1, <1>2, CallKeeps

\* The new journal.
LEMMA NewJournalIs ==
    ASSUME NEW I
    PROVE  JournalOf(I, NewJournal) /\ Checkpointed(NewJournal) /\ ~NewJournal.acquired
  <1>1. [k \in WorkKinds |-> Inventory] \in Inventories(I)
    BY DEF Inventories, Inventory
  <1>2. "SourceAcquisition" \in Stages
    BY DEF Stages, Rank
  <1>3. JournalOf(I, NewJournal)
    BY <1>1, <1>2 DEF JournalOf, NewJournal, Inventories
  <1>4. \A kind \in WorkKinds : Completed(NewJournal, kind) = {}
    BY DEF NewJournal, Completed, Inventory
  <1>5. Checkpointed(NewJournal)
    BY <1>4 DEF Checkpointed
  <1>6. ~NewJournal.acquired
    BY DEF NewJournal
  <1> QED BY <1>3, <1>5, <1>6

\* load.
LEMMA LoadKeeps ==
    ASSUME NEW I, JournalInv(I), LoadOrNew
    PROVE  JournalInv(I)'
  <1>1. /\ journal' = IF disk = NoJournal THEN NewJournal ELSE disk
        /\ disk' = disk /\ saving' = saving /\ unsaved' = unsaved
    BY DEF LoadOrNew
  <1>2. saving = "idle"
    BY DEF LoadOrNew, JournalInv, SavedValid
  <1>3. JournalOf(I, NewJournal) /\ Checkpointed(NewJournal)
    BY NewJournalIs
  <1>4. JournalTypes(I)'
    BY <1>1, <1>3 DEF JournalInv, JournalTypes
  <1>5. SavedValid'
    BY <1>1, <1>2 DEF JournalInv, SavedValid
  <1>6. GoesOn'
    BY <1>1, KeepsItself DEF GoesOn
  <1>7. CheckpointsKept'
    BY <1>1, <1>3 DEF JournalInv, CheckpointsKept
  <1> QED BY <1>4, <1>5, <1>6, <1>7 DEF JournalInv

\* The steps of a save, and a stop in the middle of one.
LEMMA SaveKeeps ==
    ASSUME NEW I, JournalInv(I), SaveWrite \/ SaveRemove \/ SavePersist \/ SaveFails \/ Stop
    PROVE  JournalInv(I)'
  <1>0. 0 \in 0..MaxUnsaved
    BY WorkflowJournalAssumption
  <1>1. CASE SaveWrite
    <2>1. /\ journal' = journal /\ disk' = disk /\ unsaved' = unsaved /\ saving' = "written"
          /\ journal # NoJournal /\ Validate(journal)
      BY <1>1 DEF SaveWrite, InMemory
    <2> QED BY <2>1 DEF JournalInv, JournalTypes, SavedValid, GoesOn, CheckpointsKept
  <1>2. CASE SaveRemove
    <2>1. /\ journal' = journal /\ disk' = NoJournal /\ unsaved' = unsaved
          /\ saving' = "removed" /\ saving = "written"
      BY <1>2 DEF SaveRemove
    <2> QED BY <2>1 DEF JournalInv, JournalTypes, SavedValid, GoesOn, CheckpointsKept
  <1>3. CASE SavePersist
    <2>1. /\ journal' = journal /\ disk' = journal /\ unsaved' = 0
          /\ saving' = "idle" /\ saving # "idle"
      BY <1>3 DEF SavePersist
    <2> QED
      BY <2>1, <1>0, KeepsItself
      DEF JournalInv, JournalTypes, SavedValid, GoesOn, CheckpointsKept
  <1>4. CASE SaveFails
    <2>1. /\ journal' = journal /\ disk' = disk /\ unsaved' = unsaved /\ saving' = "idle"
      BY <1>4 DEF SaveFails
    <2> QED BY <2>1 DEF JournalInv, JournalTypes, SavedValid, GoesOn, CheckpointsKept
  <1>5. CASE Stop
    <2>1. /\ journal' = NoJournal /\ disk' = disk /\ unsaved' = 0 /\ saving' = "idle"
      BY <1>5 DEF Stop
    <2> QED BY <2>1, <1>0 DEF JournalInv, JournalTypes, SavedValid, GoesOn, CheckpointsKept
  <1> QED BY <1>1, <1>2, <1>3, <1>4, <1>5

\* The stages and items of the calls are those of the journal.
LEMMA WorkCallSucceeds ==
    ASSUME NEW I, JournalInv(I), NEW stages \in SUBSET Stages, NEW itemsOf,
           DOMAIN itemsOf \subseteq WorkKinds,
           \A kind \in DOMAIN itemsOf : itemsOf[kind] \subseteq I,
           WorkCall(stages, itemsOf)
    PROVE  \E k : Change(k) /\ Successor(I, journal, k) /\ SameSnapshot(journal, k)
  <1>0. JournalOf(I, journal)
    BY DEF WorkCall, Change, InMemory, JournalInv, JournalTypes
  <1>1. CASE \E stage \in stages : Change(SetStage(journal, stage))
    BY <1>0, <1>1, SetStageSucceeds
  <1>2. CASE \E kind \in DOMAIN itemsOf : \E item \in itemsOf[kind] :
                Change(QueueWork(journal, kind, item))
    BY <1>0, <1>2, QueueSucceeds
  <1>3. CASE \E kind \in DOMAIN itemsOf : \E item \in itemsOf[kind] :
                \E stage \in stages \ TerminalStages :
                    Change(RecordCheckpoint(journal, stage, kind, item))
    <2>1. PICK kind \in DOMAIN itemsOf : \E item \in itemsOf[kind] :
             \E stage \in stages \ TerminalStages :
                Change(RecordCheckpoint(journal, stage, kind, item))
      BY <1>3
    <2>3. PICK item \in itemsOf[kind], stage \in stages \ TerminalStages :
                Change(RecordCheckpoint(journal, stage, kind, item))
      BY <2>1
    <2>2. kind \in WorkKinds /\ item \in I /\ stage \in Stages
      OBVIOUS
    <2> QED BY <1>0, <2>3, <2>2, CheckpointSucceeds
  <1> QED BY <1>1, <1>2, <1>3 DEF WorkCall

\* The calls that record evidence, notes and the outcome.
LEMMA AuditCallSucceeds ==
    ASSUME NEW I, JournalInv(I), AuditCall
    PROVE  \E k : Change(k) /\ Successor(I, journal, k) /\ SameSnapshot(journal, k)
  <1>0. JournalOf(I, journal)
    BY DEF AuditCall, Change, InMemory, JournalInv, JournalTypes
  <1>1. CASE Change(FreezeWorkSet(journal)) \/ Change(RecordNote(journal))
    BY <1>0, <1>1, FlagSucceeds
  <1>2. CASE \E time \in {"blank", "time"} : Change(RecordPublishedRoot(journal, time))
    BY <1>0, <1>2, EvidenceSucceeds
  <1>3. CASE \E time \in {"blank", "time"} : Change(RecordRootHistoryEntry(journal, time))
    BY <1>0, <1>3, EvidenceSucceeds
  <1>4. CASE \E stage \in TerminalStages : Change(RecordTerminal(journal, stage))
    BY <1>0, <1>4, TerminalSucceeds
  <1> QED BY <1>1, <1>2, <1>3, <1>4 DEF AuditCall

\* What a step may make of the file: nothing, its removal before a replacement on
\* Windows, or the journal in memory, which was validated and goes on from it.
DiskMoves ==
    \/ disk' = disk
    \/ disk' = NoJournal /\ windows
    \/ disk' = journal /\ journal # NoJournal /\ Validate(journal)

\* Only a save changes the file.
LEMMA StoreMoves ==
    ASSUME NEW I, JournalInv(I), StoreNext
    PROVE  DiskMoves
  BY DEF StoreNext, LoadOrNew, SaveWrite, SaveRemove, SavePersist, SaveFails, Stop,
         DiskMoves, JournalInv, SavedValid

\* A file that was replaced keeps the work that was committed and the outcome.
KeptByStep ==
    /\ disk' # NoJournal =>
         \A kind \in WorkKinds : CompletedOf(disk, kind) \subseteq CompletedOf(disk', kind)
    /\ disk # NoJournal /\ disk' # NoJournal /\ disk.stage \in TerminalStages
         => disk'.stage \in TerminalStages
    /\ disk # NoJournal /\ ~windows => disk' # NoJournal

\* The moves of the file keep it.
LEMMA DiskStepKeeps ==
    ASSUME NEW I, JournalInv(I), DiskMoves
    PROVE  KeptByStep
  <1>1. CASE disk' = disk
    BY <1>1 DEF KeptByStep
  <1>2. CASE disk' = NoJournal /\ windows
    BY <1>2 DEF KeptByStep
  <1>3. CASE disk' = journal /\ journal # NoJournal /\ Validate(journal)
    <2>1. disk # NoJournal => Keeps(disk, journal)
      BY <1>3 DEF JournalInv, GoesOn
    <2>2. \A kind \in WorkKinds : CompletedOf(disk, kind) \subseteq CompletedOf(disk', kind)
      BY <1>3, <2>1 DEF Keeps, CompletedOf, Completed
    <2>3. ASSUME disk # NoJournal, disk.stage \in TerminalStages
          PROVE  disk'.stage \in TerminalStages
      <3>1. disk.outcome = disk.stage
        BY <2>3 DEF JournalInv, SavedValid, Validate, TerminalStateValid
      <3>2. disk.outcome # Absent
        BY <2>3, <3>1 DEF TerminalStages, Absent
      <3>3. journal.outcome # Absent
        BY <2>1, <2>3, <3>2 DEF Keeps
      <3>4. journal.outcome = IF journal.stage \in TerminalStages THEN journal.stage ELSE Absent
        BY <1>3 DEF Validate, TerminalStateValid
      <3>5. journal.stage \in TerminalStages
        BY <3>3, <3>4
      <3> QED BY <3>5, <1>3
    <2> QED BY <2>2, <2>3, <1>3 DEF KeptByStep
  <1> QED BY <1>1, <1>2, <1>3 DEF DiskMoves

\* The journal's own program: every call in every order, and no acquisition.
NotAcquired ==
    /\ journal # NoJournal => journal.acquired = FALSE
    /\ disk # NoJournal => disk.acquired = FALSE

\* Its steps keep the invariant.
LEMMA JournalNextKeeps ==
    ASSUME JournalInv(AllItems), NotAcquired, JournalNext
    PROVE  JournalInv(AllItems)' /\ NotAcquired' /\ KeptByStep
  <1>1. CASE Operate
    <2>1. /\ DOMAIN ItemsOf \subseteq WorkKinds
          /\ \A kind \in DOMAIN ItemsOf : ItemsOf[kind] \subseteq AllItems
      BY WorkflowJournalAssumption DEF AllItems
    <2>2. PICK k : Change(k) /\ Successor(AllItems, journal, k) /\ SameSnapshot(journal, k)
      BY <1>1, <2>1, WorkCallSucceeds, AuditCallSucceeds DEF Operate
    <2>3. JournalInv(AllItems)'
      BY <2>2, ChangeKeeps
    <2>4. disk' = disk /\ journal' = k /\ journal # NoJournal
      BY <2>2 DEF Change, InMemory
    <2>5. NotAcquired'
      BY <2>2, <2>4 DEF NotAcquired, SameSnapshot
    <2>6. KeptByStep
      BY <2>4, DiskStepKeeps DEF DiskMoves
    <2> QED BY <2>3, <2>5, <2>6
  <1>2. CASE StoreNext
    <2>1. JournalInv(AllItems)'
      BY <1>2, LoadKeeps, SaveKeeps DEF StoreNext
    <2>2. KeptByStep
      BY <1>2, StoreMoves, DiskStepKeeps
    <2>3. /\ journal' \in {journal, disk, NoJournal, NewJournal}
          /\ disk' \in {disk, journal, NoJournal}
      BY <1>2 DEF StoreNext, LoadOrNew, SaveWrite, SaveRemove, SavePersist, SaveFails, Stop
    <2>4. NewJournal.acquired = FALSE
      BY DEF NewJournal
    <2>5. NotAcquired'
      BY <2>3, <2>4 DEF NotAcquired
    <2> QED BY <2>1, <2>2, <2>5
  <1> QED BY <1>1, <1>2 DEF JournalNext

-----------------------------------------------------------------------------
(* Source acquisition.                                                     *)

MailboxItems == {MailboxItem(p) : p \in Paths}

\* The entries of a manifest in the making.
EntryMaps == UNION {[D -> Contents] : D \in SUBSET Paths}

AcquireTypes ==
    /\ SnapshotTypeOK
    /\ acquire \in [pc : {"idle", "rsync", "collect", "record"}, todo : SUBSET Paths,
                    entries : EntryMaps]

\* While an acquisition is under way its journal is in memory, records none and is
\* not being saved.
AcquisitionAlone ==
    acquire.pc # "idle" => journal # NoJournal /\ journal.acquired = FALSE /\ saving = "idle"

\* Payloads are stored before the manifest, the manifest before it is recorded.
StoredInOrder ==
    /\ \A p \in DOMAIN acquire.entries : Payload(acquire.entries[p]) \in blocks
    /\ acquire.pc = "record" => ManifestBlock(acquire.entries, attempts) \in blocks

\* The acquisition a journal records can be read, and its mailboxes are known.
Readable(j) ==
    /\ ManifestLoads(j.manifest)
    /\ \A p \in DOMAIN EntriesOf(j.manifest) : Payload(EntriesOf(j.manifest)[p]) \in blocks
Accounted(j) ==
    \A p \in DOMAIN EntriesOf(j.manifest) : MailboxItem(p) \in Known(j, "MailboxAdmission")
Acquired(j) == j # NoJournal /\ j.acquired = TRUE
AcquiredSound(j) == Acquired(j) => Readable(j) /\ Accounted(j)

\* The journal in memory records the acquisition that the file records.
OneSnapshot ==
    journal # NoJournal /\ Acquired(disk) => Acquired(journal) /\ journal.manifest = disk.manifest

AcquisitionInv ==
    /\ AcquisitionAlone /\ StoredInOrder /\ OneSnapshot
    /\ AcquiredSound(journal) /\ AcquiredSound(disk)

SnapshotInv == AcquireTypes /\ AcquisitionInv

\* At the start no acquisition has begun.
LEMMA AcquireStartInv ==
    ASSUME AcquireStart, journal = NoJournal, disk = NoJournal
    PROVE  SnapshotInv
  <1>1. [p \in {} |-> NoFile] \in [{} -> Contents]
    OBVIOUS
  <1>2. Idle \in [pc : {"idle", "rsync", "collect", "record"}, todo : SUBSET Paths,
                  entries : EntryMaps]
    BY <1>1 DEF Idle, EntryMaps
  <1>3. Idle.entries = [p \in {} |-> NoFile] /\ Idle.pc = "idle"
    BY DEF Idle
  <1>4. (CHOOSE c \in Contents : TRUE) \in Files
    BY SourceSnapshotAssumption DEF Files
  <1>5. AcquireTypes
    BY <1>1, <1>2, <1>3, <1>4, SourceSnapshotAssumption
    DEF AcquireStart, AcquireTypes, SnapshotTypeOK, Files, Idle
  <1>6. AcquisitionInv
    BY <1>3 DEF AcquireStart, AcquisitionInv, AcquisitionAlone, StoredInOrder, OneSnapshot,
                AcquiredSound, Acquired
  <1> QED BY <1>5, <1>6 DEF SnapshotInv

\* More blocks can be read than before.
LEMMA MoreBlocks ==
    ASSUME blocks \subseteq blocks', NEW j, Readable(j)
    PROVE  Readable(j)'
  BY DEF Readable, ManifestLoads

\* The next form of the journal, outside an acquisition that is recorded.
LEMMA SuccessorSound ==
    ASSUME NEW I, NEW j, NEW k, Successor(I, j, k), SameSnapshot(j, k),
           AcquiredSound(j), j # NoJournal
    PROVE  AcquiredSound(k)
  BY DEF AcquiredSound, Acquired, Readable, Accounted, Successor, SameSnapshot, Keeps, WorkKinds

\* A step of the journal that is no part of the acquisition.
LEMMA JournalStepSound ==
    ASSUME JournalInv(MailboxItems), SnapshotInv, JournalStep
    PROVE  JournalInv(MailboxItems)' /\ SnapshotInv' /\ DiskMoves
  <1>0. /\ acquire.pc = "idle" /\ acquire' = acquire /\ blocks' = blocks
        /\ UNCHANGED snapshotVars
    BY DEF JournalStep, snapshotVars
  <1>1. AcquireTypes'
    BY <1>0 DEF SnapshotInv, AcquireTypes, SnapshotTypeOK, snapshotVars
  <1>2. StoredInOrder' /\ AcquisitionAlone'
    BY <1>0 DEF SnapshotInv, AcquisitionInv, StoredInOrder, AcquisitionAlone, snapshotVars
  <1>4. CASE WorkCall({"MailboxAdmission", "ChunkDerivation"},
                      [MailboxAdmission |-> {MailboxItem(p) : p \in Paths}])
    <2>1. /\ {"MailboxAdmission", "ChunkDerivation"} \in SUBSET Stages
          /\ DOMAIN [MailboxAdmission |-> {MailboxItem(p) : p \in Paths}] \subseteq WorkKinds
      BY DEF Stages, Rank, WorkKinds
    <2>2. \A kind \in DOMAIN [MailboxAdmission |-> {MailboxItem(p) : p \in Paths}] :
            [MailboxAdmission |-> {MailboxItem(p) : p \in Paths}][kind] \subseteq MailboxItems
      BY DEF MailboxItems
    <2>3. PICK k : Change(k) /\ Successor(MailboxItems, journal, k) /\ SameSnapshot(journal, k)
      BY <1>4, <2>1, <2>2, WorkCallSucceeds
    <2>4. JournalInv(MailboxItems)'
      BY <2>3, ChangeKeeps
    <2>5. disk' = disk /\ journal' = k /\ journal # NoJournal /\ k # NoJournal
      BY <2>3 DEF Change, InMemory, Successor
    <2>6. AcquiredSound(k) /\ AcquiredSound(disk)
      BY <2>3, <2>5, SuccessorSound DEF SnapshotInv, AcquisitionInv
    <2>7. OneSnapshot'
      BY <2>3, <2>5 DEF SnapshotInv, AcquisitionInv, OneSnapshot, Acquired, SameSnapshot
    <2>8. AcquiredSound(journal)' /\ AcquiredSound(disk)'
      BY <1>0, <2>5, <2>6 DEF AcquiredSound, Acquired, Readable, Accounted, ManifestLoads
    <2> QED BY <1>1, <1>2, <2>4, <2>5, <2>7, <2>8 DEF SnapshotInv, AcquisitionInv, DiskMoves
  <1>5. CASE LoadOrNew \/ SaveWrite \/ SavePersist \/ SaveFails
    <2>1. JournalInv(MailboxItems)' /\ DiskMoves
      BY <1>5, LoadKeeps, SaveKeeps, StoreMoves DEF StoreNext
    <2>2. \/ journal' = journal /\ disk' = disk
          \/ journal' = journal /\ disk' = journal
          \/ journal' = disk /\ disk' = disk
          \/ journal' = NewJournal /\ disk' = disk /\ disk = NoJournal
      BY <1>5 DEF LoadOrNew, SaveWrite, SavePersist, SaveFails
    <2>3. NewJournal.acquired = FALSE
      BY DEF NewJournal
    <2>4. OneSnapshot'
      BY <2>2, <2>3 DEF SnapshotInv, AcquisitionInv, OneSnapshot, Acquired
    <2>5. AcquiredSound(NewJournal)
      BY <2>3 DEF AcquiredSound, Acquired
    <2>6. AcquiredSound(journal)' /\ AcquiredSound(disk)'
      BY <1>0, <2>2, <2>5
      DEF SnapshotInv, AcquisitionInv, AcquiredSound, Acquired, Readable, Accounted, ManifestLoads
    <2> QED BY <1>1, <1>2, <2>1, <2>4, <2>6 DEF SnapshotInv, AcquisitionInv
  <1> QED BY <1>4, <1>5 DEF JournalStep

\* Steps that leave the journal and the blocks alone.
LEMMA JournalKept ==
    ASSUME NEW I, JournalInv(I), UNCHANGED journalVars
    PROVE  JournalInv(I)' /\ DiskMoves
  BY DEF journalVars, JournalInv, JournalTypes, SavedValid, GoesOn, CheckpointsKept, DiskMoves

\* What the journals record stays readable while blocks are added.
LEMMA SoundKept ==
    ASSUME SnapshotInv, UNCHANGED journalVars, blocks \subseteq blocks'
    PROVE  OneSnapshot' /\ AcquiredSound(journal)' /\ AcquiredSound(disk)'
  <1>1. journal' = journal /\ disk' = disk
    BY DEF journalVars
  <1>2. OneSnapshot'
    BY <1>1 DEF SnapshotInv, AcquisitionInv, OneSnapshot, Acquired
  <1>3. AcquiredSound(journal)' /\ AcquiredSound(disk)'
    BY <1>1 DEF SnapshotInv, AcquisitionInv, AcquiredSound, Acquired, Readable, Accounted,
                ManifestLoads
  <1> QED BY <1>2, <1>3

\* The mailboxes of the entries are queued.
LEMMA QueueMailboxesSucceeds ==
    ASSUME NEW j, JournalOf(MailboxItems, j), NEW paths,
           \A p \in paths : MailboxItem(p) \in MailboxItems
    PROVE  /\ Successor(MailboxItems, j, QueueMailboxes(j, paths))
           /\ SameSnapshot(j, QueueMailboxes(j, paths))
           /\ \A p \in paths :
                MailboxItem(p) \in Known(QueueMailboxes(j, paths), "MailboxAdmission")
           /\ QueueMailboxes(j, paths).stage = j.stage
  <1>0. PICK k : k = QueueMailboxes(j, paths)
    OBVIOUS
  <1> DEFINE kind == "MailboxAdmission"
             new == {MailboxItem(p) : p \in paths} \ j.work[kind].completed
             w == [j.work EXCEPT ![kind].pending = @ \cup new]
  <1>a. j.work \in Inventories(MailboxItems) /\ kind \in WorkKinds
    BY DEF JournalOf, Inventories, WorkKinds
  <1>b. new \subseteq MailboxItems
    OBVIOUS
  <1>c. \A p \in paths : MailboxItem(p) \in new \cup j.work[kind].completed
    OBVIOUS
  <1>d. k = [j EXCEPT !.work = w]
    BY <1>0 DEF JournalOf, QueueMailboxes
  <1> HIDE DEF new
  <1>e. w \in Inventories(MailboxItems)
    BY <1>a, <1>b DEF Inventories
  <1>f. /\ \A other \in WorkKinds :
            /\ w[other].completed = j.work[other].completed
            /\ j.work[other].pending \subseteq w[other].pending
        /\ new \subseteq w[kind].pending
    BY <1>a DEF Inventories
  <1> HIDE DEF w
  <1>1. JournalOf(MailboxItems, k)
    BY <1>e, <1>d, WithWork
  <1>2. /\ k.outcome = j.outcome /\ k.checkpoints = j.checkpoints /\ k.work = w
        /\ k.acquired = j.acquired /\ k.manifest = j.manifest /\ k.stage = j.stage
    BY <1>e, <1>d, WithWork
  <1>3. \A other \in WorkKinds : Completed(k, other) = Completed(j, other)
                                 /\ Known(j, other) \subseteq Known(k, other)
    BY <1>2, <1>f DEF Completed, Known
  <1>4. k # NoJournal
    BY <1>1, JournalIsOne
  <1>5. Checkpointed(j) => Checkpointed(k)
    BY <1>2, <1>3 DEF Checkpointed
  <1>6. \A p \in paths : MailboxItem(p) \in Known(k, "MailboxAdmission")
    BY <1>2, <1>a, <1>c, <1>f DEF Known
  <1> QED BY <1>0, <1>1, <1>2, <1>3, <1>4, <1>5, <1>6 DEF Successor, SameSnapshot, Keeps

\* One successor after another.
LEMMA SuccessorOn ==
    ASSUME NEW I, NEW j, NEW k, NEW l, Successor(I, j, k), Successor(I, k, l)
    PROVE  Successor(I, j, l)
  BY KeepsOn DEF Successor

\* acquire_source_snapshot of a completed acquisition.
LEMMA ReuseSound ==
    ASSUME JournalInv(MailboxItems), SnapshotInv, AcquireReuse
    PROVE  JournalInv(MailboxItems)' /\ SnapshotInv' /\ DiskMoves
  <1> DEFINE paths == DOMAIN EntriesOf(journal.manifest)
             queued == IF journal.stage \in {"SourceAcquisition", "MailboxAdmission"}
                       THEN QueueMailboxes(journal, paths)
                       ELSE journal
             k == IF queued.stage = "SourceAcquisition"
                  THEN SetStage(queued, "MailboxAdmission") ELSE queued
  <1>0. /\ journal # NoJournal /\ saving = "idle" /\ acquire.pc = "idle" /\ journal.acquired
        /\ journal' = k /\ disk' = disk /\ saving' = saving /\ unsaved' = unsaved
        /\ UNCHANGED snapshotVars
    BY DEF AcquireReuse, InMemory
  <1>1. JournalOf(MailboxItems, journal) /\ Acquired(journal)
    BY <1>0 DEF JournalInv, JournalTypes, JournalOf, Acquired
  <1>2. \A p \in paths : MailboxItem(p) \in MailboxItems
    <2>1. \A p \in paths : MailboxItem(p) \in Known(journal, "MailboxAdmission")
      BY <1>1 DEF SnapshotInv, AcquisitionInv, AcquiredSound, Accounted
    <2>2. Known(journal, "MailboxAdmission") \subseteq MailboxItems
      BY <1>1 DEF JournalOf, Known, WorkKinds
    <2> QED BY <2>1, <2>2
  <1>3. Successor(MailboxItems, journal, journal) /\ SameSnapshot(journal, journal)
    BY <1>1, <1>0, KeepsItself DEF Successor, SameSnapshot
  <1>4. Successor(MailboxItems, journal, queued) /\ SameSnapshot(journal, queued)
    BY <1>1, <1>2, <1>3, QueueMailboxesSucceeds
  <1> HIDE DEF queued
  <1>5. "MailboxAdmission" \in Stages /\ JournalOf(MailboxItems, queued)
    BY <1>4 DEF Stages, Rank, Successor
  <1>6. Successor(MailboxItems, queued, SetStage(queued, "MailboxAdmission"))
        /\ SameSnapshot(queued, SetStage(queued, "MailboxAdmission"))
    BY <1>5, SetStageSucceeds
  <1>7. Successor(MailboxItems, journal, k) /\ SameSnapshot(journal, k)
    BY <1>4, <1>6, SuccessorOn DEF SameSnapshot
  <1> HIDE DEF k
  <1>8. JournalInv(MailboxItems)'
    BY <1>0, <1>7, CallKeeps DEF JournalGoes, JournalInv, JournalTypes
  <1>9. AcquiredSound(k)
    BY <1>0, <1>7, SuccessorSound DEF SnapshotInv, AcquisitionInv
  <1>10. blocks' = blocks /\ acquire' = acquire /\ attempts' = attempts /\ k # NoJournal
    BY <1>0, <1>7 DEF snapshotVars, Successor
  <1>11. AcquiredSound(journal)' /\ AcquiredSound(disk)'
    BY <1>0, <1>9, <1>10
    DEF SnapshotInv, AcquisitionInv, AcquiredSound, Acquired, Readable, Accounted, ManifestLoads
  <1>12. OneSnapshot'
    BY <1>0, <1>1, <1>7, <1>10 DEF SnapshotInv, AcquisitionInv, OneSnapshot, Acquired, SameSnapshot
  <1>13. AcquireTypes' /\ StoredInOrder' /\ AcquisitionAlone'
    BY <1>0, <1>10 DEF SnapshotInv, AcquireTypes, SnapshotTypeOK, snapshotVars, AcquisitionInv,
                       StoredInOrder, AcquisitionAlone
  <1> QED BY <1>0, <1>8, <1>11, <1>12, <1>13 DEF SnapshotInv, AcquisitionInv, DiskMoves

\* An acquisition begins on a journal that records none.
LEMMA BeginSound ==
    ASSUME JournalInv(MailboxItems), SnapshotInv, AcquireBegin
    PROVE  JournalInv(MailboxItems)' /\ SnapshotInv' /\ DiskMoves
  <1>0. PICK k : k = [SetStage(journal, "SourceAcquisition")
                        EXCEPT !.started = TRUE, !.acquired = FALSE, !.manifest = Absent]
    OBVIOUS
  <1>1. /\ journal # NoJournal /\ saving = "idle" /\ ~journal.acquired
        /\ journal' = k /\ disk' = disk /\ saving' = saving /\ unsaved' = unsaved
        /\ acquire' = [Idle EXCEPT !.pc = "rsync", !.todo = Paths]
        /\ attempts < MaxAttempts /\ attempts' = attempts + 1
        /\ source' = source /\ mirror' = mirror /\ blocks' = blocks /\ changes' = changes
    BY <1>0 DEF AcquireBegin, InMemory
  <1>2. JournalOf(MailboxItems, journal)
    BY <1>1 DEF JournalInv, JournalTypes
  <1>3. "SourceAcquisition" \in Stages
    BY DEF Stages, Rank
  <1>4. JournalOf(MailboxItems, k)
    BY <1>0, <1>2, <1>3 DEF JournalOf, SetStage
  <1>5. /\ k.work = journal.work /\ k.outcome = journal.outcome
        /\ k.checkpoints = journal.checkpoints /\ k.acquired = FALSE
    BY <1>0, <1>2 DEF JournalOf, SetStage
  <1>6. Successor(MailboxItems, journal, k)
    BY <1>4, <1>5, SameWorkSucceeds
  <1>7. JournalInv(MailboxItems)'
    BY <1>1, <1>6, CallKeeps DEF JournalGoes, JournalInv, JournalTypes
  <1>8. journal.acquired = FALSE /\ ~Acquired(disk)
    BY <1>1, <1>2 DEF JournalOf, SnapshotInv, AcquisitionInv, OneSnapshot, Acquired
  <1>9. /\ acquire'.pc = "rsync" /\ acquire'.todo = Paths
        /\ acquire'.entries = [p \in {} |-> NoFile]
        /\ acquire' = [pc |-> "rsync", todo |-> Paths, entries |-> [p \in {} |-> NoFile]]
    BY <1>1 DEF Idle
  <1>10. [p \in {} |-> NoFile] \in EntryMaps
    BY DEF EntryMaps
  <1>11. AcquireTypes'
    BY <1>1, <1>9, <1>10, SourceSnapshotAssumption DEF SnapshotInv, AcquireTypes, SnapshotTypeOK
  <1>12. AcquisitionAlone' /\ StoredInOrder'
    BY <1>1, <1>4, <1>5, <1>9, JournalIsOne DEF AcquisitionAlone, StoredInOrder
  <1>13. OneSnapshot' /\ AcquiredSound(journal)' /\ AcquiredSound(disk)'
    BY <1>1, <1>5, <1>8 DEF OneSnapshot, AcquiredSound, Acquired
  <1> QED BY <1>1, <1>7, <1>11, <1>12, <1>13 DEF SnapshotInv, AcquisitionInv, DiskMoves

\* rsync brings over a file.
LEMMA RsyncSound ==
    ASSUME JournalInv(MailboxItems), SnapshotInv, NEW path \in Paths, RsyncFile(path)
    PROVE  JournalInv(MailboxItems)' /\ SnapshotInv' /\ DiskMoves
  <1>1. /\ UNCHANGED journalVars /\ blocks' = blocks /\ source' = source
        /\ changes' = changes /\ attempts' = attempts
        /\ mirror' = [mirror EXCEPT ![path] = source[path]]
        /\ acquire.pc = "rsync"
    BY DEF RsyncFile
  <1>2. JournalInv(MailboxItems)' /\ DiskMoves
    BY <1>1, JournalKept
  <1>3. OneSnapshot' /\ AcquiredSound(journal)' /\ AcquiredSound(disk)'
    BY <1>1, SoundKept
  <1>4. /\ acquire'.pc \in {"rsync", "collect"} /\ acquire'.todo \subseteq Paths
        /\ acquire'.entries = acquire.entries
        /\ acquire' \in [pc : {"idle", "rsync", "collect", "record"}, todo : SUBSET Paths,
                         entries : EntryMaps]
    BY DEF RsyncFile, SnapshotInv, AcquireTypes
  <1>5. AcquireTypes'
    BY <1>1, <1>4 DEF SnapshotInv, AcquireTypes, SnapshotTypeOK
  <1>6. AcquisitionAlone' /\ StoredInOrder'
    BY <1>1, <1>4 DEF SnapshotInv, AcquisitionInv, AcquisitionAlone, StoredInOrder, journalVars
  <1> QED BY <1>2, <1>3, <1>5, <1>6 DEF SnapshotInv, AcquisitionInv

\* A file of the mirror is stored and entered.
LEMMA CollectSound ==
    ASSUME JournalInv(MailboxItems), SnapshotInv, NEW path \in Paths, CollectEntry(path)
    PROVE  JournalInv(MailboxItems)' /\ SnapshotInv' /\ DiskMoves
  <1>1. /\ UNCHANGED journalVars /\ blocks \subseteq blocks' /\ source' = source
        /\ changes' = changes /\ attempts' = attempts /\ mirror' = mirror
        /\ acquire.pc = "collect"
    BY DEF CollectEntry
  <1>2. JournalInv(MailboxItems)' /\ DiskMoves
    BY <1>1, JournalKept
  <1>3. OneSnapshot' /\ AcquiredSound(journal)' /\ AcquiredSound(disk)'
    BY <1>1, SoundKept
  <1>a. acquire \in [pc : {"idle", "rsync", "collect", "record"}, todo : SUBSET Paths,
                     entries : EntryMaps]
    BY DEF SnapshotInv, AcquireTypes
  <1>b. PICK D \in SUBSET Paths : acquire.entries \in [D -> Contents]
    BY <1>a DEF EntryMaps
  <1>c. \A p \in D : Payload(acquire.entries[p]) \in blocks
    BY <1>b DEF SnapshotInv, AcquisitionInv, StoredInOrder
  <1>4. /\ acquire' \in [pc : {"idle", "rsync", "collect", "record"}, todo : SUBSET Paths,
                         entries : EntryMaps]
        /\ acquire'.pc = "collect"
        /\ DOMAIN acquire'.entries \subseteq Paths
        /\ \A p \in DOMAIN acquire'.entries : Payload(acquire'.entries[p]) \in blocks'
    <2>1. CASE mirror[path] \in Contents
      <3> DEFINE e == [p \in DOMAIN acquire.entries \cup {path} |->
                          IF p = path THEN mirror[path] ELSE acquire.entries[p]]
      <3>1. acquire' = [acquire EXCEPT !.todo = @ \ {path}, !.entries = e]
            /\ blocks' = blocks \cup {Payload(mirror[path])}
        BY <2>1 DEF CollectEntry
      <3>2. e \in [D \cup {path} -> Contents] /\ D \cup {path} \in SUBSET Paths
        BY <1>b, <2>1
      <3>3. e \in EntryMaps
        BY <3>2 DEF EntryMaps
      <3>4. \A p \in DOMAIN e : Payload(e[p]) \in blocks'
        BY <1>b, <1>c, <3>1
      <3>5. DOMAIN e \subseteq Paths
        BY <1>b
      <3> HIDE DEF e
      <3>6. /\ acquire'.entries = e /\ acquire'.pc = "collect"
            /\ acquire' \in [pc : {"idle", "rsync", "collect", "record"}, todo : SUBSET Paths,
                             entries : EntryMaps]
        BY <1>a, <1>1, <3>1, <3>3
      <3> QED BY <3>4, <3>5, <3>6
    <2>2. CASE mirror[path] \notin Contents
      <3>1. acquire' = [acquire EXCEPT !.todo = @ \ {path}] /\ blocks' = blocks
        BY <2>2 DEF CollectEntry
      <3>2. /\ acquire'.entries = acquire.entries /\ acquire'.pc = "collect"
            /\ acquire' \in [pc : {"idle", "rsync", "collect", "record"}, todo : SUBSET Paths,
                             entries : EntryMaps]
        BY <1>a, <1>1, <3>1
      <3> QED BY <1>b, <1>c, <3>1, <3>2
    <2> QED BY <2>1, <2>2
  <1>5. AcquireTypes'
    BY <1>1, <1>4 DEF SnapshotInv, AcquireTypes, SnapshotTypeOK
  <1>6. AcquisitionAlone' /\ StoredInOrder'
    BY <1>1, <1>4 DEF SnapshotInv, AcquisitionInv, AcquisitionAlone, StoredInOrder, journalVars
  <1> QED BY <1>2, <1>3, <1>5, <1>6 DEF SnapshotInv, AcquisitionInv

\* The manifest is stored.
LEMMA StoreManifestSound ==
    ASSUME JournalInv(MailboxItems), SnapshotInv, StoreManifest
    PROVE  JournalInv(MailboxItems)' /\ SnapshotInv' /\ DiskMoves
  <1>1. /\ UNCHANGED journalVars /\ source' = source
        /\ changes' = changes /\ attempts' = attempts /\ mirror' = mirror
        /\ acquire.pc = "collect" /\ acquire' = [acquire EXCEPT !.pc = "record"]
        /\ blocks' = blocks \cup {ManifestBlock(acquire.entries, attempts)}
    BY DEF StoreManifest
  <1>2. JournalInv(MailboxItems)' /\ DiskMoves
    BY <1>1, JournalKept
  <1>3. OneSnapshot' /\ AcquiredSound(journal)' /\ AcquiredSound(disk)'
    BY <1>1, SoundKept
  <1>4. /\ acquire'.pc = "record" /\ acquire'.todo = acquire.todo
        /\ acquire'.entries = acquire.entries
        /\ acquire' \in [pc : {"idle", "rsync", "collect", "record"}, todo : SUBSET Paths,
                         entries : EntryMaps]
    BY <1>1 DEF SnapshotInv, AcquireTypes
  <1>5. AcquireTypes'
    BY <1>1, <1>4 DEF SnapshotInv, AcquireTypes, SnapshotTypeOK
  <1>6. AcquisitionAlone' /\ StoredInOrder'
    BY <1>1, <1>4 DEF SnapshotInv, AcquisitionInv, AcquisitionAlone, StoredInOrder, journalVars
  <1> QED BY <1>2, <1>3, <1>5, <1>6 DEF SnapshotInv, AcquisitionInv

\* The acquisition is over, for one reason or the other.
LEMMA IdleTypes ==
    ASSUME AcquireTypes, acquire' = Idle, UNCHANGED <<source, mirror, changes, attempts>>
    PROVE  AcquireTypes' /\ StoredInOrder' /\ AcquisitionAlone'
  <1>1. Idle.pc = "idle" /\ Idle.todo = {} /\ Idle.entries = [p \in {} |-> NoFile]
    BY DEF Idle
  <1>2. [p \in {} |-> NoFile] \in EntryMaps /\ DOMAIN [p \in {} |-> NoFile] = {}
    BY DEF EntryMaps
  <1>3. Idle \in [pc : {"idle", "rsync", "collect", "record"}, todo : SUBSET Paths,
                  entries : EntryMaps]
    BY <1>2 DEF Idle
  <1>4. AcquireTypes'
    BY <1>1, <1>2, <1>3 DEF AcquireTypes, SnapshotTypeOK
  <1> QED BY <1>1, <1>2, <1>4 DEF StoredInOrder, AcquisitionAlone

\* The manifest is recorded in the journal, and its mailboxes are queued.
LEMMA RecordSound ==
    ASSUME JournalInv(MailboxItems), SnapshotInv, RecordSnapshot
    PROVE  JournalInv(MailboxItems)' /\ SnapshotInv' /\ DiskMoves
  <1>0. PICK m : m = ManifestBlock(acquire.entries, attempts)
    OBVIOUS
  <1>1. PICK j : j = [journal EXCEPT !.acquired = TRUE, !.manifest = m]
    OBVIOUS
  <1>2. PICK q : q = QueueMailboxes(j, DOMAIN acquire.entries)
    OBVIOUS
  <1>3. PICK k : k = SetStage(q, "MailboxAdmission")
    OBVIOUS
  <1>4. /\ acquire.pc = "record" /\ acquire' = Idle
        /\ journal' = k /\ disk' = disk /\ saving' = saving /\ unsaved' = unsaved
        /\ blocks' = blocks /\ UNCHANGED <<source, mirror, changes, attempts>>
    BY <1>0, <1>1, <1>2, <1>3 DEF RecordSnapshot
  <1>5. /\ journal # NoJournal /\ journal.acquired = FALSE /\ saving = "idle"
        /\ JournalOf(MailboxItems, journal) /\ ~Acquired(disk)
    BY <1>4 DEF SnapshotInv, AcquisitionInv, AcquisitionAlone, OneSnapshot, Acquired,
                JournalInv, JournalTypes
  <1>6. /\ JournalOf(MailboxItems, j) /\ j.acquired = TRUE /\ j.manifest = m
        /\ j.work = journal.work /\ j.outcome = journal.outcome
        /\ j.checkpoints = journal.checkpoints
    BY <1>1, <1>5 DEF JournalOf
  <1>7. Successor(MailboxItems, journal, j)
    BY <1>6, SameWorkSucceeds
  <1>8. \A p \in DOMAIN acquire.entries : MailboxItem(p) \in MailboxItems
    BY DEF SnapshotInv, AcquireTypes, SnapshotTypeOK, MailboxItems
  <1>9. /\ Successor(MailboxItems, j, q) /\ SameSnapshot(j, q)
        /\ \A p \in DOMAIN acquire.entries : MailboxItem(p) \in Known(q, "MailboxAdmission")
    BY <1>2, <1>6, <1>8, QueueMailboxesSucceeds
  <1>10. "MailboxAdmission" \in Stages /\ "MailboxAdmission" \in WorkKinds
         /\ JournalOf(MailboxItems, q)
    BY <1>9 DEF Stages, Rank, WorkKinds, Successor
  <1>11. Successor(MailboxItems, q, k) /\ SameSnapshot(q, k)
    BY <1>3, <1>10, SetStageSucceeds
  <1>12. Successor(MailboxItems, journal, k) /\ k.acquired = TRUE /\ k.manifest = m
    BY <1>6, <1>7, <1>9, <1>11, SuccessorOn DEF SameSnapshot
  <1>13. JournalInv(MailboxItems)'
    BY <1>4, <1>5, <1>12, CallKeeps DEF JournalGoes, JournalInv, JournalTypes
  <1>14. m \in blocks /\ m.media = "application/json" /\ EntriesOf(m) = acquire.entries
    BY <1>0, <1>4 DEF SnapshotInv, AcquisitionInv, StoredInOrder, ManifestBlock, EntriesOf
  <1>15. Readable(k)
    BY <1>12, <1>14 DEF SnapshotInv, AcquisitionInv, StoredInOrder, Readable, ManifestLoads
  <1>16. Accounted(k)
    BY <1>9, <1>10, <1>11, <1>12, <1>14 DEF Accounted, Successor, Keeps
  <1>17. AcquiredSound(journal)' /\ AcquiredSound(disk)' /\ OneSnapshot'
    BY <1>4, <1>5, <1>15, <1>16
    DEF AcquiredSound, Acquired, Readable, Accounted, ManifestLoads, OneSnapshot
  <1>18. AcquireTypes' /\ StoredInOrder' /\ AcquisitionAlone'
    BY <1>4, IdleTypes DEF SnapshotInv
  <1> QED BY <1>4, <1>13, <1>17, <1>18 DEF SnapshotInv, AcquisitionInv, DiskMoves

\* An acquisition that fails, a source that changes, a process that is stopped.
LEMMA OtherSound ==
    ASSUME JournalInv(MailboxItems), SnapshotInv, AcquireFails \/ SourceChanges \/ Evicted
    PROVE  JournalInv(MailboxItems)' /\ SnapshotInv' /\ DiskMoves
  <1>1. CASE AcquireFails
    <2>1. /\ UNCHANGED journalVars /\ acquire' = Idle /\ blocks' = blocks
          /\ UNCHANGED <<source, mirror, changes, attempts>>
      BY <1>1 DEF AcquireFails
    <2>2. JournalInv(MailboxItems)' /\ DiskMoves
      BY <2>1, JournalKept
    <2>3. OneSnapshot' /\ AcquiredSound(journal)' /\ AcquiredSound(disk)'
      BY <2>1, SoundKept
    <2> QED BY <2>1, <2>2, <2>3, IdleTypes DEF SnapshotInv, AcquisitionInv
  <1>2. CASE SourceChanges
    <2>1. /\ UNCHANGED journalVars /\ acquire' = acquire /\ blocks' = blocks /\ mirror' = mirror
          /\ attempts' = attempts /\ changes < MaxSourceChanges /\ changes' = changes + 1
          /\ \E p \in Paths : \E f \in Files \ {source[p]} : source' = [source EXCEPT ![p] = f]
      BY <1>2 DEF SourceChanges
    <2>2. JournalInv(MailboxItems)' /\ DiskMoves
      BY <2>1, JournalKept
    <2>3. OneSnapshot' /\ AcquiredSound(journal)' /\ AcquiredSound(disk)'
      BY <2>1, SoundKept
    <2>4. source' \in [Paths -> Files]
      BY <2>1 DEF SnapshotInv, AcquireTypes, SnapshotTypeOK
    <2>5. AcquireTypes'
      BY <2>1, <2>4, SourceSnapshotAssumption DEF SnapshotInv, AcquireTypes, SnapshotTypeOK
    <2>6. AcquisitionAlone' /\ StoredInOrder'
      BY <2>1 DEF SnapshotInv, AcquisitionInv, AcquisitionAlone, StoredInOrder, journalVars
    <2> QED BY <2>2, <2>3, <2>5, <2>6 DEF SnapshotInv, AcquisitionInv
  <1>3. CASE Evicted
    <2>1. /\ Stop /\ acquire' = Idle /\ blocks' = blocks
          /\ UNCHANGED <<source, mirror, changes, attempts>>
      BY <1>3 DEF Evicted
    <2>2. JournalInv(MailboxItems)' /\ DiskMoves
      BY <2>1, SaveKeeps, StoreMoves DEF StoreNext
    <2>3. journal' = NoJournal /\ disk' = disk
      BY <2>1 DEF Stop
    <2>4. OneSnapshot' /\ AcquiredSound(journal)' /\ AcquiredSound(disk)'
      BY <2>1, <2>3 DEF SnapshotInv, AcquisitionInv, OneSnapshot, AcquiredSound, Acquired,
                        Readable, Accounted, ManifestLoads
    <2> QED BY <2>1, <2>2, <2>4, IdleTypes DEF SnapshotInv, AcquisitionInv
  <1> QED BY <1>1, <1>2, <1>3

\* Every step of the acquisition.
LEMMA SnapshotNextSound ==
    ASSUME JournalInv(MailboxItems), SnapshotInv, SnapshotNext
    PROVE  JournalInv(MailboxItems)' /\ SnapshotInv' /\ DiskMoves
  BY JournalStepSound, ReuseSound, BeginSound, RsyncSound, CollectSound, StoreManifestSound,
     RecordSound, OtherSound DEF SnapshotNext

\* The build stays what it is.
LEMMA BuildKept ==
    ASSUME SnapshotNext
    PROVE  windows' = windows
  <1>1. CASE JournalStep
    BY <1>1 DEF JournalStep, WorkCall, Change, LoadOrNew, SaveWrite, SavePersist, SaveFails
  <1>2. CASE AcquireReuse \/ AcquireBegin \/ RecordSnapshot
    BY <1>2 DEF AcquireReuse, AcquireBegin, RecordSnapshot
  <1>3. CASE StoreManifest \/ AcquireFails \/ SourceChanges \/ Evicted
    BY <1>3 DEF StoreManifest, AcquireFails, SourceChanges, Evicted, Stop, journalVars
  <1>4. CASE \E p \in Paths : RsyncFile(p) \/ CollectEntry(p)
    BY <1>4 DEF RsyncFile, CollectEntry, journalVars
  <1> QED BY <1>1, <1>2, <1>3, <1>4 DEF SnapshotNext

-----------------------------------------------------------------------------
(* The programs that keep state.                                           *)

\* A saved acquisition stays the one of its generation.
SnapshotFixedByStep ==
    disk # NoJournal /\ disk.acquired
        => disk' # NoJournal /\ disk'.acquired /\ disk'.manifest = disk.manifest

KeptInv ==
    /\ SnapshotInv
    /\ part = "journal" => JournalInv(AllItems) /\ NotAcquired /\ acquire.pc = "idle"
    /\ part # "journal" => JournalInv(MailboxItems) /\ windows = FALSE

\* No journal and no acquisition at the start.
LEMMA StoresInitKept ==
    ASSUME StoresInit
    PROVE  KeptInv
  <1>1. PICK build \in BOOLEAN : JournalStart(build) /\ (part # "journal" => build = FALSE)
    BY DEF StoresInit, JournalInit
  <1>2. journal = NoJournal /\ disk = NoJournal /\ windows = build
    BY <1>1 DEF JournalStart
  <1>3. SnapshotInv
    BY <1>2, AcquireStartInv DEF StoresInit
  <1>4. JournalInv(AllItems) /\ JournalInv(MailboxItems)
    BY <1>1, JournalStartInv
  <1>5. acquire.pc = "idle"
    BY DEF StoresInit, AcquireStart, Idle
  <1>6. NotAcquired
    BY <1>2 DEF NotAcquired
  <1> QED BY <1>1, <1>2, <1>3, <1>4, <1>5, <1>6 DEF KeptInv

\* A step of the journal program.
LEMMA JournalPartKept ==
    ASSUME KeptInv, part = "journal", JournalNext, UNCHANGED <<part, snapshotVars>>
    PROVE  KeptInv' /\ KeptByStep /\ SnapshotFixedByStep
  <1>1. JournalInv(AllItems)' /\ NotAcquired' /\ KeptByStep /\ part' = "journal"
    BY JournalNextKeeps DEF KeptInv
  <1>2. acquire' = acquire /\ blocks' = blocks /\ attempts' = attempts /\ acquire.pc = "idle"
    BY DEF KeptInv, snapshotVars
  <1>3. SnapshotInv'
    <2>1. AcquireTypes'
      BY DEF KeptInv, SnapshotInv, AcquireTypes, SnapshotTypeOK, snapshotVars
    <2>2. AcquisitionAlone' /\ StoredInOrder'
      BY <1>2 DEF KeptInv, SnapshotInv, AcquisitionInv, AcquisitionAlone, StoredInOrder
    <2>3. OneSnapshot' /\ AcquiredSound(journal)' /\ AcquiredSound(disk)'
      BY <1>1 DEF NotAcquired, OneSnapshot, AcquiredSound, Acquired
    <2> QED BY <2>1, <2>2, <2>3 DEF SnapshotInv, AcquisitionInv
  <1>4. SnapshotFixedByStep
    BY DEF KeptInv, NotAcquired, SnapshotFixedByStep
  <1> QED BY <1>1, <1>2, <1>3, <1>4 DEF KeptInv

\* A step of the acquisition program.
LEMMA SnapshotPartKept ==
    ASSUME KeptInv, part = "snapshot", SnapshotNext, part' = part
    PROVE  KeptInv' /\ KeptByStep /\ SnapshotFixedByStep
  <1>1. JournalInv(MailboxItems)' /\ SnapshotInv' /\ DiskMoves
    BY SnapshotNextSound DEF KeptInv
  <1>2. windows = FALSE /\ windows' = FALSE
    BY BuildKept DEF KeptInv
  <1>3. KeptInv'
    BY <1>1, <1>2 DEF KeptInv
  <1>4. KeptByStep
    BY <1>1, DiskStepKeeps DEF KeptInv
  <1>5. ASSUME disk # NoJournal, disk.acquired
        PROVE  disk' # NoJournal /\ disk'.acquired /\ disk'.manifest = disk.manifest
    <2>1. CASE disk' = disk
      BY <1>5, <2>1
    <2>2. CASE disk' = journal /\ journal # NoJournal
      <3>1. JournalOf(MailboxItems, disk)
        BY <1>5 DEF KeptInv, JournalInv, JournalTypes
      <3>2. Acquired(disk)
        BY <1>5, <3>1 DEF Acquired, JournalOf
      <3>3. journal.acquired = TRUE /\ journal.manifest = disk.manifest
        BY <2>2, <3>2 DEF KeptInv, SnapshotInv, AcquisitionInv, OneSnapshot, Acquired
      <3> QED BY <2>2, <3>3
    <2> QED BY <1>1, <1>2, <2>1, <2>2 DEF DiskMoves
  <1> QED BY <1>3, <1>4, <1>5 DEF SnapshotFixedByStep

\* The other programs, and stuttering, change neither the journal nor the
\* acquisition.
LEMMA OtherPartKept ==
    ASSUME KeptInv, UNCHANGED <<part, journalVars, snapshotVars>>
    PROVE  KeptInv' /\ disk' = disk
  <1>1. part' = part /\ windows' = windows /\ acquire' = acquire /\ disk' = disk
        /\ journal' = journal /\ blocks' = blocks /\ UNCHANGED journalVars
    BY DEF journalVars, snapshotVars
  <1>2. JournalInv(AllItems) => JournalInv(AllItems)'
    BY <1>1, JournalKept
  <1>3. JournalInv(MailboxItems) => JournalInv(MailboxItems)'
    BY <1>1, JournalKept
  <1>4. OneSnapshot' /\ AcquiredSound(journal)' /\ AcquiredSound(disk)'
    BY <1>1, SoundKept DEF KeptInv
  <1>5. AcquireTypes'
    BY DEF KeptInv, SnapshotInv, AcquireTypes, SnapshotTypeOK, snapshotVars
  <1>6. AcquisitionAlone' /\ StoredInOrder'
    BY DEF KeptInv, SnapshotInv, AcquisitionInv, AcquisitionAlone, StoredInOrder, snapshotVars,
           journalVars
  <1>7. SnapshotInv'
    BY <1>4, <1>5, <1>6 DEF SnapshotInv, AcquisitionInv
  <1>8. NotAcquired => NotAcquired'
    BY <1>1 DEF NotAcquired
  <1> QED BY <1>1, <1>2, <1>3, <1>7, <1>8 DEF KeptInv

\* Every step keeps the invariant and what was saved.
LEMMA StoresNextKept ==
    ASSUME KeptInv, [StoresNext]_storesVars
    PROVE  KeptInv' /\ (disk' = disk \/ (KeptByStep /\ SnapshotFixedByStep))
  <1>1. CASE part = "journal" /\ JournalNext /\ UNCHANGED <<part, snapshotVars>>
    BY <1>1, JournalPartKept
  <1>2. CASE part = "snapshot" /\ SnapshotNext /\ part' = part
    BY <1>2, SnapshotPartKept
  <1>3. CASE UNCHANGED <<part, journalVars, snapshotVars>>
    BY <1>3, OtherPartKept
  <1> QED BY <1>1, <1>2, <1>3 DEF StoresNext, storesVars

\* The type of a journal, whatever manifest it names.
LEMMA JournalOfType ==
    ASSUME NEW j, JournalOf(AllItems, j)
    PROVE  [j EXCEPT !.manifest = Absent] \in WorkflowJournals
  BY DEF JournalOf, WorkflowJournals

\* The invariant says what a restart relies on.
LEMMA KeptIsResumable ==
    ASSUME KeptInv
    PROVE  ResumeSound
  <1>1. part = "journal" => JournalTypeOK
    BY JournalOfType DEF KeptInv, JournalInv, JournalTypes, JournalTypeOK
  <1>2. SnapshotTypeOK
    BY DEF KeptInv, SnapshotInv, AcquireTypes
  <1>3. disk # NoJournal => Checkpointed(disk) /\ Validate(disk)
    BY DEF KeptInv, JournalInv, CheckpointsKept, SavedValid
  <1>4. disk = NoJournal \/ JournalOf(AllItems, disk) \/ JournalOf(MailboxItems, disk)
    BY DEF KeptInv, JournalInv, JournalTypes
  <1>5. CheckpointsHoldAfterRestart
    <2> SUFFICES ASSUME disk # NoJournal, NEW kind \in WorkKinds,
                        NEW item \in disk.work[kind].completed
                 PROVE  \E c \in disk.checkpoints : /\ c.kind = kind /\ c.item = item
                                                    /\ Rank[c.stage] <= Rank[disk.stage]
      BY DEF CheckpointsHoldAfterRestart
    <2>1. PICK c \in disk.checkpoints : c.kind = kind /\ c.item = item
      BY <1>3 DEF Checkpointed, Completed
    <2>2. Rank[disk.stage] >= Rank[c.stage]
      BY <1>3, <2>1 DEF Validate, CheckpointsValid
    <2>3. c.stage \in Stages /\ disk.stage \in Stages
      BY <1>4, <2>1 DEF JournalOf
    <2>4. \A stage \in Stages : Rank[stage] \in Nat
      BY DEF Stages, Rank
    <2> QED BY <2>1, <2>2, <2>3, <2>4
  <1>6. disk # NoJournal /\ disk.acquired => Readable(disk) /\ Accounted(disk)
    <2> SUFFICES ASSUME disk # NoJournal, disk.acquired
                 PROVE  Readable(disk) /\ Accounted(disk)
      OBVIOUS
    <2>1. disk.acquired = TRUE
      BY <1>4 DEF JournalOf
    <2> QED BY <2>1 DEF KeptInv, SnapshotInv, AcquisitionInv, AcquiredSound, Acquired
  <1>7. DurableManifestReadable /\ MailboxesAccounted
    BY <1>6 DEF Readable, Accounted, DurableManifestReadable, MailboxesAccounted, Known
  <1> QED BY <1>1, <1>2, <1>5, <1>7 DEF ResumeSound

\* A restart can go on from what is on disk (WorkflowJournalStore::save and load,
\* record_checkpoint, acquire_source_snapshot): for every set of work items, paths
\* and contents, any number of changes, attempts, saves and stops in any order.
THEOREM ResumeSafe == StoresSpec => []ResumeSound
  <1>1. StoresInit => KeptInv
    BY StoresInitKept
  <1>2. KeptInv /\ [StoresNext]_storesVars => KeptInv'
    BY StoresNextKept
  <1>3. KeptInv => ResumeSound
    BY KeptIsResumable
  <1> QED BY <1>1, <1>2, <1>3, PTL DEF StoresSpec

\* What was saved stays so: committed work, an outcome, the journal itself on every
\* build but Windows', and the snapshot of the generation
\* (WorkflowJournalStore::save, validate_terminal_state, acquire_source_snapshot).
THEOREM SavedStateSafe == StoresSpec => SavedStateKept
  <1>1. StoresInit => KeptInv
    BY StoresInitKept
  <1>2. KeptInv /\ [StoresNext]_storesVars => KeptInv'
    BY StoresNextKept
  <1>3. KeptInv /\ [StoresNext]_storesVars
        => [disk' # NoJournal => \A kind \in WorkKinds :
               CompletedOf(disk, kind) \subseteq CompletedOf(disk', kind)]_disk
    BY StoresNextKept DEF KeptByStep
  <1>4. KeptInv /\ [StoresNext]_storesVars
        => [disk # NoJournal /\ disk' # NoJournal /\ disk.stage \in TerminalStages
              => disk'.stage \in TerminalStages]_disk
    BY StoresNextKept DEF KeptByStep
  <1>5. KeptInv /\ [StoresNext]_storesVars
        => [disk # NoJournal /\ ~windows => disk' # NoJournal]_disk
    BY StoresNextKept DEF KeptByStep
  <1>6. KeptInv /\ [StoresNext]_storesVars
        => [disk # NoJournal /\ disk.acquired
              => disk' # NoJournal /\ disk'.acquired /\ disk'.manifest = disk.manifest]_disk
    BY StoresNextKept DEF SnapshotFixedByStep
  <1> QED
    BY <1>1, <1>2, <1>3, <1>4, <1>5, <1>6, PTL
    DEF StoresSpec, SavedStateKept, CommittedWorkKept, SavedOutcomeIsFinal, JournalNeverLost,
        SnapshotFixed

-----------------------------------------------------------------------------
(* The answers of the MCP server.                                          *)

Errors == {"none", "top_k", "summary", "store", "missing root", "leaf root", "provider",
           "search", "email"}
CallRecords ==
    [tool : {"none", "search", "rooted", "email"},
     at : {"idle", "resolve", "root", "embed", "search", "again", "done"},
     topK : Nat, root : Runs \cup {NoRun}, since : Runs \cup {NoRun},
     fault : BOOLEAN, found : Seq(DOMAIN Entries), error : Errors]

McpTypes ==
    /\ summary \in Runs \cup {NoRun, Empty}
    /\ persisted \subseteq Runs
    /\ runAt \in {"idle", "persist", "truncate", "fill"}
    /\ done \in Runs \cup {NoRun}
    /\ calls \in [ToolCalls -> CallRecords]

\* The blocks of a run are stored before its summary names it, and the summary
\* names no run that has not begun.
SummaryNamesStored ==
    /\ summary \in Runs => summary <= done
    /\ summary \in Runs \ IngestionOnly => summary \in persisted
    /\ runAt # "idle" => done \in Runs
    /\ runAt \in {"truncate", "fill"} => done \in persisted \cup IngestionOnly

\* A call on its way: what it has read of the index is no older than the summary it
\* began with, and stored when the summary named it.
CallOnItsWay(r) ==
    /\ r.at # "done" => r.error = "none"
    /\ r.at = "idle" => r.tool = "none"
    /\ r.at = "resolve" => /\ r.tool = "search"
                           /\ r.since <= done
                           /\ summary \in Runs => r.since <= summary
    /\ r.at \in {"root", "embed", "search", "again"} =>
          /\ r.root \in Runs /\ r.tool \in {"search", "rooted"}
          /\ r.tool = "search" => r.since <= r.root /\ r.root \in persisted

\* A call that has its answer.
CallAnswered(r) ==
    r.at = "done" =>
        /\ r.error = "none" /\ r.tool \in {"search", "rooted"} =>
              /\ r.root \in Runs
              /\ \A i \in DOMAIN r.found :
                    \E j \in DOMAIN Reached[r.root] : Reached[r.root][j] = r.found[i]
        /\ r.error = "none" /\ r.tool = "search" => r.since <= r.root
        /\ r.error = "none" /\ r.tool = "email" => Entries[r.found[1]] = <<"email">>
        /\ r.error = "search" /\ r.fault = FALSE => Reached[r.root] = <<>>
        /\ r.tool = "search" => r.error # "missing root"

CallSound(r) == CallOnItsWay(r) /\ CallAnswered(r)

CallsSound == \A c \in ToolCalls : CallSound(calls[c])

McpInv == McpTypes /\ SummaryNamesStored /\ CallsSound

\* Runs are numbered.
LEMMA RunNumbers ==
    /\ Runs \subseteq Nat /\ NoRun \notin Runs /\ Empty \notin Runs
    /\ NoRun = 0 /\ IngestionOnly \subseteq Runs
  BY RunsAssumption, TreeAssumption DEF NoRun, Empty

\* A call that has not begun.
LEMMA NewCallIs == NewCall \in CallRecords /\ CallSound(NewCall)
  <1>1. NewCall \in CallRecords
    BY DEF NewCall, CallRecords, Errors, NoRun
  <1>2. NewCall.at = "idle" /\ NewCall.tool = "none" /\ NewCall.error = "none"
    BY DEF NewCall
  <1> QED BY <1>1, <1>2 DEF CallSound, CallOnItsWay, CallAnswered

\* At the start nothing is published and no call has begun.
LEMMA McpInitInv ==
    ASSUME McpInit
    PROVE  McpInv
  <1>1. McpTypes
    BY NewCallIs, RunNumbers DEF McpInit, McpTypes
  <1>2. SummaryNamesStored
    BY RunNumbers DEF McpInit, SummaryNamesStored
  <1>3. CallsSound
    BY NewCallIs DEF McpInit, CallsSound
  <1> QED BY <1>1, <1>2, <1>3 DEF McpInv

\* A step of one call, which leaves the index alone.
CallGoes(c, r) == calls' = [calls EXCEPT ![c] = r] /\ IndexKept

\* Such a step keeps the invariant.
LEMMA CallKept ==
    ASSUME McpInv, NEW c \in ToolCalls, NEW r \in CallRecords, CallSound(r),
           CallGoes(c, r)
    PROVE  McpInv'
  <1>1. summary' = summary /\ persisted' = persisted /\ runAt' = runAt /\ done' = done
        /\ calls' = [calls EXCEPT ![c] = r]
    BY DEF CallGoes, IndexKept
  <1>2. McpTypes'
    BY <1>1 DEF McpInv, McpTypes
  <1>3. SummaryNamesStored'
    BY <1>1 DEF McpInv, SummaryNamesStored
  <1>4. CallsSound'
    <2>1. ASSUME NEW d \in ToolCalls, NEW q, q = calls'[d]
          PROVE  CallSound(q)
      BY <1>1, <2>1 DEF McpInv, McpTypes, CallsSound
    <2>2. ASSUME NEW q, CallSound(q)
          PROVE  CallSound(q)'
      BY <2>2, <1>1 DEF CallSound, CallOnItsWay, CallAnswered
    <2> QED BY <2>1, <2>2 DEF CallsSound
  <1> QED BY <1>2, <1>3, <1>4 DEF McpInv

\* The indexer publishes while calls are under way.
LEMMA IndexStep ==
    ASSUME McpInv, StartRun \/ PersistBlocks \/ TruncateSummary \/ FillSummary \/ Killed
    PROVE  McpInv'
  <1>1. calls' = calls
    BY DEF StartRun, PersistBlocks, TruncateSummary, FillSummary, Killed
  <1>2. McpTypes'
    BY <1>1, RunNumbers DEF McpInv, McpTypes, SummaryNamesStored, StartRun, PersistBlocks,
       TruncateSummary, FillSummary, Killed
  <1>3. SummaryNamesStored'
    BY RunNumbers DEF McpInv, McpTypes, SummaryNamesStored, StartRun, PersistBlocks,
       TruncateSummary, FillSummary, Killed
  <1>4. /\ persisted \subseteq persisted' /\ done' \in Nat /\ done \in Nat /\ done <= done'
        /\ summary' \in Runs => summary' = summary \/ summary' = done
    BY RunNumbers DEF McpInv, McpTypes, StartRun, PersistBlocks, TruncateSummary, FillSummary,
       Killed
  <1>5. CallsSound'
    <2> SUFFICES ASSUME NEW d \in ToolCalls
                 PROVE  CallSound(calls[d])'
      BY DEF CallsSound
    <2>1. PICK q : q = calls[d]
      OBVIOUS
    <2>2. CallSound(q) /\ q \in CallRecords /\ calls'[d] = q
      BY <2>1, <1>1 DEF McpInv, McpTypes, CallsSound
    <2>3. q.since \in Nat
      <3>1. q.since \in Runs \cup {NoRun}
        BY <2>2 DEF CallRecords
      <3>2. \A n \in Runs \cup {NoRun} : n \in Nat
        BY RunNumbers
      <3> QED BY <3>1, <3>2
    <2>4. CallOnItsWay(calls[d])'
      BY <2>2, <2>3, <1>4, RunNumbers DEF CallSound, CallOnItsWay
    <2>5. CallAnswered(calls[d])'
      BY <2>2 DEF CallSound, CallAnswered
    <2> QED BY <2>4, <2>5 DEF CallSound
  <1> QED BY <1>2, <1>3, <1>5 DEF McpInv

\* The fields of a call.
Fields == {"tool", "at", "topK", "root", "since", "fault", "found", "error"}

\* A call is its fields.
LEMMA CallFields ==
    ASSUME NEW q, q = [f \in Fields |-> q[f]],
           q.tool \in {"none", "search", "rooted", "email"},
           q.at \in {"idle", "resolve", "root", "embed", "search", "again", "done"},
           q.topK \in Nat, q.root \in Runs \cup {NoRun}, q.since \in Runs \cup {NoRun},
           q.fault \in BOOLEAN, q.found \in Seq(DOMAIN Entries), q.error \in Errors
    PROVE  q \in CallRecords
  BY DEF CallRecords, Fields

\* The fields that a step changes, and those it leaves.
LEMMA ChangedFields ==
    ASSUME NEW r \in CallRecords, NEW ch, NEW q, q = Changed(r, ch)
    PROVE  /\ q = [f \in Fields |-> q[f]]
           /\ \A f \in Fields : q[f] = IF f \in DOMAIN ch THEN ch[f] ELSE r[f]
  BY DEF Changed, CallRecords, Fields

\* What a step makes of its call r: the call q.
Becomes(c, r, ch, q) ==
    /\ CallGoes(c, q) /\ r \in CallRecords /\ CallSound(r)
    /\ q = [f \in Fields |-> q[f]]
    /\ \A f \in Fields : q[f] = IF f \in DOMAIN ch THEN ch[f] ELSE r[f]

\* The effect of Set.
LEMMA SetIs ==
    ASSUME McpInv, NEW c \in ToolCalls, NEW ch, Set(c, ch), IndexKept, NEW r, r = calls[c]
    PROVE  \E q : Becomes(c, r, ch, q)
  <1>1. CallGoes(c, Changed(r, ch)) /\ r \in CallRecords /\ CallSound(r)
    BY DEF Set, CallGoes, McpInv, McpTypes, CallsSound
  <1>2. PICK q : q = Changed(r, ch)
    OBVIOUS
  <1>3. Becomes(c, r, ch, q)
    BY <1>1, <1>2, ChangedFields DEF Becomes
  <1> QED BY <1>3

\* A call as far as it has come, with its fields of the right kind.
LEMMA GoesKeeps ==
    ASSUME McpInv, NEW c \in ToolCalls, NEW q, CallGoes(c, q), q = [f \in Fields |-> q[f]],
           q.tool \in {"none", "search", "rooted", "email"},
           q.at \in {"idle", "resolve", "root", "embed", "search", "again", "done"},
           q.topK \in Nat, q.root \in Runs \cup {NoRun}, q.since \in Runs \cup {NoRun},
           q.fault \in BOOLEAN, q.found \in Seq(DOMAIN Entries), q.error \in Errors,
           CallSound(q)
    PROVE  McpInv'
  BY CallFields, CallKept

\* The kinds of the fields.
LEMMA FieldKinds ==
    ASSUME NEW r \in CallRecords
    PROVE  /\ r.tool \in {"none", "search", "rooted", "email"}
           /\ r.at \in {"idle", "resolve", "root", "embed", "search", "again", "done"}
           /\ r.topK \in Nat /\ r.root \in Runs \cup {NoRun} /\ r.since \in Runs \cup {NoRun}
           /\ r.fault \in BOOLEAN /\ r.found \in Seq(DOMAIN Entries) /\ r.error \in Errors
  BY DEF CallRecords

\* An error answers the call, and claims nothing.
LEMMA FailKeeps ==
    ASSUME McpInv, NEW c \in ToolCalls, NEW error \in Errors \ {"none"},
           error = "missing root" => calls[c].tool # "search",
           error = "search" => Reached[calls[c].root] = <<>>,
           Fail(c, error), IndexKept
    PROVE  McpInv'
  <1>1. PICK r : r = calls[c]
    OBVIOUS
  <1> DEFINE ch == [at |-> "done", error |-> error]
  <1>a. Set(c, ch)
    BY DEF Fail
  <1>2. PICK q : Becomes(c, r, ch, q)
    BY <1>1, <1>a, SetIs
  <1>3. /\ q.tool = r.tool /\ q.at = "done" /\ q.topK = r.topK /\ q.root = r.root
        /\ q.since = r.since /\ q.found = r.found /\ q.error = error
    BY <1>2 DEF Becomes, Fields
  <1>4. q.fault = r.fault
    BY <1>2 DEF Becomes, Fields
  <1>5. CallSound(q)
    BY <1>1, <1>3 DEF CallSound, CallOnItsWay, CallAnswered
  <1> QED BY <1>2, <1>3, <1>4, <1>5, FieldKinds, GoesKeeps DEF Becomes

\* So does a fault.
LEMMA FaultKeeps ==
    ASSUME McpInv, NEW c \in ToolCalls, NEW error \in {"store", "provider"},
           Fault(c, error), IndexKept
    PROVE  McpInv'
  <1>1. PICK r : r = calls[c]
    OBVIOUS
  <1> DEFINE ch == [at |-> "done", error |-> error, fault |-> TRUE]
  <1>a. Set(c, ch)
    BY DEF Fault
  <1>2. PICK q : Becomes(c, r, ch, q)
    BY <1>1, <1>a, SetIs
  <1>3. /\ q.tool = r.tool /\ q.at = "done" /\ q.topK = r.topK /\ q.root = r.root
        /\ q.since = r.since /\ q.found = r.found /\ q.error = error
    BY <1>2 DEF Becomes, Fields
  <1>4. q.fault = TRUE
    BY <1>2 DEF Becomes, Fields
  <1>5. CallSound(q)
    BY <1>3 DEF CallSound, CallOnItsWay, CallAnswered
  <1>6. error \in Errors
    BY DEF Errors
  <1> QED BY <1>2, <1>3, <1>4, <1>5, <1>6, FieldKinds, GoesKeeps DEF Becomes

\* A search begins with the summary it finds.
LEMMA StartSearchKeeps ==
    ASSUME McpInv, NEW c \in ToolCalls, StartSearch(c)
    PROVE  McpInv'
  <1>0. IndexKept /\ calls[c].at = "idle"
    BY DEF StartSearch
  <1>1. PICK k \in 0..MaxTopK :
          IF k = 0 THEN Fail(c, "top_k")
          ELSE Set(c, [tool |-> "search", at |-> "resolve", topK |-> k,
                       since |-> IF summary \in Runs THEN summary ELSE NoRun])
    BY DEF StartSearch
  <1>2. CASE k = 0
    BY <1>0, <1>1, <1>2, FailKeeps DEF Errors
  <1>3. CASE k # 0
    <2>0. PICK n : n = IF summary \in Runs THEN summary ELSE NoRun
      OBVIOUS
    <2> DEFINE ch == [tool |-> "search", at |-> "resolve", topK |-> k, since |-> n]
    <2>1. Set(c, ch)
      BY <1>1, <1>3, <2>0
    <2>2. PICK r : r = calls[c]
      OBVIOUS
    <2>3. PICK q : Becomes(c, r, ch, q)
      BY <1>0, <2>1, <2>2, SetIs
    <2>4. /\ q.tool = "search" /\ q.at = "resolve" /\ q.topK = k /\ q.root = r.root
          /\ q.since = n /\ q.found = r.found /\ q.error = r.error
      BY <2>3 DEF Becomes, Fields
    <2>5. q.fault = r.fault
      BY <2>3 DEF Becomes, Fields
    <2>6. r.error = "none"
      BY <1>0, <2>2, <2>3 DEF Becomes, CallSound, CallOnItsWay
    <2>7. /\ n \in Runs \cup {NoRun} /\ n <= done
          /\ summary \in Runs => n <= summary
      <3>1. CASE summary \in Runs
        BY <3>1, <2>0, RunNumbers DEF McpInv, McpTypes, SummaryNamesStored
      <3>2. CASE summary \notin Runs
        <4>1. done \in Nat
          BY RunNumbers DEF McpInv, McpTypes
        <4> QED BY <4>1, <3>2, <2>0, RunNumbers
      <3> QED BY <3>1, <3>2
    <2>8. CallSound(q)
      BY <2>4, <2>6, <2>7 DEF CallSound, CallOnItsWay, CallAnswered
    <2>9. k \in Nat
      OBVIOUS
    <2> QED BY <2>3, <2>4, <2>5, <2>7, <2>8, <2>9, FieldKinds, GoesKeeps DEF Becomes
  <1> QED BY <1>2, <1>3

\* The command's search begins with the root it is given.
LEMMA StartRootedKeeps ==
    ASSUME McpInv, NEW c \in ToolCalls, StartRootedSearch(c)
    PROVE  McpInv'
  <1>0. IndexKept /\ calls[c].at = "idle"
    BY DEF StartRootedSearch
  <1>1. PICK k \in 1..MaxTopK, n \in Runs :
          Set(c, [tool |-> "rooted", at |-> "root", topK |-> k, root |-> n])
    BY DEF StartRootedSearch
  <1> DEFINE ch == [tool |-> "rooted", at |-> "root", topK |-> k, root |-> n]
  <1>2. PICK r : r = calls[c]
    OBVIOUS
  <1>3. PICK q : Becomes(c, r, ch, q)
    BY <1>0, <1>1, <1>2, SetIs
  <1>4. /\ q.tool = "rooted" /\ q.at = "root" /\ q.topK = k /\ q.root = n
        /\ q.since = r.since /\ q.found = r.found /\ q.error = r.error
    BY <1>3 DEF Becomes, Fields
  <1>5. q.fault = r.fault
    BY <1>3 DEF Becomes, Fields
  <1>6. r.error = "none"
    BY <1>0, <1>2, <1>3 DEF Becomes, CallSound, CallOnItsWay
  <1>7. CallSound(q)
    BY <1>4, <1>6 DEF CallSound, CallOnItsWay, CallAnswered
  <1>8. k \in Nat
    OBVIOUS
  <1> QED BY <1>3, <1>4, <1>5, <1>7, <1>8, FieldKinds, GoesKeeps DEF Becomes

\* The summary is read: what it names is stored, and no older than at the start.
LEMMA ResolveRootKeeps ==
    ASSUME McpInv, NEW c \in ToolCalls, ResolveRoot(c)
    PROVE  McpInv'
  <1>0. IndexKept /\ calls[c].at = "resolve"
    BY DEF ResolveRoot
  <1>1. CASE summary \notin Runs \ IngestionOnly
    <2>1. Fail(c, "summary")
      BY <1>1 DEF ResolveRoot
    <2> QED BY <1>0, <2>1, FailKeeps DEF Errors
  <1>2. CASE summary \in Runs \ IngestionOnly
    <2>0. PICK n : n = summary
      OBVIOUS
    <2> DEFINE ch == [at |-> "root", root |-> n]
    <2>1. Set(c, ch)
      BY <1>2, <2>0 DEF ResolveRoot
    <2>2. PICK r : r = calls[c]
      OBVIOUS
    <2>3. PICK q : Becomes(c, r, ch, q)
      BY <1>0, <2>1, <2>2, SetIs
    <2>4. /\ q.tool = r.tool /\ q.at = "root" /\ q.topK = r.topK /\ q.root = n
          /\ q.since = r.since /\ q.found = r.found /\ q.error = r.error
      BY <2>3 DEF Becomes, Fields
    <2>5. q.fault = r.fault
      BY <2>3 DEF Becomes, Fields
    <2>6. r.error = "none" /\ r.tool = "search" /\ (summary \in Runs => r.since <= summary)
      BY <1>0, <2>2, <2>3 DEF Becomes, CallSound, CallOnItsWay
    <2>7. n \in Runs /\ n \in persisted /\ r.since <= n
      BY <1>2, <2>0, <2>6 DEF McpInv, SummaryNamesStored
    <2>8. CallSound(q)
      BY <2>4, <2>6, <2>7 DEF CallSound, CallOnItsWay, CallAnswered
    <2> QED BY <2>3, <2>4, <2>5, <2>7, <2>8, FieldKinds, GoesKeeps DEF Becomes
  <1> QED BY <1>1, <1>2

\* A call goes to its next step with what it has.
LEMMA AdvanceKeeps ==
    ASSUME McpInv, NEW c \in ToolCalls, NEW to \in {"embed", "search", "again"},
           calls[c].at \in {"root", "embed", "search", "again"},
           Set(c, [at |-> to]), IndexKept
    PROVE  McpInv'
  <1> DEFINE ch == [at |-> to]
  <1>2. PICK r : r = calls[c]
    OBVIOUS
  <1>3. PICK q : Becomes(c, r, ch, q)
    BY <1>2, SetIs
  <1>4. /\ q.tool = r.tool /\ q.at = to /\ q.topK = r.topK /\ q.root = r.root
        /\ q.since = r.since /\ q.found = r.found /\ q.error = r.error
    BY <1>3 DEF Becomes, Fields
  <1>5. q.fault = r.fault
    BY <1>3 DEF Becomes, Fields
  <1>6. CallSound(q)
    BY <1>2, <1>3, <1>4 DEF Becomes, CallSound, CallOnItsWay, CallAnswered
  <1> QED BY <1>3, <1>4, <1>5, <1>6, FieldKinds, GoesKeeps DEF Becomes

\* A search is answered with leaves of the tree it has searched.
LEMMA AnswerKeeps ==
    ASSUME McpInv, NEW c \in ToolCalls, calls[c].at \in {"search", "again"},
           NEW found \in Seq(DOMAIN Entries),
           \A i \in DOMAIN found : \E j \in DOMAIN Reached[calls[c].root] :
              Reached[calls[c].root][j] = found[i],
           Answer(c, found), IndexKept
    PROVE  McpInv'
  <1> DEFINE ch == [at |-> "done", found |-> found]
  <1>1. Set(c, ch)
    BY DEF Answer
  <1>2. PICK r : r = calls[c]
    OBVIOUS
  <1>3. PICK q : Becomes(c, r, ch, q)
    BY <1>1, <1>2, SetIs
  <1>4. /\ q.tool = r.tool /\ q.at = "done" /\ q.topK = r.topK /\ q.root = r.root
        /\ q.since = r.since /\ q.found = found /\ q.error = r.error
    BY <1>3 DEF Becomes, Fields
  <1>5. q.fault = r.fault
    BY <1>3 DEF Becomes, Fields
  <1>a. /\ r.error = "none" /\ r.root \in Runs /\ r.tool \in {"search", "rooted"}
        /\ r.tool = "search" => r.since <= r.root
    BY <1>2, <1>3 DEF Becomes, CallSound, CallOnItsWay
  <1>b. \A i \in DOMAIN q.found : \E j \in DOMAIN Reached[q.root] : Reached[q.root][j] = q.found[i]
    BY <1>2, <1>4
  <1>c. CallAnswered(q)
    BY <1>4, <1>a, <1>b DEF CallAnswered
  <1>6. CallSound(q)
    BY <1>4, <1>c DEF CallSound, CallOnItsWay
  <1> QED BY <1>3, <1>4, <1>5, <1>6, FieldKinds, GoesKeeps DEF Becomes

\* The root is loaded.
LEMMA LoadRootKeeps ==
    ASSUME McpInv, NEW c \in ToolCalls, LoadRoot(c)
    PROVE  McpInv'
  <1>0. IndexKept /\ calls[c].at = "root"
    BY DEF LoadRoot
  <1>1. CASE Fault(c, "store")
    BY <1>0, <1>1, FaultKeeps
  <1>2. CASE calls[c].root \notin persisted /\ Fail(c, "missing root")
    <2>1. calls[c].tool # "search"
      BY <1>0, <1>2 DEF McpInv, CallsSound, CallSound, CallOnItsWay
    <2> QED BY <1>0, <1>2, <2>1, FailKeeps DEF Errors
  <1>3. CASE Fail(c, "leaf root")
    BY <1>0, <1>3, FailKeeps DEF Errors
  <1>4. CASE Set(c, [at |-> "embed"])
    BY <1>0, <1>4, AdvanceKeeps
  <1> QED BY <1>1, <1>2, <1>3, <1>4 DEF LoadRoot

\* The query is embedded.
LEMMA EmbedKeeps ==
    ASSUME McpInv, NEW c \in ToolCalls, EmbedQuery(c)
    PROVE  McpInv'
  <1>0. IndexKept /\ calls[c].at = "embed"
    BY DEF EmbedQuery
  <1>1. CASE Fault(c, "provider")
    BY <1>0, <1>1, FaultKeeps
  <1>2. CASE Set(c, [at |-> "search"])
    BY <1>0, <1>2, AdvanceKeeps
  <1> QED BY <1>1, <1>2 DEF EmbedQuery

\* The leaves a search reaches, and the first of them.
LEMMA ReachedLeaves ==
    ASSUME NEW n \in Runs
    PROVE  /\ Reached[n] \in Seq(DOMAIN Entries)
           /\ \A k \in 1..Len(Reached[n]) :
                /\ SubSeq(Reached[n], 1, k) \in Seq(DOMAIN Entries)
                /\ \A i \in DOMAIN SubSeq(Reached[n], 1, k) :
                      i \in DOMAIN Reached[n] /\ Reached[n][i] = SubSeq(Reached[n], 1, k)[i]
  <1>0. PICK s : s = Reached[n]
    OBVIOUS
  <1>1. s \in Seq(DOMAIN Entries)
    BY <1>0, TreeAssumption
  <1>2. ASSUME NEW k \in 1..Len(s)
        PROVE  /\ SubSeq(s, 1, k) \in Seq(DOMAIN Entries)
               /\ \A i \in DOMAIN SubSeq(s, 1, k) : i \in DOMAIN s /\ s[i] = SubSeq(s, 1, k)[i]
    BY <1>1, <1>2
  <1> QED BY <1>0, <1>1, <1>2

\* The search, and the search again with the number of leaves there are.
LEMMA SearchKeeps ==
    ASSUME McpInv, NEW c \in ToolCalls, Search(c) \/ SearchAgain(c)
    PROVE  McpInv'
  <1>0. IndexKept /\ calls[c].at \in {"search", "again"}
    BY DEF Search, SearchAgain
  <1>1. PICK n : n = calls[c].root
    OBVIOUS
  <1>2. n \in Runs /\ calls[c] \in CallRecords
    BY <1>0, <1>1 DEF McpInv, McpTypes, CallsSound, CallSound, CallOnItsWay
  <1>3. CASE Fault(c, "store")
    BY <1>0, <1>3, FaultKeeps
  <1>4. CASE Len(Reached[n]) >= calls[c].topK /\ Answer(c, SubSeq(Reached[n], 1, calls[c].topK))
    <2>1. PICK k : k = calls[c].topK
      OBVIOUS
    <2>2. k \in Nat
      BY <1>2, <2>1, FieldKinds
    <2>3. PICK found : found = SubSeq(Reached[n], 1, k)
      OBVIOUS
    <2>4. /\ found \in Seq(DOMAIN Entries)
          /\ \A i \in DOMAIN found : \E j \in DOMAIN Reached[n] : Reached[n][j] = found[i]
      <3>1. CASE k = 0
        <4>1. found = <<>>
          BY <3>1, <2>3, <1>2, ReachedLeaves
        <4> QED BY <4>1
      <3>2. CASE k # 0
        <4>1. k \in 1..Len(Reached[n])
          BY <3>2, <2>1, <2>2, <1>2, <1>4, ReachedLeaves
        <4> QED BY <4>1, <2>3, <1>2, ReachedLeaves
      <3> QED BY <3>1, <3>2
    <2> QED BY <1>0, <1>1, <1>4, <2>1, <2>3, <2>4, AnswerKeeps
  <1>5. CASE Fail(c, "search") /\ Reached[n] = <<>>
    BY <1>0, <1>1, <1>5, FailKeeps DEF Errors
  <1>6. CASE Set(c, [at |-> "again"])
    BY <1>0, <1>6, AdvanceKeeps
  <1>7. CASE Answer(c, Reached[n])
    BY <1>0, <1>1, <1>2, <1>7, ReachedLeaves, AnswerKeeps
  <1> QED BY <1>1, <1>3, <1>4, <1>5, <1>6, <1>7 DEF Search, SearchAgain

\* An email is answered when it is all its leaf holds.
LEMMA GetEmailKeeps ==
    ASSUME McpInv, NEW c \in ToolCalls, GetEmail(c)
    PROVE  McpInv'
  <1>0. IndexKept /\ calls[c].at = "idle"
    BY DEF GetEmail
  <1>1. PICK leaf \in DOMAIN Entries :
          \/ Fault(c, "store")
          \/ /\ Stored(leaf) /\ SoleEmailEntry(leaf)
             /\ Set(c, [tool |-> "email", at |-> "done", found |-> <<leaf>>])
          \/ Fail(c, "email")
    BY DEF GetEmail
  <1>2. CASE Fault(c, "store")
    BY <1>0, <1>2, FaultKeeps
  <1>3. CASE Fail(c, "email")
    BY <1>0, <1>3, FailKeeps DEF Errors
  <1>4. CASE /\ SoleEmailEntry(leaf)
             /\ Set(c, [tool |-> "email", at |-> "done", found |-> <<leaf>>])
    <2>0. PICK found : found = <<leaf>>
      OBVIOUS
    <2> DEFINE ch == [tool |-> "email", at |-> "done", found |-> found]
    <2>1. Set(c, ch)
      BY <1>4, <2>0
    <2>2. PICK r : r = calls[c]
      OBVIOUS
    <2>3. PICK q : Becomes(c, r, ch, q)
      BY <1>0, <2>1, <2>2, SetIs
    <2>4. /\ q.tool = "email" /\ q.at = "done" /\ q.topK = r.topK /\ q.root = r.root
          /\ q.since = r.since /\ q.found = found /\ q.error = r.error
      BY <2>3 DEF Becomes, Fields
    <2>5. q.fault = r.fault
      BY <2>3 DEF Becomes, Fields
    <2>6. r.error = "none"
      BY <1>0, <2>2, <2>3 DEF Becomes, CallSound, CallOnItsWay
    <2>7. Entries[leaf] \in Seq({"email", "document"})
      BY TreeAssumption
    <2>8. Entries[leaf] = <<"email">>
      BY <1>4, <2>7 DEF SoleEmailEntry
    <2>9. found \in Seq(DOMAIN Entries) /\ found[1] = leaf
      BY <2>0
    <2>10. CallSound(q)
      BY <2>4, <2>6, <2>8, <2>9 DEF CallSound, CallOnItsWay, CallAnswered
    <2> QED BY <2>3, <2>4, <2>5, <2>9, <2>10, FieldKinds, GoesKeeps DEF Becomes
  <1> QED BY <1>1, <1>2, <1>3, <1>4

\* Every step of the server and of the indexer beside it.
LEMMA McpNextInv ==
    ASSUME McpInv, [McpNext]_mcpVars
    PROVE  McpInv'
  <1>1. ASSUME NEW c \in ToolCalls, Return(c)
        PROVE  McpInv'
    BY <1>1, NewCallIs, CallKept DEF Return, CallGoes
  <1>2. CASE UNCHANGED mcpVars
    <2>1. summary' = summary /\ persisted' = persisted /\ runAt' = runAt /\ done' = done
          /\ calls' = calls
      BY <1>2 DEF mcpVars
    <2> QED
      BY <2>1 DEF McpInv, McpTypes, SummaryNamesStored, CallsSound, CallSound, CallOnItsWay,
                  CallAnswered
  <1> QED
    BY <1>1, <1>2, IndexStep, StartSearchKeeps, StartRootedKeeps, ResolveRootKeeps, LoadRootKeeps,
       EmbedKeeps, SearchKeeps, GetEmailKeeps DEF McpNext, CallNext

\* Every answer is of the index that was published when the call began or of a later
\* one, and as a whole (resolve_root_id_async, search_with_partial_retry, get_email,
\* write_summary_file): for any number of concurrent calls, runs and leaves, wherever
\* the indexer is killed.
THEOREM AnswersSafe == McpSpec => []AnswersSound
  <1>1. McpInit => McpInv
    BY McpInitInv
  <1>2. McpInv /\ [McpNext]_mcpVars => McpInv'
    BY McpNextInv
  <1>3. ASSUME McpInv
        PROVE  AnswersSound
    <2>1. ASSUME NEW c \in ToolCalls
          PROVE  CallSound(calls[c]) /\ calls[c] \in CallRecords
      BY <1>3 DEF McpInv, McpTypes, CallsSound
    <2>2. HitsAreFromNamedRoot
      BY <2>1 DEF HitsAreFromNamedRoot, Answered, CallSound, CallAnswered
    <2>3. AnswersAreFresh
      <3>1. \A n \in Runs \cup {NoRun} : n \in Nat
        BY RunNumbers
      <3>2. \A c \in ToolCalls : calls[c].root \in Nat /\ calls[c].since \in Nat
        BY <2>1, <3>1, FieldKinds
      <3> QED BY <2>1, <3>2 DEF AnswersAreFresh, Answered, CallSound, CallAnswered
    <2>4. ShortIndexIsAnswered
      <3> SUFFICES ASSUME NEW c \in ToolCalls, calls[c].error = "search", ~calls[c].fault
                   PROVE  Reached[calls[c].root] = <<>>
        BY DEF ShortIndexIsAnswered
      <3>1. calls[c].fault = FALSE
        BY <2>1, FieldKinds
      <3>2. calls[c].at = "done"
        BY <2>1 DEF CallSound, CallOnItsWay
      <3> QED BY <2>1, <3>1, <3>2 DEF CallSound, CallAnswered
    <2>5. PublishedRootFound
      BY <2>1 DEF PublishedRootFound, CallSound, CallAnswered, CallOnItsWay
    <2>6. EmailIsTheHit
      BY <2>1 DEF EmailIsTheHit, Answered, CallSound, CallAnswered
    <2> QED BY <2>2, <2>3, <2>4, <2>5, <2>6 DEF AnswersSound
  <1> QED BY <1>1, <1>2, <1>3, PTL DEF McpSpec

-----------------------------------------------------------------------------
(* The slots of the server. *)

\* The slots are held by tasks, which are finitely many although clients may open
\* any number of connections.
SlotInv ==
    /\ SlotsAreHeldByTasks
    /\ IsFiniteSet(ConnTasks)
    /\ \A c \in Conns : IsFiniteSet(ReqTasks(c))

\* A task more.
LEMMA OneMore ==
    ASSUME NEW S, NEW x, IsFiniteSet(S), x \notin S
    PROVE  /\ IsFiniteSet(S \cup {x})
           /\ Cardinality(S) \in Nat
           /\ Cardinality(S \cup {x}) = Cardinality(S) + 1
  BY FS_AddElement, FS_CardinalityType

\* A task less.
LEMMA OneLess ==
    ASSUME NEW S, NEW x, IsFiniteSet(S), x \in S
    PROVE  /\ IsFiniteSet(S \ {x})
           /\ Cardinality(S \ {x}) \in Nat
           /\ Cardinality(S) = Cardinality(S \ {x}) + 1
  <1>1. IsFiniteSet(S \ {x}) /\ Cardinality(S \ {x}) = Cardinality(S) - 1
    BY FS_RemoveElement
  <1>2. Cardinality(S) \in Nat /\ Cardinality(S \ {x}) \in Nat
    BY <1>1, FS_CardinalityType
  <1> QED BY <1>1, <1>2

\* The slots are accounted for when the server starts.
LEMMA SlotInvInit == ServerInit => SlotInv
  <1> SUFFICES ASSUME ServerInit PROVE SlotInv
    OBVIOUS
  <1>1. ConnTasks = {} /\ \A c \in Conns : ReqTasks(c) = {}
    BY DEF ServerInit, ServerStart, ConnTasks, ReqTasks
  <1>2. ServerTypeOK
    BY BlockGatewayAssumption DEF ServerInit, ServerStart, ServerTypeOK, ConnPlaces, ReqPlaces
  <1>3. Cardinality({}) = 0 /\ IsFiniteSet({})
    BY FS_EmptySet
  <1>4. connPermits = ConnSlots /\ \A c \in Conns : reqPermits[c] = ReqSlots
    BY DEF ServerInit, ServerStart
  <1>5. 0 + ConnSlots = ConnSlots /\ 0 + ReqSlots = ReqSlots
    BY BlockGatewayAssumption
  <1> QED BY <1>1, <1>2, <1>3, <1>4, <1>5 DEF SlotInv, SlotsAreHeldByTasks

\* What the invariant says when the tasks are the same as before.
LEMMA SameTasks ==
    ASSUME SlotInv, ServerTypeOK', ConnTasks' = ConnTasks, connPermits' = connPermits,
           \A c \in Conns : ReqTasks(c)' = ReqTasks(c), reqPermits' = reqPermits
    PROVE  SlotInv'
  BY DEF SlotInv, SlotsAreHeldByTasks

\* What a client does starts or ends no task.
LEMMA ClientKeepsSlots ==
    ASSUME SlotInv,
           \/ \E c \in Conns : \/ ClientConnects(c) \/ PeerCloses(c) \/ IdleTimeout(c)
                              \/ ServeAccepts(c) \/ HandshakeDone(c)
           \/ \E r \in Reqs : ClientSends(r) \/ AcceptRequest(r)
    PROVE  SlotInv'
  <1> USE BlockGatewayAssumption
      DEF SlotInv, SlotsAreHeldByTasks, ServerTypeOK, ConnPlaces, ReqPlaces
  <1>1. ConnTasks' = ConnTasks /\ connPermits' = connPermits /\ reqPermits' = reqPermits
    BY DEF ConnTasks, ClientConnects, PeerCloses, IdleTimeout, ClientSends, ServeAccepts,
           HandshakeDone, AcceptRequest
  <1>2. \A d \in Conns : ReqTasks(d)' = ReqTasks(d)
    BY DEF ReqTasks, ClientConnects, PeerCloses, IdleTimeout, ClientSends, ServeAccepts,
           HandshakeDone, AcceptRequest
  <1>3. ServerTypeOK'
    BY DEF ClientConnects, PeerCloses, IdleTimeout, ClientSends, ServeAccepts,
           HandshakeDone, AcceptRequest
  <1> QED BY <1>1, <1>2, <1>3, SameTasks

\* serve takes a slot for the task it spawns.
LEMMA ServeSpawnsKeepsSlots ==
    ASSUME SlotInv, NEW c \in Conns, ServeSpawns(c)
    PROVE  SlotInv'
  <1> USE BlockGatewayAssumption
      DEF SlotInv, SlotsAreHeldByTasks, ServerTypeOK, ConnPlaces, ReqPlaces, ServeSpawns
  <1>1. ConnTasks' = ConnTasks \cup {c} /\ c \notin ConnTasks
    BY DEF ConnTasks
  <1>2. \A d \in Conns : ReqTasks(d)' = ReqTasks(d)
    BY DEF ReqTasks
  <1>3. Cardinality(ConnTasks)' = Cardinality(ConnTasks) + 1 /\ IsFiniteSet(ConnTasks)'
        /\ Cardinality(ConnTasks) \in Nat
    BY <1>1, OneMore
  <1>4. Cardinality(ConnTasks)' + connPermits' = ConnSlots
    BY <1>3
  <1>5. ServerTypeOK'
    OBVIOUS
  <1> QED BY <1>2, <1>3, <1>4, <1>5

\* The end of a connection's task gives its slot back.
LEMMA ConnectionEndKeepsSlots ==
    ASSUME SlotInv, NEW c \in Conns, HandshakeFails(c) \/ ConnectionEnds(c)
    PROVE  SlotInv'
  <1> USE BlockGatewayAssumption
      DEF SlotInv, SlotsAreHeldByTasks, ServerTypeOK, ConnPlaces, ReqPlaces,
          HandshakeFails, ConnectionEnds, EndConnection, Accepting
  <1>1. ConnTasks' = ConnTasks \ {c} /\ c \in ConnTasks
    BY DEF ConnTasks
  <1>2. \A d \in Conns : ReqTasks(d)' = ReqTasks(d)
    <2>1. \A r \in Reqs : req'[r] = "running" <=> req[r] = "running"
      OBVIOUS
    <2> QED BY <2>1 DEF ReqTasks
  <1>3. Cardinality(ConnTasks) = Cardinality(ConnTasks)' + 1 /\ IsFiniteSet(ConnTasks)'
        /\ Cardinality(ConnTasks)' \in Nat
    BY <1>1, OneLess
  <1>4. Cardinality(ConnTasks)' + connPermits' = ConnSlots /\ connPermits' \in 0..ConnSlots
    BY <1>3
  <1>5. ServerTypeOK'
    BY <1>4
  <1> QED BY <1>2, <1>3, <1>4, <1>5

\* handle_connection takes one of its connection's slots for a request.
LEMMA SpawnRequestKeepsSlots ==
    ASSUME SlotInv, NEW r \in Reqs, SpawnRequest(r)
    PROVE  SlotInv'
  <1> USE BlockGatewayAssumption
      DEF SlotInv, SlotsAreHeldByTasks, ServerTypeOK, ConnPlaces, ReqPlaces, SpawnRequest
  <1> PICK c \in Conns : c = ConnOf[r]
    OBVIOUS
  <1>1. c \in Conns /\ ReqTasks(c)' = ReqTasks(c) \cup {r} /\ r \notin ReqTasks(c)
    BY DEF ReqTasks
  <1>2. \A d \in Conns \ {c} : ReqTasks(d)' = ReqTasks(d) /\ reqPermits'[d] = reqPermits[d]
    BY DEF ReqTasks
  <1>3. ConnTasks' = ConnTasks
    BY DEF ConnTasks
  <1>4. Cardinality(ReqTasks(c)') = Cardinality(ReqTasks(c)) + 1 /\ IsFiniteSet(ReqTasks(c)')
        /\ Cardinality(ReqTasks(c)) \in Nat
    <2>1. IsFiniteSet(ReqTasks(c))
      OBVIOUS
    <2>2. /\ Cardinality(ReqTasks(c) \cup {r}) = Cardinality(ReqTasks(c)) + 1
          /\ IsFiniteSet(ReqTasks(c) \cup {r})
          /\ Cardinality(ReqTasks(c)) \in Nat
      BY <1>1, <2>1, OneMore
    <2> QED BY <1>1, <2>2
  <1>5. Cardinality(ReqTasks(c)') + reqPermits'[c] = ReqSlots
    BY <1>1, <1>4
  <1>6. ServerTypeOK'
    OBVIOUS
  <1>7. \A d \in Conns : Cardinality(ReqTasks(d)') + reqPermits'[d] = ReqSlots
                         /\ IsFiniteSet(ReqTasks(d)')
    BY <1>2, <1>4, <1>5
  <1> QED BY <1>3, <1>6, <1>7

\* The end of a request's task gives its slot back, also when its connection has
\* ended before.
LEMMA RequestEndsKeepsSlots ==
    ASSUME SlotInv, NEW r \in Reqs, RequestEnds(r)
    PROVE  SlotInv'
  <1> USE BlockGatewayAssumption
      DEF SlotInv, SlotsAreHeldByTasks, ServerTypeOK, ConnPlaces, ReqPlaces, RequestEnds
  <1> PICK c \in Conns : c = ConnOf[r]
    OBVIOUS
  <1>1. c \in Conns /\ ReqTasks(c)' = ReqTasks(c) \ {r} /\ r \in ReqTasks(c)
    BY DEF ReqTasks
  <1>2. \A d \in Conns \ {c} : ReqTasks(d)' = ReqTasks(d) /\ reqPermits'[d] = reqPermits[d]
    BY DEF ReqTasks
  <1>3. ConnTasks' = ConnTasks
    BY DEF ConnTasks
  <1>4. Cardinality(ReqTasks(c)) = Cardinality(ReqTasks(c)') + 1 /\ IsFiniteSet(ReqTasks(c)')
        /\ Cardinality(ReqTasks(c)') \in Nat
    BY <1>1, OneLess
  <1>5. Cardinality(ReqTasks(c)') + reqPermits'[c] = ReqSlots /\ reqPermits'[c] \in 0..ReqSlots
    BY <1>1, <1>4
  <1>6. ServerTypeOK'
    BY <1>1, <1>2, <1>5
  <1>7. \A d \in Conns : Cardinality(ReqTasks(d)') + reqPermits'[d] = ReqSlots
                         /\ IsFiniteSet(ReqTasks(d)')
    BY <1>2, <1>4, <1>5
  <1> QED BY <1>3, <1>6, <1>7

\* Every step keeps the slots accounted for.
LEMMA SlotInvStep == SlotInv /\ [ServerNext]_serverVars => SlotInv'
  <1> SUFFICES ASSUME SlotInv, [ServerNext]_serverVars PROVE SlotInv'
    OBVIOUS
  <1>1. CASE UNCHANGED serverVars
    BY <1>1, SameTasks
    DEF serverVars, SlotInv, SlotsAreHeldByTasks, ServerTypeOK, ConnTasks, ReqTasks
  <1>2. ASSUME NEW c \in Conns,
               ClientConnects(c) \/ ServerStep(c) \/ PeerCloses(c) \/ IdleTimeout(c)
        PROVE  SlotInv'
    BY <1>2, ClientKeepsSlots, ServeSpawnsKeepsSlots, ConnectionEndKeepsSlots DEF ServerStep
  <1>3. ASSUME NEW r \in Reqs, ClientSends(r) \/ RequestStep(r)
        PROVE  SlotInv'
    BY <1>3, ClientKeepsSlots, SpawnRequestKeepsSlots, RequestEndsKeepsSlots DEF RequestStep
  <1> QED BY <1>1, <1>2, <1>3 DEF ServerNext

\* Any number of clients may connect, send, hang and go away: the tasks of the
\* gateway stay within the limits and every slot is given back (serve,
\* handle_connection, the permits moved into the spawned tasks).
THEOREM ServerSlotsSafe == ServerSpec => []SlotsAreHeldByTasks
  <1>1. SlotInv => SlotsAreHeldByTasks
    BY DEF SlotInv
  <1> QED BY SlotInvInit, SlotInvStep, <1>1, PTL DEF ServerSpec

-----------------------------------------------------------------------------
(* The client's transport. *)

\* A call is in its first or second attempt, and in each holds a connection from
\* install on and none before.
CallShape ==
    \A c \in Calls :
        /\ call[c].at # "idle" => call[c].attempt \in {1, 2}
        /\ call[c].at \in {"idle", "lookup", "connect", "reset"} => call[c].conn = NoConnection
        /\ call[c].at = "install" => call[c].conn # NoConnection

\* A request that must not be repeated has not been sent before its one send.
NotYetSent ==
    \A c \in Calls \ Idempotent :
        call[c].at \in {"idle", "lookup", "connect", "install", "send"} => served[c] = 0

\* A call that is clean and under way is alone with a running gateway ...
CleanIsAlone ==
    \A c \in Calls : clean[c] /\ c \in InFlightCalls => up /\ InFlightCalls = {c}

\* ... so that its second attempt finds nothing cached and uses the connection
\* that it opens.
SecondAttemptIsFresh ==
    \A c \in Idempotent : clean[c] /\ call[c].attempt = 2 =>
        /\ call[c].at \in {"lookup", "connect", "install"} => cached = NoConnection
        /\ call[c].at \in {"install", "send", "wait"} => call[c].conn \in live

TransportInv ==
    /\ CallsAreSafeToRetry
    /\ CallShape /\ NotYetSent /\ CleanIsAlone /\ SecondAttemptIsFresh

\* A call that connects holds no connection, so that with one cached and one per
\* other call there is a number left for its own.
LEMMA FreshExists ==
    ASSUME TransportTypeOK, NEW c \in Calls, call[c].conn = NoConnection
    PROVE  Fresh \in Connections /\ Fresh \notin {cached} \cup {call[d].conn : d \in Calls}
  <1> USE Http3Assumption
  <1> DEFINE held == {cached} \cup {call[d].conn : d \in Calls}
             holder == [k \in Connections |->
                          IF k = cached THEN c ELSE CHOOSE d \in Calls : call[d].conn = k]
  <1>1. ASSUME Connections \subseteq held
        PROVE  FALSE
    <2>1. ASSUME NEW k \in Connections, k # cached
          PROVE  holder[k] \in Calls /\ call[holder[k]].conn = k
      <3>1. \E d \in Calls : call[d].conn = k
        BY <1>1, <2>1
      <3> QED BY <2>1, <3>1
    <2>2. holder \in [Connections -> Calls]
      BY <2>1
    <2>3. Cardinality(Calls) \in Nat
      BY FS_CardinalityType
    <2>4. IsFiniteSet(Connections) /\ Cardinality(Connections) = Cardinality(Calls) + 1
      BY <2>3, FS_Interval DEF Connections
    <2>6. \A k \in Connections : k # cached => holder[k] # c
      BY <2>1 DEF Connections, NoConnection
    <2>7. \A k \in Connections : k = cached => holder[k] = c
      OBVIOUS
    <2> HIDE DEF holder
    <2>8. IsFiniteSet(Calls) /\ Cardinality(Calls) < Cardinality(Connections)
      BY <2>3, <2>4
    <2>9. PICK x, y \in Connections : x # y /\ holder[x] = holder[y]
      BY <2>2, <2>4, <2>8, FS_PigeonHole
    <2> QED BY <2>1, <2>6, <2>7, <2>9
  <1>2. \E k \in Connections : k \notin held
    BY <1>1
  <1> QED BY <1>2 DEF Fresh

\* The connection cache and the calls agree when the client starts.
LEMMA TransportInvInit == TransportInit => TransportInv
  <1> SUFFICES ASSUME TransportInit PROVE TransportInv
    OBVIOUS
  <1> USE Http3Assumption DEF TransportInit, NoConnection
  <1>1. TransportTypeOK
    <2>1. resolved \in BOOLEAN /\ up \in BOOLEAN /\ clean \in [Calls -> BOOLEAN]
      BY Zenon
    <2>2. cached = 0 /\ live = {}
      OBVIOUS
    <2>3. call \in [Calls -> [at : Places, attempt : 0..2, conn : Connections \cup {NoConnection}]]
      BY DEF Places
    <2>4. served \in [Calls \ Idempotent -> 0..2]
      OBVIOUS
    <2> QED BY <2>1, <2>2, <2>3, <2>4, Zenon DEF TransportTypeOK
  <1>2. NotIdempotentSentOnce /\ NotYetSent
    BY DEF NotIdempotentSentOnce, NotYetSent
  <1>5. AddressKeptWithConnection
    BY Zenon DEF AddressKeptWithConnection
  <1>3. \A c \in Calls : call[c].at = "idle" /\ call[c].conn = 0 /\ ~clean[c]
    OBVIOUS
  <1>4. LoneCallHeals /\ CallShape /\ CleanIsAlone /\ SecondAttemptIsFresh
    BY <1>3 DEF LoneCallHeals, CallShape, CleanIsAlone, SecondAttemptIsFresh
  <1> QED BY <1>1, <1>2, <1>4, <1>5 DEF TransportInv, CallsAreSafeToRetry

\* A clean call beside one that is under way is not under way itself.
LEMMA CleanBeside ==
    ASSUME TransportInv, NEW c \in Calls, call[c].at \in InFlightPlaces,
           NEW d \in Idempotent, d # c, clean[d]
    PROVE  call[d].at \in {"idle", "answered"}
  <1>1. d \in Calls /\ d \notin InFlightCalls
    BY Http3Assumption DEF TransportInv, CleanIsAlone, InFlightCalls
  <1>2. call[d].at \in Places /\ call[d].at # "failed"
    BY <1>1 DEF TransportInv, CallsAreSafeToRetry, TransportTypeOK, LoneCallHeals
  <1> QED BY <1>1, <1>2 DEF InFlightCalls, InFlightPlaces, Places

\* A new call keeps the invariant.
LEMMA BeginCallKeepsInv ==
    ASSUME TransportInv, NEW c \in Calls, BeginCall(c)
    PROVE  TransportInv'
  <1> USE Http3Assumption DEF TransportInv, CallsAreSafeToRetry, BeginCall
  <1>1. TransportTypeOK'
    <2>1. call' \in [Calls -> [at : Places, attempt : 0..2, conn : Connections \cup {NoConnection}]]
      BY DEF TransportTypeOK, Places, NoConnection
    <2>2. cached' \in Connections \cup {NoConnection} /\ live' \subseteq Connections
      BY DEF TransportTypeOK
    <2>3. served' \in [Calls \ Idempotent -> 0..2]
      BY DEF TransportTypeOK, NotYetSent
    <2>4. resolved' \in BOOLEAN /\ up' \in BOOLEAN
      BY DEF TransportTypeOK
    <2>5. clean' \in [Calls -> BOOLEAN]
      BY DEF TransportTypeOK
    <2> QED BY <2>1, <2>2, <2>3, <2>4, <2>5 DEF TransportTypeOK
  <1>2. CallShape'
    BY DEF TransportTypeOK, CallShape, NoConnection, Connections
  <1>3. NotIdempotentSentOnce' /\ NotYetSent'
    BY DEF TransportTypeOK, NotIdempotentSentOnce, NotYetSent
  <1>4. AddressKeptWithConnection'
    BY DEF TransportTypeOK, AddressKeptWithConnection, CallShape
  <1>5. CleanIsAlone'
    <2>1. InFlightCalls' = InFlightCalls \cup {c}
      <3>1. \A d \in Calls : call'[d].at = IF d = c THEN "lookup" ELSE call[d].at
        BY DEF TransportTypeOK
      <3>2. "lookup" \in InFlightPlaces
        BY DEF InFlightPlaces, Places
      <3> QED BY <3>1, <3>2 DEF InFlightCalls
    <2>2. \A d \in Calls : clean'[d] /\ d \in InFlightCalls \cup {c} => d = c /\ up /\ InFlightCalls = {}
      BY DEF BeginCall
    <2>3. up' = up
      BY DEF BeginCall
    <2> QED BY <2>1, <2>2, <2>3 DEF CleanIsAlone
  <1>6. SecondAttemptIsFresh' /\ LoneCallHeals'
    BY DEF TransportTypeOK, SecondAttemptIsFresh, LoneCallHeals, CleanIsAlone, InFlightCalls,
           InFlightPlaces, Places, NoConnection
  <1> QED BY <1>1, <1>2, <1>3, <1>4, <1>5, <1>6

\* Looking a connection up keeps the invariant.
LEMMA LookupKeepsInv ==
    ASSUME TransportInv, NEW c \in Calls, Lookup(c)
    PROVE  TransportInv'
  <1> USE Http3Assumption DEF TransportInv, CallsAreSafeToRetry, Lookup, Go
  <1>1. TransportTypeOK'
    BY DEF TransportTypeOK, Places, NoConnection
  <1>2. CallShape'
    BY DEF TransportTypeOK, CallShape, NoConnection, Connections
  <1>3. NotIdempotentSentOnce' /\ NotYetSent'
    BY DEF TransportTypeOK, NotIdempotentSentOnce, NotYetSent
  <1>4. AddressKeptWithConnection'
    BY DEF TransportTypeOK, AddressKeptWithConnection, CallShape
  <1>5. CleanIsAlone'
    BY DEF TransportTypeOK, CleanIsAlone, InFlightCalls, InFlightPlaces, Places
  <1>6. SecondAttemptIsFresh' /\ LoneCallHeals'
    <2> SUFFICES ASSUME NEW d \in Idempotent, clean[d]
                 PROVE  /\ call'[d].at # "failed"
                        /\ call'[d].attempt = 2 =>
                             /\ call'[d].at \in {"lookup", "connect", "install"} => cached' = NoConnection
                             /\ call'[d].at \in {"install", "send", "wait"} => call'[d].conn \in live'
      BY DEF SecondAttemptIsFresh, LoneCallHeals
    <2>1. CASE d = c
      <3>1. up
        BY <2>1 DEF CleanIsAlone, InFlightCalls, InFlightPlaces, Places
      <3> QED
        BY <2>1, <3>1 DEF TransportTypeOK, SecondAttemptIsFresh, Connections, NoConnection, CallShape
    <2>2. CASE d # c
      <3>1. call'[d] = call[d]
        BY <2>2 DEF TransportTypeOK
      <3>2. call[d].at \in {"idle", "answered"}
        BY <2>2, CleanBeside DEF InFlightPlaces, Places
      <3> QED BY <3>1, <3>2
    <2> QED BY <2>1, <2>2
  <1> QED BY <1>1, <1>2, <1>3, <1>4, <1>5, <1>6

\* Connecting, and failing to, keeps the invariant.
LEMMA ConnectKeepsInv ==
    ASSUME TransportInv, NEW c \in Calls, Connect(c)
    PROVE  TransportInv'
  <1> USE Http3Assumption DEF TransportInv, CallsAreSafeToRetry, Connect
  <1>0. Fresh \in Connections
    BY FreshExists DEF CallShape
  <1> USE <1>0
  <1>1. TransportTypeOK'
    <2>1. call' \in [Calls -> [at : Places, attempt : 0..2, conn : Connections \cup {NoConnection}]]
      <3>1. PICK k : k = Fresh
        OBVIOUS
      <3>2. call' = [call EXCEPT ![c].at = "install", ![c].conn = k] /\ k \in Connections
        BY <3>1 DEF Connect
      <3>3. call \in [Calls -> [at : Places, attempt : 0..2, conn : Connections \cup {NoConnection}]]
        BY DEF TransportInv, CallsAreSafeToRetry, TransportTypeOK
      <3>4. "install" \in Places
        BY DEF Places
      <3> HIDE DEF TransportInv, CallsAreSafeToRetry, Connect
      <3> QED BY <3>2, <3>3, <3>4
    <2>2. cached' \in Connections \cup {NoConnection} /\ live' \subseteq Connections
      BY DEF TransportTypeOK
    <2>3. served' \in [Calls \ Idempotent -> 0..2]
      BY DEF TransportTypeOK, NotYetSent
    <2>4. resolved' \in BOOLEAN /\ up' \in BOOLEAN
      BY DEF TransportTypeOK
    <2>5. clean' \in [Calls -> BOOLEAN]
      BY DEF TransportTypeOK
    <2> QED BY <2>1, <2>2, <2>3, <2>4, <2>5 DEF TransportTypeOK
  <1>2. CallShape'
    BY DEF TransportTypeOK, CallShape, NoConnection, Connections
  <1>3. NotIdempotentSentOnce' /\ NotYetSent'
    BY DEF TransportTypeOK, NotIdempotentSentOnce, NotYetSent
  <1>4. AddressKeptWithConnection'
    BY DEF TransportTypeOK, AddressKeptWithConnection, CallShape
  <1>5. CleanIsAlone'
    BY DEF TransportTypeOK, CleanIsAlone, InFlightCalls, InFlightPlaces, Places
  <1>6. SecondAttemptIsFresh' /\ LoneCallHeals'
    BY DEF TransportTypeOK, SecondAttemptIsFresh, LoneCallHeals, CleanIsAlone, InFlightCalls,
           InFlightPlaces, Places, NoConnection
  <1> QED BY <1>1, <1>2, <1>3, <1>4, <1>5, <1>6

\* Installing a connection keeps the invariant.
LEMMA InstallKeepsInv ==
    ASSUME TransportInv, NEW c \in Calls, Install(c)
    PROVE  TransportInv'
  <1> USE Http3Assumption DEF TransportInv, CallsAreSafeToRetry, Install, Go
  <1>1. TransportTypeOK'
    <2>1. call' \in [Calls -> [at : Places, attempt : 0..2, conn : Connections \cup {NoConnection}]]
      BY DEF TransportTypeOK, Places, NoConnection
    <2>2. cached' \in Connections \cup {NoConnection} /\ live' \subseteq Connections
      BY DEF TransportTypeOK
    <2>3. served' \in [Calls \ Idempotent -> 0..2]
      BY DEF TransportTypeOK, NotYetSent
    <2>4. resolved' \in BOOLEAN /\ up' \in BOOLEAN
      BY DEF TransportTypeOK
    <2>5. clean' \in [Calls -> BOOLEAN]
      BY DEF TransportTypeOK
    <2> QED BY <2>1, <2>2, <2>3, <2>4, <2>5 DEF TransportTypeOK
  <1>2. CallShape'
    BY DEF TransportTypeOK, CallShape, NoConnection, Connections
  <1>3. NotIdempotentSentOnce' /\ NotYetSent'
    BY DEF TransportTypeOK, NotIdempotentSentOnce, NotYetSent
  <1>4. AddressKeptWithConnection'
    BY DEF TransportTypeOK, AddressKeptWithConnection, CallShape
  <1>5. CleanIsAlone'
    BY DEF TransportTypeOK, CleanIsAlone, InFlightCalls, InFlightPlaces, Places
  <1>6. SecondAttemptIsFresh' /\ LoneCallHeals'
    <2> SUFFICES ASSUME NEW d \in Idempotent, clean[d]
                 PROVE  /\ call'[d].at # "failed"
                        /\ call'[d].attempt = 2 =>
                             /\ call'[d].at \in {"lookup", "connect", "install"} => cached' = NoConnection
                             /\ call'[d].at \in {"install", "send", "wait"} => call'[d].conn \in live'
      BY DEF SecondAttemptIsFresh, LoneCallHeals
    <2>1. CASE d = c
      <3>1. up
        BY <2>1 DEF CleanIsAlone, InFlightCalls, InFlightPlaces, Places
      <3> QED
        BY <2>1, <3>1 DEF TransportTypeOK, SecondAttemptIsFresh, Connections, NoConnection, CallShape
    <2>2. CASE d # c
      <3>1. call'[d] = call[d]
        BY <2>2 DEF TransportTypeOK
      <3>2. call[d].at \in {"idle", "answered"}
        BY <2>2, CleanBeside DEF InFlightPlaces, Places
      <3> QED BY <3>1, <3>2
    <2> QED BY <2>1, <2>2
  <1> QED BY <1>1, <1>2, <1>3, <1>4, <1>5, <1>6

\* Sending a request keeps the invariant.
LEMMA SendKeepsInv ==
    ASSUME TransportInv, NEW c \in Calls, Send(c)
    PROVE  TransportInv'
  <1> USE Http3Assumption DEF TransportInv, CallsAreSafeToRetry, Send, Go
  <1>1. TransportTypeOK'
    <2>1. call' \in [Calls -> [at : Places, attempt : 0..2, conn : Connections \cup {NoConnection}]]
      BY DEF TransportTypeOK, Places, NoConnection
    <2>2. cached' \in Connections \cup {NoConnection} /\ live' \subseteq Connections
      BY DEF TransportTypeOK
    <2>3. served' \in [Calls \ Idempotent -> 0..2]
      BY DEF TransportTypeOK, NotYetSent
    <2>4. resolved' \in BOOLEAN /\ up' \in BOOLEAN
      BY DEF TransportTypeOK
    <2>5. clean' \in [Calls -> BOOLEAN]
      BY DEF TransportTypeOK
    <2> QED BY <2>1, <2>2, <2>3, <2>4, <2>5 DEF TransportTypeOK
  <1>2. CallShape'
    BY DEF TransportTypeOK, CallShape, NoConnection, Connections
  <1>3. NotIdempotentSentOnce' /\ NotYetSent'
    BY DEF TransportTypeOK, NotIdempotentSentOnce, NotYetSent
  <1>4. AddressKeptWithConnection'
    BY DEF TransportTypeOK, AddressKeptWithConnection, CallShape
  <1>5. CleanIsAlone'
    BY DEF TransportTypeOK, CleanIsAlone, InFlightCalls, InFlightPlaces, Places
  <1>6. SecondAttemptIsFresh' /\ LoneCallHeals'
    BY DEF TransportTypeOK, SecondAttemptIsFresh, LoneCallHeals, CleanIsAlone, InFlightCalls,
           InFlightPlaces, Places, NoConnection
  <1> QED BY <1>1, <1>2, <1>3, <1>4, <1>5, <1>6

\* An answer keeps the invariant.
LEMMA RespondKeepsInv ==
    ASSUME TransportInv, NEW c \in Calls, Respond(c)
    PROVE  TransportInv'
  <1> USE Http3Assumption DEF TransportInv, CallsAreSafeToRetry, Respond, LetGo
  <1>1. TransportTypeOK'
    BY DEF TransportTypeOK, Places, NoConnection
  <1>2. CallShape'
    BY DEF TransportTypeOK, CallShape, NoConnection, Connections
  <1>3. NotIdempotentSentOnce' /\ NotYetSent'
    BY DEF TransportTypeOK, NotIdempotentSentOnce, NotYetSent
  <1>4. AddressKeptWithConnection'
    BY DEF TransportTypeOK, AddressKeptWithConnection, CallShape
  <1>5. CleanIsAlone'
    BY DEF TransportTypeOK, CleanIsAlone, InFlightCalls, InFlightPlaces, Places
  <1>6. SecondAttemptIsFresh' /\ LoneCallHeals'
    BY DEF TransportTypeOK, SecondAttemptIsFresh, LoneCallHeals, CleanIsAlone, InFlightCalls,
           InFlightPlaces, Places, NoConnection
  <1> QED BY <1>1, <1>2, <1>3, <1>4, <1>5, <1>6

\* A transport error keeps the invariant.
LEMMA TransportErrorKeepsInv ==
    ASSUME TransportInv, NEW c \in Calls, TransportError(c)
    PROVE  TransportInv'
  <1> USE Http3Assumption DEF TransportInv, CallsAreSafeToRetry, TransportError, LetGo, AfterError
  <1>1. TransportTypeOK'
    <2>1. call' \in [Calls -> [at : Places, attempt : 0..2, conn : Connections \cup {NoConnection}]]
      <3>1. AfterError(c) \in Places
        BY DEF Places
      <3> HIDE DEF AfterError
      <3>2. PICK place : place = AfterError(c)
        OBVIOUS
      <3>3. call' = [call EXCEPT ![c].at = place, ![c].conn = NoConnection] /\ place \in Places
        BY <3>1, <3>2 DEF TransportError, LetGo
      <3>4. call \in [Calls -> [at : Places, attempt : 0..2, conn : Connections \cup {NoConnection}]]
        BY DEF TransportInv, CallsAreSafeToRetry, TransportTypeOK
      <3> HIDE DEF TransportInv, CallsAreSafeToRetry, TransportError, LetGo
      <3> QED BY <3>3, <3>4
    <2>2. cached' \in Connections \cup {NoConnection} /\ live' \subseteq Connections
      BY DEF TransportTypeOK
    <2>3. served' \in [Calls \ Idempotent -> 0..2]
      BY DEF TransportTypeOK, NotYetSent
    <2>4. resolved' \in BOOLEAN /\ up' \in BOOLEAN
      BY DEF TransportTypeOK
    <2>5. clean' \in [Calls -> BOOLEAN]
      BY DEF TransportTypeOK
    <2> QED BY <2>1, <2>2, <2>3, <2>4, <2>5 DEF TransportTypeOK
  <1>2. CallShape'
    BY DEF TransportTypeOK, CallShape, NoConnection, Connections
  <1>3. NotIdempotentSentOnce' /\ NotYetSent'
    BY DEF TransportTypeOK, NotIdempotentSentOnce, NotYetSent
  <1>4. AddressKeptWithConnection'
    BY DEF TransportTypeOK, AddressKeptWithConnection, CallShape
  <1>5. CleanIsAlone'
    BY DEF TransportTypeOK, CleanIsAlone, InFlightCalls, InFlightPlaces, Places
  <1>6. SecondAttemptIsFresh' /\ LoneCallHeals'
    <2> SUFFICES ASSUME NEW d \in Idempotent, clean[d]
                 PROVE  /\ call'[d].at # "failed"
                        /\ call'[d].attempt = 2 =>
                             /\ call'[d].at \in {"lookup", "connect", "install"} => cached' = NoConnection
                             /\ call'[d].at \in {"install", "send", "wait"} => call'[d].conn \in live'
      BY DEF SecondAttemptIsFresh, LoneCallHeals
    <2>1. CASE d = c
      <3>1. up
        BY <2>1 DEF CleanIsAlone, InFlightCalls, InFlightPlaces, Places
      <3> QED
        BY <2>1, <3>1 DEF TransportTypeOK, SecondAttemptIsFresh, Connections, NoConnection, CallShape
    <2>2. CASE d # c
      <3>1. call'[d] = call[d]
        BY <2>2 DEF TransportTypeOK
      <3>2. call[d].at \in {"idle", "answered"}
        BY <2>2, CleanBeside DEF InFlightPlaces, Places
      <3> QED BY <3>1, <3>2
    <2> QED BY <2>1, <2>2
  <1> QED BY <1>1, <1>2, <1>3, <1>4, <1>5, <1>6

\* A timeout keeps the invariant.
LEMMA TimesOutKeepsInv ==
    ASSUME TransportInv, NEW c \in Calls, TimesOut(c)
    PROVE  TransportInv'
  <1> USE Http3Assumption DEF TransportInv, CallsAreSafeToRetry, TimesOut, LetGo, AfterError
  <1>1. TransportTypeOK'
    <2>1. call' \in [Calls -> [at : Places, attempt : 0..2, conn : Connections \cup {NoConnection}]]
      <3>1. AfterError(c) \in Places
        BY DEF Places
      <3> HIDE DEF AfterError
      <3> QED BY <3>1 DEF TransportTypeOK, Places, NoConnection
    <2>2. cached' \in Connections \cup {NoConnection} /\ live' \subseteq Connections
      BY DEF TransportTypeOK
    <2>3. served' \in [Calls \ Idempotent -> 0..2]
      BY DEF TransportTypeOK, NotYetSent
    <2>4. resolved' \in BOOLEAN /\ up' \in BOOLEAN
      BY DEF TransportTypeOK
    <2>5. clean' \in [Calls -> BOOLEAN]
      BY DEF TransportTypeOK
    <2> QED BY <2>1, <2>2, <2>3, <2>4, <2>5 DEF TransportTypeOK
  <1>2. CallShape'
    BY DEF TransportTypeOK, CallShape, NoConnection, Connections
  <1>3. NotIdempotentSentOnce' /\ NotYetSent'
    BY DEF TransportTypeOK, NotIdempotentSentOnce, NotYetSent
  <1>4. AddressKeptWithConnection'
    BY DEF TransportTypeOK, AddressKeptWithConnection, CallShape
  <1>5. CleanIsAlone'
    BY DEF TransportTypeOK, CleanIsAlone, InFlightCalls, InFlightPlaces, Places
  <1>6. SecondAttemptIsFresh' /\ LoneCallHeals'
    BY DEF TransportTypeOK, SecondAttemptIsFresh, LoneCallHeals, CleanIsAlone, InFlightCalls,
           InFlightPlaces, Places, NoConnection
  <1> QED BY <1>1, <1>2, <1>3, <1>4, <1>5, <1>6

\* Dropping the cached connection keeps the invariant.
LEMMA ResetKeepsInv ==
    ASSUME TransportInv, NEW c \in Calls, Reset(c)
    PROVE  TransportInv'
  <1> USE Http3Assumption DEF TransportInv, CallsAreSafeToRetry, Reset, AttemptAgain, AllowsTransportRetry
  <1>1. TransportTypeOK'
    <2>1. call' \in [Calls -> [at : Places, attempt : 0..2, conn : Connections \cup {NoConnection}]]
      <3>1. AttemptAgain(c) \in [at : Places, attempt : 0..2, conn : Connections \cup {NoConnection}]
        <4>1. call[c] \in [at : Places, attempt : 0..2, conn : Connections \cup {NoConnection}]
          BY DEF TransportTypeOK
        <4>2. "lookup" \in Places /\ "failed" \in Places /\ 2 \in 0..2
          BY DEF Places
        <4> QED BY <4>1, <4>2
      <3> HIDE DEF AttemptAgain
      <3> QED BY <3>1 DEF TransportTypeOK
    <2>2. cached' \in Connections \cup {NoConnection} /\ live' \subseteq Connections
      BY DEF TransportTypeOK
    <2>3. served' \in [Calls \ Idempotent -> 0..2]
      BY DEF TransportTypeOK, NotYetSent
    <2>4. resolved' \in BOOLEAN /\ up' \in BOOLEAN
      BY DEF TransportTypeOK
    <2>5. clean' \in [Calls -> BOOLEAN]
      BY DEF TransportTypeOK
    <2> QED BY <2>1, <2>2, <2>3, <2>4, <2>5 DEF TransportTypeOK
  <1>2. CallShape'
    BY DEF TransportTypeOK, CallShape, NoConnection, Connections
  <1>3. NotIdempotentSentOnce' /\ NotYetSent'
    BY DEF TransportTypeOK, NotIdempotentSentOnce, NotYetSent
  <1>4. AddressKeptWithConnection'
    BY DEF TransportTypeOK, AddressKeptWithConnection, CallShape
  <1>5. CleanIsAlone'
    BY DEF TransportTypeOK, CleanIsAlone, InFlightCalls, InFlightPlaces, Places
  <1>6. SecondAttemptIsFresh' /\ LoneCallHeals'
    BY DEF TransportTypeOK, SecondAttemptIsFresh, LoneCallHeals, CleanIsAlone, InFlightCalls,
           InFlightPlaces, Places, NoConnection
  <1> QED BY <1>1, <1>2, <1>3, <1>4, <1>5, <1>6

\* What the gateway does keeps the invariant.
LEMMA GatewayKeepsInv ==
    ASSUME TransportInv, GatewayStep
    PROVE  TransportInv'
  <1> USE Http3Assumption DEF TransportInv, CallsAreSafeToRetry, GatewayStep, GatewayDown,
                              GatewayUp, IdleClose
  <1>1. call' = call /\ cached' = cached /\ served' = served
        /\ CallShape' /\ NotIdempotentSentOnce' /\ NotYetSent'
    BY DEF CallShape, NotIdempotentSentOnce, NotYetSent
  <1>2. AddressKeptWithConnection'
    BY DEF AddressKeptWithConnection
  <1>3. TransportTypeOK'
    BY DEF TransportTypeOK
  <1>4. \A c \in Calls : clean'[c] => clean[c] /\ (up /\ ~up' => c \notin InFlightCalls)
    BY DEF TransportTypeOK
  <1>5. CleanIsAlone'
    BY <1>1, <1>4 DEF CleanIsAlone, InFlightCalls, TransportTypeOK
  <1>6. LoneCallHeals'
    BY <1>1, <1>4 DEF LoneCallHeals
  <1>7. SecondAttemptIsFresh'
    BY <1>1, <1>4 DEF SecondAttemptIsFresh, InFlightCalls, InFlightPlaces, Places, TransportTypeOK
  <1> QED BY <1>1, <1>2, <1>3, <1>5, <1>6, <1>7

\* Every step keeps the invariant.
LEMMA TransportInvStep == TransportInv /\ [TransportNext]_transportVars => TransportInv'
  <1> SUFFICES ASSUME TransportInv, [TransportNext]_transportVars PROVE TransportInv'
    OBVIOUS
  <1>1. CASE UNCHANGED transportVars
    BY <1>1 DEF transportVars, TransportInv, CallsAreSafeToRetry, TransportTypeOK,
        NotIdempotentSentOnce, AddressKeptWithConnection, LoneCallHeals, CallShape, NotYetSent,
        CleanIsAlone, SecondAttemptIsFresh, InFlightCalls
  <1>2. CASE GatewayStep
    BY <1>2, GatewayKeepsInv
  <1>3. ASSUME NEW c \in Calls, BeginCall(c) \/ CallStep(c) \/ Respond(c)
        PROVE  TransportInv'
    BY <1>3, BeginCallKeepsInv, LookupKeepsInv, ConnectKeepsInv, InstallKeepsInv, SendKeepsInv,
       RespondKeepsInv, TransportErrorKeepsInv, TimesOutKeepsInv, ResetKeepsInv
    DEF CallStep
  <1> QED BY <1>1, <1>2, <1>3 DEF TransportNext, TransportNextFor

\* However many calls share the connection, and however often the gateway goes down,
\* closes idle connections or lets a call time out: a request that is not
\* idempotent is sent at most once, an address is kept with its connection only,
\* and an idempotent call that is alone with a running gateway succeeds
\* (Http3GatewayTransport::request, get_or_connect, reset_connection).
THEOREM TransportSafe == TransportSpec => []CallsAreSafeToRetry
  <1>1. TransportInv => CallsAreSafeToRetry
    BY DEF TransportInv
  <1> QED BY TransportInvInit, TransportInvStep, <1>1, PTL DEF TransportSpec

-----------------------------------------------------------------------------
(* A read through the gateway. *)

\* What a read knows of the store: a status of 200 was given for a stored block,
\* and what is owed is stored, in a store that has not failed under the read.
StatusTrue ==
    \A c \in Calls :
        /\ httpStatus[c] = 200 => Wanted[c] \in stored
        /\ IF call[c].at = "answered" THEN httpStatus[c] \in {200, 404}
                                        ELSE httpStatus[c] = 0
        /\ c \in owed => /\ Wanted[c] \in stored /\ call[c].at # "idle"
                         /\ c \in InFlightCalls => ~failing
                         /\ call[c].at = "answered" => httpStatus[c] = 200

\* An outcome that is no block comes from a call that is over.
OutcomeTrue ==
    \A c \in Calls :
        /\ outcome[c] = "missing" => call[c].at = "answered" /\ httpStatus[c] = 404
        /\ outcome[c] = "error" => call[c].at = "failed"

ReadInv == TransportInv /\ ReadTypeOK /\ FoundWasStored /\ StatusTrue /\ OutcomeTrue

\* The invariant implies that a read is sound.
LEMMA ReadInvSound == ReadInv => ReadSound
  <1> SUFFICES ASSUME ReadInv, NEW c \in Idempotent, c \in owed, clean[c]
               PROVE  EmailAnswer(c) \notin {"MissingEmailLeafBlock", "BlockStore"}
    BY DEF ReadInv, ReadSound, StoredBlockIsRead
  <1>1. c \in Calls /\ call[c].at # "failed"
    BY Http3Assumption DEF ReadInv, TransportInv, CallsAreSafeToRetry, LoneCallHeals
  <1>2. outcome[c] # "missing" /\ outcome[c] # "error"
    BY <1>1 DEF ReadInv, StatusTrue, OutcomeTrue
  <1> QED BY <1>2 DEF EmailAnswer

\* The read invariant holds at the start.
LEMMA ReadInvInit == ReadInit => ReadInv
  <1> SUFFICES ASSUME ReadInit PROVE ReadInv
    OBVIOUS
  <1>1. TransportInv
    BY TransportInvInit DEF ReadInit
  <1>2. ReadTypeOK /\ FoundWasStored
    BY DEF ReadInit, ReadTypeOK, FoundWasStored, Outcomes
  <1>3. \A c \in Calls : call[c].at = "idle"
    BY DEF ReadInit, TransportInit
  <1>4. StatusTrue /\ OutcomeTrue
    BY <1>3 DEF ReadInit, StatusTrue, OutcomeTrue
  <1> QED BY <1>1, <1>2, <1>4 DEF ReadInv

\* Every step of the read path is one of the transport's or leaves it alone.
LEMMA ReadIsTransportStep == ReadNext => [TransportNext]_transportVars
  BY DEF ReadNext, ReadNextFor, TransportNext, TransportNextFor, OverlayHit, ReadBegin,
         TransportStep, GetBlock, ReadEnd, StorePut, StoreFails, StoreHeals, Evict

\* A step of one call leaves the others where they are, and a call that is over
\* stays so.
LEMMA CallStepIsLocal ==
    ASSUME TransportInv, NEW c \in Calls, CallStep(c)
    PROVE  /\ call[c].at \in InFlightPlaces
           /\ call'[c].at \notin {"idle", "answered"}
           /\ \A d \in Calls \ {c} : call'[d] = call[d]
  <1> DEFINE Local == /\ call[c].at \in InFlightPlaces
                      /\ call'[c].at \notin {"idle", "answered"}
                      /\ \A d \in Calls \ {c} : call'[d] = call[d]
  <1>1. call \in [Calls -> [at : Places, attempt : 0..2, conn : Connections \cup {NoConnection}]]
    BY DEF TransportInv, CallsAreSafeToRetry, TransportTypeOK
  <1>2. ASSUME Lookup(c) PROVE Local
    BY <1>1, <1>2 DEF Lookup, Go, InFlightPlaces, Places
  <1>3. ASSUME Connect(c) PROVE Local
    BY <1>1, <1>3 DEF Connect, InFlightPlaces, Places
  <1>4. ASSUME Install(c) PROVE Local
    BY <1>1, <1>4 DEF Install, Go, InFlightPlaces, Places
  <1>5. ASSUME Send(c) PROVE Local
    BY <1>1, <1>5 DEF Send, Go, InFlightPlaces, Places
  <1>6. ASSUME TransportError(c) PROVE Local
    BY <1>1, <1>6 DEF TransportError, LetGo, AfterError, InFlightPlaces, Places
  <1>7. ASSUME TimesOut(c) PROVE Local
    BY <1>1, <1>7 DEF TimesOut, LetGo, AfterError, InFlightPlaces, Places
  <1>8. ASSUME Reset(c) PROVE Local
    <2>1. call[c].at \in InFlightPlaces
      BY <1>1, <1>8 DEF Reset, InFlightPlaces, Places
    <2>2. AttemptAgain(c).at \in {"lookup", "failed"}
      BY <1>1 DEF AttemptAgain
    <2> HIDE DEF AttemptAgain
    <2> QED BY <1>1, <1>8, <2>1, <2>2 DEF Reset
  <1> QED BY <1>2, <1>3, <1>4, <1>5, <1>6, <1>7, <1>8 DEF CallStep

\* A step of the transport keeps the read invariant.
LEMMA TransportStepKeepsRead ==
    ASSUME ReadInv, NEW c \in Calls, TransportStep(c), TransportInv'
    PROVE  ReadInv'
  <1>1. /\ call[c].at \in InFlightPlaces
        /\ call'[c].at \notin {"idle", "answered"}
        /\ \A d \in Calls \ {c} : call'[d] = call[d]
    BY CallStepIsLocal DEF ReadInv, TransportStep
  <1>2. UNCHANGED readVars
    BY DEF TransportStep
  <1>3. ReadTypeOK' /\ FoundWasStored'
    BY <1>2 DEF ReadInv, readVars, ReadTypeOK, FoundWasStored
  <1>4. StatusTrue'
    BY <1>1, <1>2 DEF ReadInv, readVars, StatusTrue, InFlightCalls, InFlightPlaces
  <1>5. OutcomeTrue'
    BY <1>1, <1>2 DEF ReadInv, readVars, OutcomeTrue, InFlightPlaces
  <1> QED BY <1>3, <1>4, <1>5 DEF ReadInv

\* The start of a read keeps the read invariant.
LEMMA ReadBeginKeepsRead ==
    ASSUME ReadInv, NEW c \in Calls, ReadBegin(c), TransportInv'
    PROVE  ReadInv'
  <1>1. /\ call[c].at = "idle" /\ call'[c].at = "lookup"
        /\ \A d \in Calls \ {c} : call'[d] = call[d]
    BY DEF ReadInv, TransportInv, CallsAreSafeToRetry, TransportTypeOK, ReadBegin, BeginCall
  <1>2. ReadTypeOK' /\ FoundWasStored'
    BY DEF ReadInv, ReadBegin, ReadTypeOK, FoundWasStored
  <1>3. StatusTrue'
    BY <1>1 DEF ReadInv, ReadBegin, StatusTrue, InFlightCalls, InFlightPlaces, Places
  <1>4. OutcomeTrue'
    BY <1>1 DEF ReadInv, ReadBegin, OutcomeTrue
  <1> QED BY <1>2, <1>3, <1>4 DEF ReadInv

\* The gateway's answer keeps the read invariant.
LEMMA GetBlockKeepsRead ==
    ASSUME ReadInv, NEW c \in Calls, GetBlock(c), TransportInv'
    PROVE  ReadInv'
  <1> DEFINE result == StoreLookup(Wanted[c])
  <1>1. /\ call[c].at = "wait" /\ call'[c].at = "answered"
        /\ \A d \in Calls \ {c} : call'[d] = call[d]
    BY DEF ReadInv, TransportInv, CallsAreSafeToRetry, TransportTypeOK, GetBlock, Respond, LetGo
  <1>2. result = "found" => Wanted[c] \in stored
    BY DEF StoreLookup, ReadInv, FoundWasStored
  <1>3. c \in owed => result = "found"
    BY <1>1 DEF StoreLookup, ReadInv, StatusTrue, InFlightCalls, InFlightPlaces, Places
  <1>4. httpStatus' = [httpStatus EXCEPT ![c] = IF result = "found" THEN 200 ELSE 404]
    BY DEF GetBlock, GetBlockStatus
  <1> HIDE DEF result
  <1>5. ReadTypeOK' /\ FoundWasStored'
    BY <1>2, <1>4, GatewayReadAssumption DEF ReadInv, GetBlock, ReadTypeOK, FoundWasStored, result
  <1>6. StatusTrue'
    BY <1>1, <1>2, <1>3, <1>4
    DEF ReadInv, GetBlock, ReadTypeOK, StatusTrue, InFlightCalls, InFlightPlaces
  <1>7. OutcomeTrue'
    BY <1>1, <1>4 DEF ReadInv, GetBlock, OutcomeTrue, ReadTypeOK
  <1> QED BY <1>5, <1>6, <1>7 DEF ReadInv

\* The end of a read keeps the read invariant.
LEMMA ReadEndKeepsRead ==
    ASSUME ReadInv, NEW c \in Calls, ReadEnd(c), TransportInv'
    PROVE  ReadInv'
  <1>1. /\ ResultOf(c) \in {"found", "missing", "error"}
        /\ ResultOf(c) = "found" => httpStatus[c] = 200
        /\ ResultOf(c) = "missing" => call[c].at = "answered" /\ httpStatus[c] = 404
        /\ ResultOf(c) = "error" => call[c].at = "failed"
    <2>1. CASE call[c].at = "failed" /\ httpStatus[c] = 0
      BY <2>1 DEF ResultOf
    <2>2. CASE call[c].at = "answered" /\ httpStatus[c] = 200
      BY <2>2 DEF ResultOf
    <2>3. CASE call[c].at = "answered" /\ httpStatus[c] = 404
      BY <2>3 DEF ResultOf
    <2> QED BY <2>1, <2>2, <2>3 DEF ReadEnd, ReadInv, StatusTrue
  <1>2. ReadTypeOK' /\ FoundWasStored'
    BY <1>1, GatewayReadAssumption
    DEF ReadInv, ReadEnd, ReadTypeOK, FoundWasStored, StatusTrue, Outcomes
  <1>3. StatusTrue'
    BY DEF ReadInv, ReadEnd, StatusTrue, InFlightCalls, transportVars
  <1>4. OutcomeTrue'
    BY <1>1 DEF ReadInv, ReadEnd, OutcomeTrue, ReadTypeOK, transportVars
  <1> QED BY <1>2, <1>3, <1>4 DEF ReadInv

\* The steps of the store, the caches and the gateway.
LEMMA SurroundingsKeepRead ==
    ASSUME ReadInv, TransportInv',
           \/ GatewayStep /\ UNCHANGED readVars
           \/ \E c \in Calls : OverlayHit(c)
           \/ StorePut \/ StoreFails \/ StoreHeals \/ Evict
    PROVE  ReadInv'
  <1>1. call' = call
    BY DEF GatewayStep, GatewayDown, GatewayUp, IdleClose, OverlayHit, StorePut, StoreFails,
           StoreHeals, Evict, transportVars
  <1>2. ReadTypeOK' /\ FoundWasStored'
    BY DEF ReadInv, OverlayHit, StorePut, StoreFails, StoreHeals, Evict, readVars, ReadTypeOK,
           FoundWasStored, Outcomes
  <1>3. StatusTrue'
    BY <1>1 DEF ReadInv, OverlayHit, StorePut, StoreFails, StoreHeals, Evict, readVars,
                StatusTrue, InFlightCalls
  <1>4. OutcomeTrue'
    BY <1>1 DEF ReadInv, OverlayHit, StorePut, StoreFails, StoreHeals, Evict, readVars,
                OutcomeTrue, ReadTypeOK
  <1> QED BY <1>2, <1>3, <1>4 DEF ReadInv

\* Every step keeps the read invariant.
LEMMA ReadInvStep == ReadInv /\ [ReadNext]_gatewayReadVars => ReadInv'
  <1> SUFFICES ASSUME ReadInv, [ReadNext]_gatewayReadVars PROVE ReadInv'
    OBVIOUS
  <1>1. TransportInv'
    BY ReadIsTransportStep, TransportInvStep DEF ReadInv, gatewayReadVars
  <1>2. CASE UNCHANGED gatewayReadVars
    BY <1>1, <1>2 DEF gatewayReadVars, transportVars, readVars, ReadInv, ReadTypeOK,
                      FoundWasStored, StatusTrue, OutcomeTrue, InFlightCalls
  <1>3. CASE ReadNext
    BY <1>1, <1>3, TransportStepKeepsRead, ReadBeginKeepsRead, GetBlockKeepsRead,
       ReadEndKeepsRead, SurroundingsKeepRead
    DEF ReadNext, ReadNextFor
  <1> QED BY <1>2, <1>3

\* Through both caches, the transport and the gateway, with the store and the
\* gateway failing and healing and blocks being put and evicted meanwhile: no
\* layer makes a block up, and a read is not refused a block that was stored
\* before it began unless something failed during it (get_block,
\* Http3BlockStore::get_block_bytes).
THEOREM ReadSafe == ReadSpec => []ReadSound
  BY ReadInvInit, ReadInvStep, ReadInvSound, PTL DEF ReadSpec

=============================================================================
