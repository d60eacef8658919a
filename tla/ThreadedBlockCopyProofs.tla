----------------------- MODULE ThreadedBlockCopyProofs -----------------------
(***************************************************************************)
(* A multi-worker rooted copy and its two queues, for every graph, every   *)
(* number of threads, all limits and every choice of faults.               *)
(*                                                                         *)
(* The traversal work queue is declared exhausted only when it is, and a   *)
(* sleeping worker always has a waker.  In the write queue checkpoints run *)
(* alone, the in-flight bounds on jobs and on bytes hold, and while        *)
(* batching may still be tried only one batch is in flight, so that        *)
(* "Unsupported" is never overwritten.  The copy implements both: each     *)
(* step of a worker, writer, the interrupt thread or the calling thread    *)
(* is, for each queue, one of its operations or a stutter, so that what is *)
(* proved of the queues holds of the whole copy.                           *)
(*                                                                         *)
(* Then what the copy leaves behind: each claimed block is handled once    *)
(* and not dropped, compactions keep pace with the attempted writes, a     *)
(* copy that completed is complete, and its report names every failure     *)
(* once for every root that reaches it.                                    *)
(***************************************************************************)
EXTENDS ThreadedBlockCopy, CopyTrackerProofs, SequenceTheorems, WellFoundedInduction,
        NaturalsInduction

-----------------------------------------------------------------------------
(* The traversal work queue alone. *)

\* The counter of active workers agrees with the stages, and only a stopped copy
\* unwinds; the two safety properties of the queue are inductive relative to that.
UnwindingIsStopped == \A w \in Workers : stage[w] = "unwind_item" => stop_requested

WorkInv ==
    /\ WorkTypeOK
    /\ UnwindingIsStopped
    /\ ActiveCountsHolders
    /\ NoEarlyShutdown
    /\ SleepersHaveAWaker

-----------------------------------------------------------------------------
(* How the set of holders changes when one worker changes stage. *)

\* There are finitely many workers, so counting holders makes sense.
LEMMA HoldersFinite == IsFiniteSet(Holders) /\ Cardinality(Holders) \in Nat
  BY FS_Subset, FS_CardinalityType, ThreadsAssumption DEF Holders

\* A worker that takes an item becomes one more holder.
LEMMA HoldersGain ==
    ASSUME WorkTypeOK, NEW w \in Workers, stage[w] \notin HoldingStages,
           NEW s \in HoldingStages, Moves(w, s)
    PROVE  /\ Holders' = Holders \cup {w}
           /\ Cardinality(Holders') = Cardinality(Holders) + 1
  <1>1. Holders' = Holders \cup {w}
    BY DEF Holders, Moves, WorkTypeOK
  <1>2. w \notin Holders
    BY DEF Holders
  <1> QED BY <1>1, <1>2, HoldersFinite, FS_AddElement

\* A worker whose guard is dropped is one holder less.
LEMMA HoldersLose ==
    ASSUME WorkTypeOK, NEW w \in Workers, stage[w] \in HoldingStages,
           NEW s, s \notin HoldingStages, Moves(w, s)
    PROVE  /\ Holders' = Holders \ {w}
           /\ Cardinality(Holders') = Cardinality(Holders) - 1
           /\ Cardinality(Holders) > 0
  <1>1. Holders' = Holders \ {w}
    BY DEF Holders, Moves, WorkTypeOK
  <1>2. w \in Holders
    BY DEF Holders
  <1>3. Cardinality(Holders') = Cardinality(Holders) - 1
    BY <1>1, <1>2, HoldersFinite, FS_RemoveElement
  <1>4. Cardinality(Holders) # 0
    BY <1>2, HoldersFinite, FS_EmptySet
  <1> QED BY <1>1, <1>3, <1>4, HoldersFinite

\* Any other change of stage leaves the set alone.
LEMMA HoldersKeep ==
    ASSUME WorkTypeOK, NEW w \in Workers, NEW s, Moves(w, s),
           stage[w] \in HoldingStages <=> s \in HoldingStages
    PROVE  Holders' = Holders
  BY DEF Holders, Moves, WorkTypeOK

\* The two kinds of stages do not overlap.
LEMMA StagesDisjoint == HoldingStages \cap FreeStages = {}
  BY DEF HoldingStages, FreeStages

-----------------------------------------------------------------------------
\* Initially every worker is in pop and nobody is active.
LEMMA WorkInvInit == WorkQueueInit => WorkInv
  <1> SUFFICES ASSUME WorkQueueInit PROVE WorkInv
    OBVIOUS
  <1>1. Holders = {}
    BY DEF Holders, WorkQueueInit, HoldingStages
  <1>2. WorkTypeOK
    <2>1. work_queue \in Seq(Items)
      BY GraphAssumption DEF WorkQueueInit, Items
    <2> QED BY <1>1, <2>1 DEF WorkTypeOK, WorkQueueInit, FreeStages
  <1> QED
    BY <1>1, <1>2, FS_EmptySet
       DEF WorkInv, WorkQueueInit, UnwindingIsStopped, ActiveCountsHolders, NoEarlyShutdown, SleepersHaveAWaker

\* pop returning None on a stop or shutdown.
LEMMA PopStoppedStep ==
    ASSUME WorkInv, NEW w \in Workers, PopStopped(w)
    PROVE  WorkInv'
  <1>1. stage[w] \notin HoldingStages /\ "done" \notin HoldingStages
    BY DEF PopStopped, InPop, HoldingStages
  <1>2. Holders' = Holders
    BY <1>1, HoldersKeep DEF PopStopped, WorkInv
  <1>3. WorkTypeOK'
    BY <1>2 DEF PopStopped, WorkInv, WorkTypeOK, NotifyWork, Moves, FreeStages
  <1> QED
    BY <1>2, <1>3 DEF WorkInv, WorkTypeOK, Moves, PopStopped, NotifyWork, UnwindingIsStopped, ActiveCountsHolders, NoEarlyShutdown,
                      SleepersHaveAWaker

\* pop returning an item.
LEMMA PopItemStep ==
    ASSUME WorkInv, NEW w \in Workers, PopItem(w)
    PROVE  WorkInv'
  <1>1. stage[w] \notin HoldingStages /\ "note_root" \in HoldingStages
    BY DEF PopItem, InPop, HoldingStages
  <1>2. Holders' = Holders \cup {w} /\ Cardinality(Holders') = Cardinality(Holders) + 1
    BY <1>1, HoldersGain DEF PopItem, WorkInv
  <1>3. Head(work_queue) \in Items /\ Tail(work_queue) \in Seq(Items)
    BY DEF PopItem, WorkInv, WorkTypeOK
  <1>4. WorkTypeOK'
    BY <1>2, <1>3 DEF PopItem, WorkInv, WorkTypeOK, Moves, HoldingStages
  <1> QED
    BY <1>2, <1>4 DEF WorkInv, WorkTypeOK, Moves, PopItem, UnwindingIsStopped, ActiveCountsHolders, NoEarlyShutdown,
                      SleepersHaveAWaker

\* pop finding the traversal exhausted.
LEMMA PopExhaustedStep ==
    ASSUME WorkInv, NEW w \in Workers, PopExhausted(w)
    PROVE  WorkInv'
  <1>1. stage[w] \notin HoldingStages /\ "done" \notin HoldingStages
    BY DEF PopExhausted, InPop, HoldingStages
  <1>2. Holders' = Holders
    BY <1>1, HoldersKeep DEF PopExhausted, WorkInv
  <1>3. Holders = {}
    BY HoldersFinite, FS_EmptySet DEF PopExhausted, WorkInv, ActiveCountsHolders
  <1>4. WorkTypeOK'
    BY <1>2 DEF PopExhausted, WorkInv, WorkTypeOK, NotifyWork, Moves, FreeStages
  <1> QED
    BY <1>2, <1>3, <1>4 DEF WorkInv, WorkTypeOK, Moves, PopExhausted, NotifyWork, UnwindingIsStopped, ActiveCountsHolders,
                            NoEarlyShutdown, SleepersHaveAWaker

\* pop going to sleep: some worker is active.
LEMMA PopWaitsStep ==
    ASSUME WorkInv, NEW w \in Workers, PopWaits(w)
    PROVE  WorkInv'
  <1>1. Holders' = Holders
    BY DEF PopWaits, Holders
  <1>2. Holders # {}
    BY FS_EmptySet DEF PopWaits, WorkInv, ActiveCountsHolders
  <1>3. WorkTypeOK'
    BY <1>1 DEF PopWaits, WorkInv, WorkTypeOK
  <1> QED
    BY <1>1, <1>2, <1>3 DEF WorkInv, PopWaits, UnwindingIsStopped, ActiveCountsHolders, NoEarlyShutdown,
                            SleepersHaveAWaker

\* A spurious wake-up only shrinks the set of sleepers.
LEMMA SpuriousPopWakeStep ==
    ASSUME WorkInv, NEW w \in Workers, SpuriousPopWake(w)
    PROVE  WorkInv'
  <1>1. Holders' = Holders
    BY DEF SpuriousPopWake, Holders
  <1>2. WorkTypeOK'
    BY <1>1 DEF SpuriousPopWake, WorkInv, WorkTypeOK
  <1> QED
    BY <1>1, <1>2 DEF WorkInv, SpuriousPopWake, UnwindingIsStopped, ActiveCountsHolders, NoEarlyShutdown,
                      SleepersHaveAWaker

\* Queueing the children of a block: the worker that does it holds an item, so
\* the queue is not shut down unless a stop was requested.
LEMMA EnqueueChildrenStep ==
    ASSUME WorkInv, NEW w \in Workers,
           NEW children \in {<<>>, Children[item[w][2]]}, EnqueueChildren(w, children)
    PROVE  WorkInv'
  <1>1. stage[w] \in HoldingStages /\ "destination" \in HoldingStages
    BY DEF EnqueueChildren, HoldingStages
  <1>2. Holders' = Holders /\ w \in Holders
    BY <1>1, HoldersKeep DEF EnqueueChildren, WorkInv, Holders
  <1>3. item[w][1] \in Blocks /\ item[w][2] \in Blocks
    BY <1>2 DEF WorkInv, WorkTypeOK, Items
  <1>4. children \in Seq(Blocks)
    <2>1. Children[item[w][2]] \in Seq(Blocks)
      BY <1>3, GraphAssumption
    <2>2. <<>> \in Seq(Blocks)
      OBVIOUS
    <2> QED BY <2>1, <2>2
  <1>5. work_queue' \in Seq(Items)
    <2>1. CASE work_shutdown \/ children = <<>>
      BY <2>1 DEF EnqueueChildren, WorkInv, WorkTypeOK
    <2>2. CASE ~(work_shutdown \/ children = <<>>)
      <3> DEFINE pairs == [i \in 1..Len(children) |-> <<item[w][1], children[i]>>]
      <3>1. pairs \in Seq(Items)
        BY <1>3, <1>4 DEF Items
      <3>2. work_queue' = work_queue \o pairs
        BY <2>2 DEF EnqueueChildren
      <3> HIDE DEF pairs
      <3> QED BY <3>1, <3>2 DEF WorkInv, WorkTypeOK
    <2> QED BY <2>1, <2>2
  <1>6. WorkTypeOK'
    BY <1>2, <1>5 DEF EnqueueChildren, WorkInv, WorkTypeOK, NotifyWork, Moves, HoldingStages
  <1> QED
    BY <1>2, <1>6 DEF WorkInv, WorkTypeOK, Moves, EnqueueChildren, NotifyWork, UnwindingIsStopped, ActiveCountsHolders,
                      NoEarlyShutdown, SleepersHaveAWaker

\* finish_item: the last holder to leave an empty queue ends the traversal.
LEMMA FinishItemStep ==
    ASSUME WorkInv, NEW w \in Workers, FinishItem(w)
    PROVE  WorkInv'
  <1>1. stage[w] \in HoldingStages /\ "pop" \notin HoldingStages
    BY DEF FinishItem, HoldingStages
  <1>2. /\ Holders' = Holders \ {w}
        /\ Cardinality(Holders') = Cardinality(Holders) - 1
        /\ Cardinality(Holders) > 0
    BY <1>1, HoldersLose DEF FinishItem, WorkInv
  <1>3. active_workers' = Cardinality(Holders')
    BY <1>2, HoldersFinite DEF FinishItem, WorkInv, ActiveCountsHolders, SaturatingSub
  <1>4. active_workers' = 0 => Holders' = {}
    <2>1. IsFiniteSet(Holders')
      BY <1>2, HoldersFinite, FS_RemoveElement
    <2> QED BY <1>3, <2>1, FS_EmptySet
  <1>5. w \in Holders
    BY <1>1 DEF Holders
  <1>6. WorkTypeOK'
    <2>1. active_workers' \in Nat
      BY <1>2, <1>3, HoldersFinite
    <2> QED
      BY <1>2, <2>1 DEF FinishItem, WorkInv, WorkTypeOK, NotifyWork, Moves, FreeStages,
                        TraversalOver
  <1> QED
    BY <1>3, <1>4, <1>5, <1>6 DEF WorkInv, WorkTypeOK, Moves, FinishItem, NotifyWork, TraversalOver,
        UnwindingIsStopped, ActiveCountsHolders, NoEarlyShutdown, SleepersHaveAWaker

\* A panic while holding an item, and the drop of the guard while unwinding.
LEMMA WorkerPanicStep ==
    ASSUME WorkInv, NEW w \in Workers, WorkerPanic(w)
    PROVE  WorkInv'
  <1>1. stage[w] \in HoldingStages /\ "unwind_item" \in HoldingStages
    BY DEF WorkerPanic, HoldingStages
  <1>2. Holders' = Holders
    BY <1>1, HoldersKeep DEF WorkerPanic, WorkInv
  <1>3. WorkTypeOK'
    BY <1>2 DEF WorkerPanic, WorkInv, WorkTypeOK, Moves, HoldingStages
  <1> QED
    BY <1>2, <1>3 DEF WorkInv, WorkerPanic, UnwindingIsStopped, ActiveCountsHolders, NoEarlyShutdown,
                      SleepersHaveAWaker

\* A worker that unwinds gives its item back as finish_item does.
LEMMA UnwindItemStep ==
    ASSUME WorkInv, NEW w \in Workers, UnwindItem(w)
    PROVE  WorkInv'
  <1>1. stage[w] \in HoldingStages /\ "unwind_work" \notin HoldingStages
    BY DEF UnwindItem, HoldingStages
  <1>2. /\ Holders' = Holders \ {w}
        /\ Cardinality(Holders') = Cardinality(Holders) - 1
        /\ Cardinality(Holders) > 0
    BY <1>1, HoldersLose DEF UnwindItem, WorkInv
  <1>3. active_workers' = Cardinality(Holders')
    BY <1>2, HoldersFinite DEF UnwindItem, WorkInv, ActiveCountsHolders, SaturatingSub
  <1>4. WorkTypeOK'
    <2>1. active_workers' \in Nat
      BY <1>2, <1>3, HoldersFinite
    <2> QED BY <1>2, <2>1 DEF UnwindItem, WorkInv, WorkTypeOK, NotifyWork, Moves, FreeStages
  <1> QED
    BY <1>2, <1>3, <1>4 DEF WorkInv, UnwindItem, NotifyWork, Moves, WorkTypeOK,
        UnwindingIsStopped, ActiveCountsHolders, NoEarlyShutdown, SleepersHaveAWaker

\* request_shutdown, by a thread whose stage may change with it.
LEMMA RequestWorkShutdownStep ==
    ASSUME WorkInv, RequestWorkShutdown,
           \/ UNCHANGED stage
           \/ \E w \in Workers : stage[w] = "unwind_work" /\ Moves(w, "unwind_write")
    PROVE  WorkInv'
  <1>1. Holders' = Holders
    <2>1. CASE UNCHANGED stage
      BY <2>1 DEF Holders
    <2>2. CASE \E w \in Workers : stage[w] = "unwind_work" /\ Moves(w, "unwind_write")
      <3>1. PICK w \in Workers : stage[w] = "unwind_work" /\ Moves(w, "unwind_write")
        BY <2>2
      <3>2. stage[w] \notin HoldingStages /\ "unwind_write" \notin HoldingStages
        BY <3>1 DEF HoldingStages
      <3> QED BY <3>1, <3>2, HoldersKeep DEF WorkInv
    <2> QED BY <2>1, <2>2
  <1>2. WorkTypeOK'
    BY <1>1 DEF RequestWorkShutdown, WorkInv, WorkTypeOK, NotifyWork, Moves, FreeStages
  <1> QED
    BY <1>1, <1>2 DEF WorkInv, RequestWorkShutdown, NotifyWork, UnwindingIsStopped,
        ActiveCountsHolders, NoEarlyShutdown, SleepersHaveAWaker

\* A worker moving between stages with its item, or ending.
LEMMA BusyStepStep ==
    ASSUME WorkInv, NEW w \in Workers, BusyStep(w)
    PROVE  WorkInv'
  <1>1. PICK s \in HoldingStages \cup FreeStages :
           /\ Moves(w, s)
           /\ stage[w] \in HoldingStages <=> s \in HoldingStages
           /\ s # "unwind_item"
    BY StagesDisjoint DEF BusyStep, BusyStages, FreeStages, HoldingStages
  <1>2. Holders' = Holders
    BY <1>1, HoldersKeep DEF WorkInv
  <1>3. WorkTypeOK'
    BY <1>1, <1>2 DEF BusyStep, WorkInv, WorkTypeOK, Moves
  <1>4. UnwindingIsStopped'
    BY <1>1 DEF BusyStep, WorkInv, WorkTypeOK, Moves, UnwindingIsStopped
  <1> QED
    BY <1>2, <1>3, <1>4 DEF WorkInv, BusyStep, ActiveCountsHolders, NoEarlyShutdown,
                            SleepersHaveAWaker

\* Storing stop_requested only weakens what the invariant demands.
LEMMA StopStoredStep ==
    ASSUME WorkInv, StopStored
    PROVE  WorkInv'
  <1>1. Holders' = Holders
    BY DEF StopStored, workVars, Holders
  <1> QED
    BY <1>1 DEF WorkInv, StopStored, workVars, WorkTypeOK, UnwindingIsStopped,
        ActiveCountsHolders, NoEarlyShutdown, SleepersHaveAWaker

\* Every step of the component preserves the inductive invariant.
LEMMA WorkInvStep ==
    ASSUME WorkInv, [WorkQueueNext]_<<workVars, stop_requested>>
    PROVE  WorkInv'
  <1>1. CASE UNCHANGED <<workVars, stop_requested>>
    <2>1. Holders' = Holders
      BY <1>1 DEF workVars, Holders
    <2> QED
      BY <1>1, <2>1 DEF WorkInv, workVars, WorkTypeOK, UnwindingIsStopped,
          ActiveCountsHolders, NoEarlyShutdown, SleepersHaveAWaker
  <1>2. ASSUME NEW w \in Workers, Pop(w)
        PROVE  WorkInv'
    BY <1>2, PopStoppedStep, PopItemStep, PopExhaustedStep, PopWaitsStep DEF Pop
  <1>3. ASSUME NEW w \in Workers, SpuriousPopWake(w)
        PROVE  WorkInv'
    BY <1>3, SpuriousPopWakeStep
  <1>4. ASSUME NEW w \in Workers,
               NEW children \in {<<>>, Children[item[w][2]]}, EnqueueChildren(w, children)
        PROVE  WorkInv'
    BY <1>4, EnqueueChildrenStep
  <1>5. ASSUME NEW w \in Workers, FinishItem(w) \/ WorkerPanic(w) \/ UnwindItem(w) \/ BusyStep(w)
        PROVE  WorkInv'
    BY <1>5, FinishItemStep, WorkerPanicStep, UnwindItemStep, BusyStepStep
  <1>6. CASE RequestWorkShutdown /\
             (\/ UNCHANGED stage
              \/ \E w \in Workers : stage[w] = "unwind_work" /\ Moves(w, "unwind_write"))
    BY <1>6, RequestWorkShutdownStep
  <1>7. CASE StopStored
    BY <1>7, StopStoredStep
  <1> QED BY <1>1, <1>2, <1>3, <1>4, <1>5, <1>6, <1>7 DEF WorkQueueNext

\* The work queue of the multi-worker copy is safe: its counter is exact, the
\* traversal ends early only on request, and no worker sleeps without a waker.
THEOREM WorkQueueSafe ==
    WorkQueueSpec => [](ActiveCountsHolders /\ NoEarlyShutdown /\ SleepersHaveAWaker)
  <1>1. WorkQueueInit => WorkInv
    BY WorkInvInit
  <1>2. WorkInv /\ [WorkQueueNext]_<<workVars, stop_requested>> => WorkInv'
    BY WorkInvStep
  <1>3. WorkInv => ActiveCountsHolders /\ NoEarlyShutdown /\ SleepersHaveAWaker
    BY DEF WorkInv
  <1> QED BY <1>1, <1>2, <1>3, PTL DEF WorkQueueSpec

-----------------------------------------------------------------------------
(* The write queue alone. *)

\* One slot per job in the hands of a writer: what active_writes counts.
Slots == {s \in Writers \X Nat : /\ writer[s[1]].at \in BatchStages
                                 /\ s[2] \in 1..Len(writer[s[1]].jobs)}

SlotsCounted == IsFiniteSet(Slots) /\ active_writes = Cardinality(Slots)

HoldersHaveJobs == \A v \in BatchHolders : Len(writer[v].jobs) > 0

\* A multi-job batch is never waiting to be published once batches are known to
\* be unsupported.
SinglesOnceUnsupported ==
    batch_write_capability = "Unsupported" =>
       \A v \in Writers : writer[v].at = "publish" => Len(writer[v].jobs) = 1

\* checkpoint_running is the lock of the checkpoint.
CheckpointLocked ==
    /\ \A v \in Writers : writer[v].at \in CheckpointStages => checkpoint_running
    /\ \A u, v \in Writers : writer[u].at \in CheckpointStages
                             /\ writer[v].at \in CheckpointStages => u = v
    /\ checkpoint_running => write_queue = <<>> /\ BatchHolders = {}

WriteInv ==
    /\ WriteControlTypeOK
    /\ SlotsCounted
    /\ HoldersHaveJobs
    /\ InFlightWithinLimit
    /\ OneBatchUntilUnsupported
    /\ SinglesOnceUnsupported
    /\ CheckpointLocked

-----------------------------------------------------------------------------
(* How the slots change when one writer changes stage. *)

\* The slots of a single batch.
LEMMA BatchSlots ==
    ASSUME NEW v, NEW n \in Nat
    PROVE  IsFiniteSet({v} \X (1..n)) /\ Cardinality({v} \X (1..n)) = n
  <1>1. IsFiniteSet(1..n) /\ Cardinality(1..n) = n
    BY FS_Interval
  <1>2. IsFiniteSet({v}) /\ Cardinality({v}) = 1
    BY FS_Singleton
  <1> QED BY <1>1, <1>2, FS_Product

\* A writer that takes a batch of n jobs adds n slots.
LEMMA SlotsGain ==
    ASSUME WriteControlTypeOK, IsFiniteSet(Slots), NEW v \in Writers,
           writer[v].at \notin BatchStages,
           NEW jobs \in Seq(Blocks),
           writer' = [writer EXCEPT ![v] = [at |-> "publish", jobs |-> jobs]]
    PROVE  /\ IsFiniteSet(Slots')
           /\ Cardinality(Slots') = Cardinality(Slots) + Len(jobs)
           /\ BatchHolders' = BatchHolders \cup {v}
  <1> DEFINE new == {v} \X (1..Len(jobs))
  <1>1. Len(jobs) \in Nat
    OBVIOUS
  <1>2. IsFiniteSet(new) /\ Cardinality(new) = Len(jobs)
    BY <1>1, BatchSlots
  <1>3. Slots' = Slots \cup new
    BY <1>1 DEF Slots, WriteControlTypeOK, BatchStages
  <1>4. Slots \cap new = {}
    BY DEF Slots
  <1>5. BatchHolders' = BatchHolders \cup {v}
    BY DEF BatchHolders, WriteControlTypeOK, BatchStages
  <1> HIDE DEF new
  <1>6. Cardinality(Slots) \in Nat /\ Cardinality(Slots \cap new) = 0
    BY <1>4, FS_EmptySet, FS_CardinalityType
  <1>7. /\ IsFiniteSet(Slots \cup new)
        /\ Cardinality(Slots \cup new)
              = Cardinality(Slots) + Cardinality(new) - Cardinality(Slots \cap new)
    BY <1>2, FS_Union
  <1> QED BY <1>1, <1>2, <1>3, <1>5, <1>6, <1>7

\* A writer that completes its batch gives all of its slots back.
LEMMA SlotsLose ==
    ASSUME WriteControlTypeOK, SlotsCounted, NEW v \in Writers,
           writer[v].at \in BatchStages,
           NEW to, to \notin BatchStages, ReleaseBatch(v, to)
    PROVE  /\ SlotsCounted'
           /\ active_writes' \in Nat
           /\ active_writes' <= active_writes
           /\ BatchHolders' = BatchHolders \ {v}
  <1> DEFINE n == Len(writer[v].jobs)
             old == {v} \X (1..n)
  <1>1. n \in Nat
    BY DEF WriteControlTypeOK
  <1>2. IsFiniteSet(old) /\ Cardinality(old) = n
    BY <1>1, BatchSlots
  <1>3. Slots' = Slots \ old
    BY <1>1 DEF Slots, WriteControlTypeOK, ReleaseBatch
  <1>4. Slots \cap old = old
    BY <1>1 DEF Slots, WriteControlTypeOK
  <1>5. BatchHolders' = BatchHolders \ {v}
    BY DEF BatchHolders, WriteControlTypeOK, ReleaseBatch
  <1>6. active_writes' = SaturatingSub(active_writes, n)
    BY DEF ReleaseBatch
  <1> HIDE DEF old, n
  <1>7. IsFiniteSet(Slots') /\ Cardinality(Slots') = Cardinality(Slots) - n
    BY <1>2, <1>3, <1>4, FS_Difference DEF SlotsCounted
  <1>8. Cardinality(Slots) \in Nat /\ Cardinality(Slots') \in Nat
    BY <1>7, FS_CardinalityType DEF SlotsCounted
  <1> QED BY <1>1, <1>5, <1>6, <1>7, <1>8 DEF SlotsCounted, SaturatingSub

\* A writer that moves on with its batch, or without one, keeps the slots.
LEMMA SlotsKeep ==
    ASSUME WriteControlTypeOK, NEW v \in Writers, NEW to, WriterMoves(v, to),
           writer[v].at \in BatchStages <=> to \in BatchStages
    PROVE  Slots' = Slots /\ BatchHolders' = BatchHolders
  BY DEF Slots, BatchHolders, WriterMoves, WriteControlTypeOK

\* When no write is active, no writer holds a batch.
LEMMA IdleHasNoHolders ==
    ASSUME WriteInv, active_writes = 0
    PROVE  BatchHolders = {}
  <1>1. Slots = {}
    BY FS_EmptySet DEF WriteInv, SlotsCounted
  <1>2. ASSUME NEW v \in BatchHolders PROVE FALSE
    <2>1. Len(writer[v].jobs) \in Nat /\ Len(writer[v].jobs) > 0 /\ v \in Writers
      BY <1>2 DEF WriteInv, HoldersHaveJobs, BatchHolders, WriteControlTypeOK
    <2>2. <<v, 1>> \in Slots
      BY <1>2, <2>1 DEF Slots, BatchHolders
    <2> QED BY <1>1, <2>2
  <1> QED BY <1>2

-----------------------------------------------------------------------------
(* Initially no writer holds anything. *)

\* The invariant holds when the threads start.
LEMMA WriteInvInit ==
    ASSUME WriteQueueInit
    PROVE  WriteInv
  <1> USE DEF WriteQueueInit
  <1>1. WriteControlTypeOK
    <2>1. <<>> \in Seq(Blocks)
      OBVIOUS
    <2>2. writer \in [Writers -> [at : WriterStages, jobs : Seq(Blocks)]]
      BY <2>1 DEF WriterStages
    <2> QED BY <2>1, <2>2 DEF WriteControlTypeOK, Capabilities
  <1>2. Slots = {} /\ BatchHolders = {}
    BY DEF Slots, BatchHolders, BatchStages
  <1>3. SlotsCounted
    BY <1>2, FS_EmptySet DEF SlotsCounted
  <1>4. InFlightWithinLimit
    BY WriteLimitsAssumption DEF InFlightWithinLimit, InFlight
  <1> QED
    BY <1>1, <1>2, <1>3, <1>4
    DEF WriteInv, HoldersHaveJobs, OneBatchUntilUnsupported, SinglesOnceUnsupported,
        CheckpointLocked, CheckpointStages

-----------------------------------------------------------------------------
(* Steps of next_action and enqueue. *)

\* A step that only changes flags, counters or sleepers keeps the invariant.
LEMMA FrameKeepsInv ==
    ASSUME WriteInv, WriteControlTypeOK',
           UNCHANGED <<writer, active_writes, write_queue, batch_write_capability,
                       checkpoint_running>>
    PROVE  WriteInv'
  <1>1. Slots' = Slots /\ BatchHolders' = BatchHolders
    BY DEF Slots, BatchHolders
  <1> QED
    BY <1>1
    DEF WriteInv, SlotsCounted, HoldersHaveJobs, InFlightWithinLimit, InFlight,
        OneBatchUntilUnsupported, SinglesOnceUnsupported, CheckpointLocked

\* enqueue admits a job only below the limit and while no checkpoint runs.
LEMMA EnqueueKeepsInv ==
    ASSUME WriteInv, NEW w \in Workers, NEW b \in Blocks, EnqueueAccepted(w, b)
    PROVE  WriteInv'
  <1> USE DEF WriteInv, EnqueueAccepted
  <1>1. WriteControlTypeOK'
    BY WriteLimitsAssumption DEF WriteControlTypeOK, CountsAttempts, NotifyWrite
  <1>2. Slots' = Slots /\ BatchHolders' = BatchHolders
    BY DEF Slots, BatchHolders
  <1>3. InFlightWithinLimit'
    BY WriteLimitsAssumption
    DEF InFlightWithinLimit, InFlight, AdmissionBlocked, WriteControlTypeOK
  <1>4. CheckpointLocked'
    BY <1>2 DEF CheckpointLocked, AdmissionBlocked, WriteControlTypeOK
  <1> QED
    BY <1>1, <1>2, <1>3, <1>4
    DEF SlotsCounted, HoldersHaveJobs, OneBatchUntilUnsupported, SinglesOnceUnsupported

\* A batch is taken from a nonempty queue, so never during a checkpoint; unless
\* batches are unsupported no other batch is active; if they are it has one job.
LEMMA TakeBatchKeepsInv ==
    ASSUME WriteInv, NEW v \in Writers, TakeBatch(v)
    PROVE  WriteInv'
  <1> USE DEF WriteInv
  <1>1. PICK n \in 1..Len(write_queue) :
           /\ IsBatchLen(n)
           /\ writer' = [writer EXCEPT ![v] = [at |-> "publish", jobs |-> Prefix(n)]]
           /\ write_queue' = SubSeq(write_queue, n + 1, Len(write_queue))
           /\ active_writes' = active_writes + n
    BY DEF TakeBatch
  <1>2. /\ Prefix(n) \in Seq(Blocks) /\ Len(Prefix(n)) = n
        /\ write_queue' \in Seq(Blocks) /\ Len(write_queue') = Len(write_queue) - n
        /\ n \in Nat /\ n > 0 /\ Len(write_queue) \in Nat /\ n <= Len(write_queue)
    <2>1. Len(write_queue) \in Nat /\ n \in Nat /\ n > 0 /\ n <= Len(write_queue)
      BY <1>1 DEF WriteControlTypeOK
    <2>2. Prefix(n) \in Seq(Blocks) /\ Len(Prefix(n)) = n
      BY <2>1, SubSeqProperties DEF Prefix, WriteControlTypeOK
    <2>3. write_queue' \in Seq(Blocks) /\ Len(write_queue') = Len(write_queue) - n
      BY <1>1, <2>1, SubSeqProperties DEF WriteControlTypeOK
    <2> QED BY <2>1, <2>2, <2>3
  <1>3. writer[v].at = "next_action" /\ ~AwaitsActiveBatch /\ UNCHANGED flagVars
    BY DEF TakeBatch, InNextAction
  <1>4. WriteControlTypeOK'
    BY <1>1, <1>2, <1>3
    DEF WriteControlTypeOK, TakeBatch, flagVars, Capabilities, WriterStages, BatchStages
  <1>5. /\ IsFiniteSet(Slots') /\ Cardinality(Slots') = Cardinality(Slots) + n
        /\ BatchHolders' = BatchHolders \cup {v}
    BY <1>1, <1>2, <1>3, SlotsGain DEF SlotsCounted, BatchStages
  <1>6. SlotsCounted'
    BY <1>1, <1>5 DEF SlotsCounted
  <1>7. HoldersHaveJobs'
    BY <1>1, <1>2, <1>5 DEF HoldersHaveJobs, BatchHolders, WriteControlTypeOK
  <1>8. InFlightWithinLimit'
    <2>1. active_writes \in Nat /\ active_writes' = active_writes + n
      BY <1>1 DEF WriteControlTypeOK
    <2>2. InFlight' = InFlight
      BY <1>2, <2>1 DEF InFlight
    <2> QED BY <2>2 DEF InFlightWithinLimit
  <1>9. batch_write_capability' = "Unsupported" <=> batch_write_capability = "Unsupported"
    BY DEF TakeBatch, BeginsProbe
  <1>10. OneBatchUntilUnsupported'
    <2>1. ASSUME batch_write_capability # "Unsupported" PROVE BatchHolders = {}
      BY <1>3, <2>1, IdleHasNoHolders DEF AwaitsActiveBatch, WriteControlTypeOK
    <2> QED BY <1>5, <1>9, <2>1 DEF OneBatchUntilUnsupported
  <1>11. SinglesOnceUnsupported'
    <2>1. ASSUME batch_write_capability = "Unsupported" PROVE n = 1
      BY <1>1, <1>2, <2>1 DEF IsBatchLen, TargetBatchLen, BeginsProbe
    <2> QED BY <1>1, <1>2, <1>9, <2>1 DEF SinglesOnceUnsupported, WriteControlTypeOK
  <1>12. CheckpointLocked'
    <2>1. ~checkpoint_running
      BY <1>2 DEF CheckpointLocked
    <2> QED BY <1>1, <1>3, <2>1 DEF CheckpointLocked, CheckpointStages, WriteControlTypeOK, flagVars
  <1> QED BY <1>4, <1>6, <1>7, <1>8, <1>10, <1>11, <1>12

\* The checkpoint starts with an empty queue, no active write and the lock free.
LEMMA StartCheckpointKeepsInv ==
    ASSUME WriteInv, NEW v \in Writers, StartCheckpoint(v)
    PROVE  WriteInv'
  <1> USE DEF WriteInv, StartCheckpoint
  <1>1. WriteControlTypeOK'
    BY DEF WriteControlTypeOK, countVars, WriterMoves, WriterStages, BatchStages
  <1>2. Slots' = Slots /\ BatchHolders' = BatchHolders
    BY SlotsKeep DEF InNextAction, BatchStages
  <1>3. BatchHolders = {}
    BY IdleHasNoHolders DEF CheckpointDue
  <1>4. CheckpointLocked'
    BY <1>2, <1>3
    DEF CheckpointLocked, CheckpointStages, CheckpointDue, WriterMoves, WriteControlTypeOK,
        countVars
  <1>5. SlotsCounted' /\ InFlightWithinLimit' /\ HoldersHaveJobs'
    BY <1>2, <1>3 DEF SlotsCounted, InFlightWithinLimit, InFlight, HoldersHaveJobs, countVars
  <1>6. OneBatchUntilUnsupported' /\ SinglesOnceUnsupported'
    BY <1>2, <1>3
    DEF OneBatchUntilUnsupported, SinglesOnceUnsupported, WriterMoves, WriteControlTypeOK
  <1> QED BY <1>1, <1>4, <1>5, <1>6

-----------------------------------------------------------------------------
(* Publication. *)

\* A writer that moves between stages that hold a batch, without going back to
\* "publish", or between stages that hold none, outside the checkpoint.
LEMMA MoveKeepsInv ==
    ASSUME WriteInv, WriteControlTypeOK', NEW v \in Writers, NEW to, WriterMoves(v, to),
           writer[v].at \in BatchStages <=> to \in BatchStages,
           to # "publish", to \notin CheckpointStages,
           UNCHANGED <<active_writes, write_queue, batch_write_capability, checkpoint_running>>
    PROVE  WriteInv'
  <1> USE DEF WriteInv
  <1>1. Slots' = Slots /\ BatchHolders' = BatchHolders
    BY SlotsKeep
  <1>2. HoldersHaveJobs' /\ SinglesOnceUnsupported'
    BY <1>1 DEF HoldersHaveJobs, SinglesOnceUnsupported, WriterMoves, WriteControlTypeOK,
                BatchHolders
  <1>3. CheckpointLocked'
    BY <1>1 DEF CheckpointLocked, WriterMoves, WriteControlTypeOK
  <1>4. SlotsCounted' /\ InFlightWithinLimit' /\ OneBatchUntilUnsupported'
    BY <1>1 DEF SlotsCounted, InFlightWithinLimit, InFlight, OneBatchUntilUnsupported
  <1> QED BY <1>2, <1>3, <1>4

\* A batch that is published through put_block_bytes_batch is not one of those
\* taken when batches were known to be unsupported.
LEMMA BatchIsSupported ==
    ASSUME WriteInv, NEW v \in Writers, writer[v].at = "publish", ~PutsSingly(v)
    PROVE  batch_write_capability # "Unsupported"
  BY DEF WriteInv, SinglesOnceUnsupported, PutsSingly

\* The outcome of put_block_bytes_batch is stored while its batch is the only one.
LEMMA PublishKeepsInv ==
    ASSUME WriteInv, NEW v \in Writers, PublishBatch(v) \/ PublishUnsupported(v)
    PROVE  WriteInv'
  <1> USE DEF WriteInv
  <1>1. PICK to \in {"complete", "one_by_one"} : WriterMoves(v, to)
    BY DEF PublishBatch, PublishUnsupported
  <1>2. /\ writer[v].at = "publish" /\ ~PutsSingly(v)
        /\ batch_write_capability' \in {"Supported", "Unsupported"}
        /\ UNCHANGED <<countVars, flagVars, write_waiting, main, stop_requested>>
    BY DEF PublishBatch, PublishUnsupported, PublishUnchanged
  <1>3. WriteControlTypeOK'
    BY <1>1, <1>2
    DEF WriteControlTypeOK, WriterMoves, countVars, flagVars, Capabilities, WriterStages,
        BatchStages
  <1>4. Slots' = Slots /\ BatchHolders' = BatchHolders
    BY <1>1, <1>2, SlotsKeep DEF BatchStages
  <1>5. \A u \in BatchHolders : u = v
    BY <1>2, BatchIsSupported DEF OneBatchUntilUnsupported, BatchHolders, BatchStages
  <1>6. OneBatchUntilUnsupported'
    BY <1>4, <1>5 DEF OneBatchUntilUnsupported
  <1>7. SinglesOnceUnsupported'
    BY <1>1, <1>5 DEF SinglesOnceUnsupported, BatchHolders, BatchStages, WriterMoves,
                      WriteControlTypeOK
  <1>8. HoldersHaveJobs'
    BY <1>1, <1>4 DEF HoldersHaveJobs, WriterMoves, WriteControlTypeOK, BatchHolders
  <1>9. CheckpointLocked'
    BY <1>1, <1>2, <1>4
    DEF CheckpointLocked, CheckpointStages, WriterMoves, WriteControlTypeOK, countVars, flagVars
  <1>10. SlotsCounted' /\ InFlightWithinLimit'
    BY <1>2, <1>4 DEF SlotsCounted, InFlightWithinLimit, InFlight, countVars
  <1> QED BY <1>3, <1>6, <1>7, <1>8, <1>9, <1>10

\* The guard's drop returns the batch's slots, whether the queue is kept or closed.
LEMMA ReleaseKeepsInv ==
    ASSUME WriteInv, WriteControlTypeOK', NEW v \in Writers, writer[v].at \in BatchStages,
           NEW to, to \notin BatchStages, to \notin CheckpointStages, ReleaseBatch(v, to),
           write_queue' \in {write_queue, <<>>},
           UNCHANGED <<batch_write_capability, checkpoint_running>>
    PROVE  WriteInv'
  <1> USE DEF WriteInv
  <1>1. /\ SlotsCounted' /\ active_writes' \in Nat /\ active_writes' <= active_writes
        /\ BatchHolders' = BatchHolders \ {v}
    BY SlotsLose
  <1>2. HoldersHaveJobs' /\ SinglesOnceUnsupported'
    BY <1>1
    DEF HoldersHaveJobs, SinglesOnceUnsupported, ReleaseBatch, WriteControlTypeOK, BatchHolders,
        BatchStages
  <1>3. CheckpointLocked'
    BY <1>1 DEF CheckpointLocked, ReleaseBatch, WriteControlTypeOK
  <1>4. OneBatchUntilUnsupported'
    BY <1>1 DEF OneBatchUntilUnsupported
  <1>5. InFlightWithinLimit'
    <2>1. Len(write_queue) \in Nat /\ Len(write_queue') \in Nat /\ active_writes \in Nat
      BY DEF WriteControlTypeOK
    <2>2. Len(write_queue') <= Len(write_queue)
      BY <2>1
    <2> QED BY <1>1, <2>1, <2>2, WriteLimitsAssumption DEF InFlightWithinLimit, InFlight
  <1> QED BY <1>1, <1>2, <1>3, <1>4, <1>5

-----------------------------------------------------------------------------
(* The ways publication ends. *)

\* Clearing the queue frees places and disturbs no batch; a writer may move at
\* the same time between stages without a batch.
LEMMA ClosingKeepsInv ==
    ASSUME WriteInv, WriteControlTypeOK',
           Slots' = Slots, BatchHolders' = BatchHolders,
           \A v \in Writers : /\ writer'[v].jobs = writer[v].jobs
                              /\ writer'[v].at = "publish" => writer[v].at = "publish",
           write_queue' \in {write_queue, <<>>},
           UNCHANGED <<active_writes, batch_write_capability>>,
           CheckpointLocked'
    PROVE  WriteInv'
  <1> USE DEF WriteInv
  <1>1. InFlightWithinLimit'
    <2>1. Len(write_queue) \in Nat /\ Len(write_queue') \in Nat /\ active_writes \in Nat
      BY DEF WriteControlTypeOK
    <2>2. Len(write_queue') <= Len(write_queue)
      BY <2>1
    <2> QED BY <2>1, <2>2, WriteLimitsAssumption DEF InFlightWithinLimit, InFlight
  <1>2. HoldersHaveJobs' /\ SinglesOnceUnsupported'
    BY DEF HoldersHaveJobs, SinglesOnceUnsupported, BatchHolders
  <1> QED BY <1>1, <1>2 DEF SlotsCounted, OneBatchUntilUnsupported

\* fail_checkpoint releases the checkpoint lock and closes the queue; so does a
\* checkpoint that succeeds, without closing.
LEMMA EndCheckpointKeepsInv ==
    ASSUME WriteInv, NEW v \in Writers, FinishCheckpoint(v) \/ FailCheckpoint(v)
    PROVE  WriteInv'
  <1> USE DEF WriteInv
  <1>1. /\ writer[v].at \in CheckpointStages /\ WriterMoves(v, "next_action")
        /\ checkpoint_running' = FALSE
        /\ write_queue' \in {write_queue, <<>>}
        /\ UNCHANGED <<active_writes, batch_write_capability>>
    BY DEF FinishCheckpoint, FailCheckpoint, CheckpointStages, CloseWriteQueue, countVars
  <1>2. WriteControlTypeOK'
    <2>1. <<>> \in Seq(Blocks)
      OBVIOUS
    <2>2. CASE FinishCheckpoint(v)
      BY <2>2 DEF WriteControlTypeOK, FinishCheckpoint, NotifyWrite, WriterMoves, WriterStages,
                  countVars
    <2>3. CASE FailCheckpoint(v)
      BY <2>1, <2>3 DEF WriteControlTypeOK, FailCheckpoint, CloseWriteQueue, NotifyWrite,
                        WriterMoves, WriterStages
    <2> QED BY <2>2, <2>3
  <1>3. Slots' = Slots /\ BatchHolders' = BatchHolders
    BY <1>1, SlotsKeep DEF BatchStages, CheckpointStages
  <1>4. CheckpointLocked'
    BY <1>1, <1>3 DEF CheckpointLocked, CheckpointStages, WriterMoves, WriteControlTypeOK
  <1> QED BY <1>1, <1>2, <1>3, <1>4, ClosingKeepsInv DEF WriterMoves, WriteControlTypeOK

\* A checkpoint error keeps the lock for fail_checkpoint to release; a panic
\* leaves it set.
LEMMA CheckpointFaultKeepsInv ==
    ASSUME WriteInv, NEW v \in Writers, CheckpointError(v) \/ CheckpointPanic(v)
    PROVE  WriteInv'
  <1> USE DEF WriteInv
  <1>1. PICK to \in {"checkpoint_failed", "unwind_work"} : WriterMoves(v, to)
    BY DEF CheckpointError, CheckpointPanic
  <1>2. /\ writer[v].at = "checkpoint"
        /\ stop_requested' = TRUE
        /\ UNCHANGED <<countVars, flagVars, write_waiting, batch_write_capability, main>>
    BY DEF CheckpointError, CheckpointPanic
  <1>3. WriteControlTypeOK'
    BY <1>1, <1>2 DEF WriteControlTypeOK, WriterMoves, WriterStages, countVars, flagVars
  <1>4. Slots' = Slots /\ BatchHolders' = BatchHolders
    BY <1>1, <1>2, SlotsKeep DEF BatchStages
  <1>5. CheckpointLocked'
    BY <1>1, <1>2, <1>4
    DEF CheckpointLocked, CheckpointStages, WriterMoves, WriteControlTypeOK, countVars, flagVars
  <1> QED
    BY <1>1, <1>2, <1>3, <1>4, <1>5, ClosingKeepsInv
    DEF WriterMoves, WriteControlTypeOK, countVars

\* request_shutdown, by a thread of another component or an unwinding writer.
LEMMA ShutdownKeepsInv ==
    ASSUME WriteInv, RequestWriteShutdown,
           \/ UNCHANGED writer
           \/ \E v \in Writers : writer[v].at = "unwind_write" /\ WriterMoves(v, "panicked")
    PROVE  WriteInv'
  <1> USE DEF WriteInv, RequestWriteShutdown, CloseWriteQueue
  <1>1. WriteControlTypeOK'
    <2>1. <<>> \in Seq(Blocks)
      OBVIOUS
    <2>2. writer' \in [Writers -> [at : WriterStages, jobs : Seq(Blocks)]]
      BY DEF WriteControlTypeOK, WriterMoves, WriterStages
    <2> QED BY <2>1, <2>2 DEF WriteControlTypeOK, NotifyWrite
  <1>2. Slots' = Slots /\ BatchHolders' = BatchHolders
    <2>1. CASE UNCHANGED writer
      BY <2>1 DEF Slots, BatchHolders
    <2>2. CASE \E v \in Writers : writer[v].at = "unwind_write" /\ WriterMoves(v, "panicked")
      BY <2>2, SlotsKeep DEF BatchStages
    <2> QED BY <2>1, <2>2
  <1>3. \A v \in Writers : /\ writer'[v].jobs = writer[v].jobs
                           /\ \/ writer'[v].at = writer[v].at
                              \/ writer'[v].at = "panicked"
    <2>1. CASE UNCHANGED writer
      BY <2>1
    <2>2. CASE \E v \in Writers : writer[v].at = "unwind_write" /\ WriterMoves(v, "panicked")
      BY <2>2 DEF WriterMoves, WriteControlTypeOK
    <2> QED BY <2>1, <2>2
  <1>4. CheckpointLocked'
    BY <1>2, <1>3 DEF CheckpointLocked, CheckpointStages
  <1> QED BY <1>1, <1>2, <1>3, <1>4, ClosingKeepsInv

\* finish_producing clears the queue only when a stop was requested.
LEMMA FinishProducingKeepsInv ==
    ASSUME WriteInv, FinishProducing
    PROVE  WriteInv'
  <1> USE DEF WriteInv, FinishProducing
  <1>1. WriteControlTypeOK'
    <2>1. <<>> \in Seq(Blocks)
      OBVIOUS
    <2> QED BY <2>1 DEF WriteControlTypeOK, NotifyWrite
  <1>2. Slots' = Slots /\ BatchHolders' = BatchHolders
    BY DEF Slots, BatchHolders
  <1>3. CheckpointLocked'
    BY <1>2 DEF CheckpointLocked
  <1> QED BY <1>1, <1>2, <1>3, ClosingKeepsInv

-----------------------------------------------------------------------------
(* Every step of the specification. *)

\* The invariant is inductive.
LEMMA WriteInvStep ==
    ASSUME WriteInv, [WriteQueueNext]_<<writeVars, stop_requested>>
    PROVE  WriteInv'
  <1> USE DEF WriteInv
  <1>1. CASE UNCHANGED <<writeVars, stop_requested>>
    <2>1. WriteControlTypeOK'
      BY <1>1 DEF WriteControlTypeOK, writeVars, countVars, flagVars
    <2> QED BY <1>1, <2>1, FrameKeepsInv DEF writeVars, countVars, flagVars
  <1>2. ASSUME NEW w \in Workers, NEW b \in Blocks,
               EnqueueRejected(w) \/ EnqueueWaits(w, b) \/ EnqueueAccepted(w, b)
        PROVE  WriteInv'
    <2>1. CASE EnqueueRejected(w)
      BY <1>1, <2>1 DEF EnqueueRejected
    <2>2. CASE EnqueueWaits(w, b)
      <3>1. WriteControlTypeOK'
        BY <2>2 DEF EnqueueWaits, WriteControlTypeOK, countVars, flagVars
      <3> QED BY <2>2, <3>1, FrameKeepsInv DEF EnqueueWaits, countVars, flagVars
    <2>3. CASE EnqueueAccepted(w, b)
      BY <2>3, EnqueueKeepsInv
    <2> QED BY <1>2, <2>1, <2>2, <2>3
  <1>3. ASSUME NEW v \in Writers, NextAction(v) PROVE WriteInv'
    <2>1. CASE TakeBatch(v)
      BY <2>1, TakeBatchKeepsInv
    <2>2. CASE StartCheckpoint(v)
      BY <2>2, StartCheckpointKeepsInv
    <2>3. CASE WriterShutdown(v)
      <3>1. WriteControlTypeOK'
        BY <2>3 DEF WriterShutdown, WriteControlTypeOK, WriterMoves, WriterStages, countVars,
                    NotifyWrite
      <3> QED
        BY <2>3, <3>1, MoveKeepsInv
        DEF WriterShutdown, InNextAction, BatchStages, CheckpointStages, countVars
    <2>4. CASE WriterWaits(v)
      <3>1. WriteControlTypeOK'
        BY <2>4 DEF WriterWaits, WriteControlTypeOK, countVars, flagVars
      <3> QED BY <2>4, <3>1, FrameKeepsInv DEF WriterWaits, countVars, flagVars
    <2> QED BY <1>3, <2>1, <2>2, <2>3, <2>4 DEF NextAction
  <1>4. ASSUME NEW v \in Writers,
               \/ PublishSingly(v) \/ PublishBatch(v) \/ PublishUnsupported(v)
               \/ PublishOneByOne(v) \/ CompleteWriteBatch(v)
        PROVE  WriteInv'
    <2>1. CASE PublishSingly(v) \/ PublishOneByOne(v)
      <3>1. PICK to \in {"one_by_one", "complete"} : WriterMoves(v, to)
        BY <2>1 DEF PublishSingly, PublishOneByOne
      <3>2. /\ writer[v].at \in {"publish", "one_by_one"}
            /\ UNCHANGED <<countVars, flagVars, write_waiting, main, stop_requested,
                           batch_write_capability>>
        BY <2>1 DEF PublishSingly, PublishOneByOne, PublishUnchanged
      <3>3. WriteControlTypeOK'
        BY <3>1, <3>2 DEF WriteControlTypeOK, WriterMoves, WriterStages, BatchStages, countVars,
                          flagVars
      <3> QED
        BY <3>1, <3>2, <3>3, MoveKeepsInv DEF BatchStages, CheckpointStages, countVars, flagVars
    <2>2. CASE PublishBatch(v) \/ PublishUnsupported(v)
      BY <2>2, PublishKeepsInv
    <2>3. CASE CompleteWriteBatch(v)
      <3>1. writer[v].at \in BatchStages /\ ReleaseBatch(v, "next_action")
        BY <2>3 DEF CompleteWriteBatch, BatchStages
      <3>2. active_writes' \in Nat
        BY <3>1, SlotsLose DEF BatchStages
      <3>3. WriteControlTypeOK'
        BY <2>3, <3>1, <3>2
        DEF CompleteWriteBatch, ReleaseBatch, WriteControlTypeOK, WriterStages, flagVars,
            NotifyWrite
      <3> QED
        BY <2>3, <3>1, <3>3, ReleaseKeepsInv
        DEF CompleteWriteBatch, BatchStages, CheckpointStages, flagVars
    <2> QED BY <1>4, <2>1, <2>2, <2>3
  <1>5. ASSUME NEW v \in Writers,
               \/ FinishCheckpoint(v) \/ CheckpointError(v) \/ FailCheckpoint(v)
               \/ CheckpointPanic(v)
        PROVE  WriteInv'
    BY <1>5, EndCheckpointKeepsInv, CheckpointFaultKeepsInv
  <1>6. ASSUME NEW v \in Writers, WriterPanic(v) \/ UnwindBatch(v) \/ WriterUnwindStep(v)
        PROVE  WriteInv'
    <2>1. CASE WriterPanic(v)
      <3>1. WriteControlTypeOK'
        BY <2>1 DEF WriterPanic, WriteControlTypeOK, WriterMoves, WriterStages, BatchStages,
                    countVars, flagVars
      <3> QED
        BY <2>1, <3>1, MoveKeepsInv
        DEF WriterPanic, BatchStages, CheckpointStages, countVars, flagVars
    <2>2. CASE UnwindBatch(v)
      <3>1. writer[v].at \in BatchStages /\ ReleaseBatch(v, "unwind_work")
        BY <2>2 DEF UnwindBatch, BatchStages
      <3>2. active_writes' \in Nat
        BY <3>1, SlotsLose DEF BatchStages
      <3>3. WriteControlTypeOK'
        BY <2>2, <3>1, <3>2
        DEF UnwindBatch, CloseWriteQueue, ReleaseBatch, WriteControlTypeOK, WriterStages,
            NotifyWrite
      <3> QED
        BY <2>2, <3>1, <3>3, ReleaseKeepsInv
        DEF UnwindBatch, CloseWriteQueue, BatchStages, CheckpointStages
    <2>3. CASE WriterUnwindStep(v)
      <3>1. CASE writer[v].at = "unwind_work"
        <4>1. /\ WriterMoves(v, "unwind_write")
              /\ UNCHANGED <<countVars, flagVars, write_waiting, batch_write_capability, main,
                             stop_requested>>
          BY <2>3, <3>1 DEF WriterUnwindStep
        <4>2. WriteControlTypeOK'
          BY <4>1 DEF WriteControlTypeOK, WriterMoves, WriterStages, countVars, flagVars
        <4> QED
          BY <3>1, <4>1, <4>2, MoveKeepsInv DEF BatchStages, CheckpointStages, countVars, flagVars
      <3>2. CASE writer[v].at = "unwind_write"
        BY <2>3, <3>2, ShutdownKeepsInv DEF WriterUnwindStep
      <3> QED BY <2>3, <3>1, <3>2 DEF WriterUnwindStep
    <2> QED BY <1>6, <2>1, <2>2, <2>3
  <1>7. ASSUME NEW t \in Workers \cup Writers, SpuriousWriteWake(t) PROVE WriteInv'
    <2>1. WriteControlTypeOK'
      BY <1>7 DEF SpuriousWriteWake, WriteControlTypeOK, countVars, flagVars
    <2> QED BY <1>7, <2>1, FrameKeepsInv DEF SpuriousWriteWake, countVars, flagVars
  <1>8. CASE RequestWriteShutdown /\ UNCHANGED writer
    BY <1>8, ShutdownKeepsInv
  <1>9. CASE FinishProducing
    BY <1>9, FinishProducingKeepsInv
  <1>10. CASE WritersJoined \/ \E how \in {"returned", "panicked"} : MainEnds(how)
    <2>1. WriteControlTypeOK'
      BY <1>10 DEF WritersJoined, MainEnds, WriteControlTypeOK, countVars, flagVars
    <2> QED BY <1>10, <2>1, FrameKeepsInv DEF WritersJoined, MainEnds, countVars, flagVars
  <1>11. CASE WriteStopStored
    <2>1. WriteControlTypeOK'
      BY <1>11 DEF WriteStopStored, WriteControlTypeOK, writeVars, countVars, flagVars
    <2> QED BY <1>11, <2>1, FrameKeepsInv DEF WriteStopStored, writeVars, countVars, flagVars
  <1> QED BY <1>1, <1>2, <1>3, <1>4, <1>5, <1>6, <1>7, <1>8, <1>9, <1>10, <1>11 DEF WriteQueueNext

\* For any number of threads, any limits and any interleaving of enqueue,
\* next_action, publication, checkpoints, shutdowns and panics: accepted writes
\* stay within the limit, a checkpoint has the destination to itself, and only
\* one batch is in flight until batches are known to be unsupported.
THEOREM WriteQueueSafe ==
    WriteQueueSpec => [](InFlightWithinLimit /\ CheckpointAlone /\ OneBatchUntilUnsupported)
  <1>1. WriteQueueInit => WriteInv
    BY WriteInvInit
  <1>2. WriteInv /\ [WriteQueueNext]_<<writeVars, stop_requested>> => WriteInv'
    BY WriteInvStep
  <1>3. WriteInv => InFlightWithinLimit /\ CheckpointAlone /\ OneBatchUntilUnsupported
    BY DEF WriteInv, CheckpointLocked, CheckpointAlone
  <1> QED BY <1>1, <1>2, <1>3, PTL DEF WriteQueueSpec

\* complete_probe never overwrites "Unsupported": the only batches published
\* through put_block_bytes_batch were taken before, when they were alone.
THEOREM CapabilityMonotone ==
    WriteQueueSpec => UnsupportedIsFinal
  <1>1. WriteQueueInit => WriteInv
    BY WriteInvInit
  <1>2. WriteInv /\ [WriteQueueNext]_<<writeVars, stop_requested>> => WriteInv'
    BY WriteInvStep
  <1>3. WriteInv /\ [WriteQueueNext]_<<writeVars, stop_requested>>
           => [batch_write_capability = "Unsupported" =>
                  batch_write_capability' = "Unsupported"]_writeVars
    <2> SUFFICES ASSUME WriteInv, WriteQueueNext, batch_write_capability = "Unsupported"
                 PROVE  batch_write_capability' = "Unsupported"
      BY DEF writeVars
    <2>1. \A v \in Writers : ~PublishBatch(v) /\ ~PublishUnsupported(v)
      BY BatchIsSupported DEF PublishBatch, PublishUnsupported
    <2>2. ASSUME NEW v \in Writers, NextAction(v)
          PROVE  batch_write_capability' = "Unsupported"
      BY <2>2 DEF NextAction, TakeBatch, BeginsProbe, StartCheckpoint, WriterShutdown, WriterWaits
    <2> QED
      BY <2>1, <2>2
      DEF WriteQueueNext, EnqueueRejected, EnqueueWaits, EnqueueAccepted, PublishSingly,
          PublishOneByOne, CompleteWriteBatch, FinishCheckpoint, CheckpointError,
          FailCheckpoint, WriterPanic, CheckpointPanic, UnwindBatch, WriterUnwindStep,
          SpuriousWriteWake, RequestWriteShutdown, FinishProducing, WritersJoined, MainEnds,
          WriteStopStored, writeVars
  <1> QED BY <1>1, <1>2, <1>3, PTL DEF WriteQueueSpec, UnsupportedIsFinal

-----------------------------------------------------------------------------
(* Induction, for what the recursive function Total computes. *)

\* Induction over the natural numbers, for a set instead of a predicate: a
\* number outside the set would have a least one, which is neither 0 nor a
\* successor.
LEMMA SetInduction ==
    ASSUME NEW S \in SUBSET Nat, 0 \in S, \A n \in S : n + 1 \in S
    PROVE  S = Nat
  <1> SUFFICES ASSUME S # Nat PROVE FALSE
    OBVIOUS
  <1>1. PICK R : R = OpToRel(<, Nat)
    OBVIOUS
  <1>2. IsWellFoundedOn(R, Nat)
    BY <1>1, NatLessThanWellFounded
  <1>3. PICK T : T = Nat \ S
    OBVIOUS
  <1>4. T \subseteq Nat /\ T # {}
    BY <1>3
  <1>5. PICK x \in T : \A y \in T : ~(<<y, x>> \in R)
    BY <1>2, <1>4, WFMin
  <1>6. \A y \in Nat : y < x => <<y, x>> \in R
    BY <1>1, <1>3 DEF OpToRel
  <1>7. x # 0 /\ x \in Nat
    BY <1>3
  <1>8. x - 1 \in Nat /\ x - 1 < x /\ (x - 1) + 1 = x
    BY <1>7
  <1>9. x - 1 \in S
    BY <1>3, <1>5, <1>6, <1>8
  <1> QED BY <1>3, <1>8, <1>9

\* f holds the bytes of each of the first n prefixes of jobs.
SumsUpTo(f, jobs, n) ==
    /\ f \in [0..n -> Nat]
    /\ f[0] = 0
    /\ \A i \in 1..n : f[i] = f[i - 1] + len[jobs[i]]

\* A job of a sequence of blocks has a length.
LEMMA JobLength ==
    ASSUME NEW jobs \in Seq(Blocks), NEW i \in 1..Len(jobs)
    PROVE  len[jobs[i]] \in Nat
  <1>1. jobs[i] \in Blocks
    OBVIOUS
  <1> QED BY <1>1, WriteLimitsAssumption

\* Prefix sums exist, up to any length.
LEMMA SumsExist ==
    ASSUME NEW jobs \in Seq(Blocks)
    PROVE  \A n \in 0..Len(jobs) : \E f : SumsUpTo(f, jobs, n)
  <1>1. PICK S : S = {n \in Nat : n <= Len(jobs) => \E f : SumsUpTo(f, jobs, n)}
    OBVIOUS
  <1>2. 0 \in S
    <2>1. SumsUpTo([i \in 0..0 |-> 0], jobs, 0)
      BY DEF SumsUpTo
    <2> QED BY <1>1, <2>1
  <1>3. ASSUME NEW n \in S PROVE n + 1 \in S
    <2>1. n \in Nat
      BY <1>1
    <2> SUFFICES ASSUME n + 1 <= Len(jobs) PROVE \E g : SumsUpTo(g, jobs, n + 1)
      BY <1>1, <2>1
    <2>2. PICK f : SumsUpTo(f, jobs, n)
      BY <1>1, <2>1
    <2>3. len[jobs[n + 1]] \in Nat
      BY <2>1, JobLength
    <2>4. PICK g : g = [i \in 0..(n + 1) |-> IF i = n + 1 THEN f[n] + len[jobs[n + 1]] ELSE f[i]]
      OBVIOUS
    <2>5. f[n] \in Nat
      BY <2>1, <2>2 DEF SumsUpTo
    <2>6. g \in [0..(n + 1) -> Nat] /\ g[0] = 0
      BY <2>1, <2>2, <2>3, <2>4, <2>5 DEF SumsUpTo
    <2>7. ASSUME NEW i \in 1..(n + 1) PROVE g[i] = g[i - 1] + len[jobs[i]]
      <3>1. CASE i = n + 1
        BY <2>1, <2>4, <3>1
      <3>2. CASE i # n + 1
        <4>1. i \in 1..n /\ i - 1 \in 0..n /\ i - 1 # n + 1
          BY <2>1, <3>2
        <4>2. g[i] = f[i] /\ g[i - 1] = f[i - 1]
          BY <2>1, <2>4, <3>2, <4>1
        <4> QED BY <2>2, <4>1, <4>2 DEF SumsUpTo
      <3> QED BY <3>1, <3>2
    <2> QED BY <2>6, <2>7 DEF SumsUpTo
  <1>4. S = Nat
    BY <1>1, <1>2, <1>3, SetInduction
  <1> QED BY <1>1, <1>4

\* Total is the last prefix sum.
LEMMA TotalIsLastSum ==
    ASSUME NEW jobs \in Seq(Blocks)
    PROVE  \E f : SumsUpTo(f, jobs, Len(jobs)) /\ Total(jobs) = f[Len(jobs)]
  <1> DEFINE F(g) == [i \in 0..Len(jobs) |-> IF i = 0 THEN 0 ELSE g[i - 1] + len[jobs[i]]]
             sum == CHOOSE g : g = F(g)
  <1>1. Len(jobs) \in Nat
    OBVIOUS
  <1>2. PICK f : SumsUpTo(f, jobs, Len(jobs))
    BY <1>1, SumsExist
  <1>3. f = F(f)
    <2>1. f \in [0..Len(jobs) -> Nat]
      BY <1>2 DEF SumsUpTo
    <2>2. \A i \in 0..Len(jobs) : f[i] = IF i = 0 THEN 0 ELSE f[i - 1] + len[jobs[i]]
      BY <1>1, <1>2 DEF SumsUpTo
    <2> QED BY <2>1, <2>2
  <1>4. sum = F(sum)
    BY <1>3
  <1>5. Total(jobs) = sum[Len(jobs)]
    BY DEF Total
  <1> HIDE DEF sum
  <1>6. sum[0] = 0
    BY <1>1, <1>4
  <1>7. \A i \in 1..Len(jobs) : sum[i] = sum[i - 1] + len[jobs[i]]
    BY <1>1, <1>4
  <1>8. PICK S : S = {n \in Nat : n <= Len(jobs) => sum[n] = f[n]}
    OBVIOUS
  <1>9. 0 \in S
    BY <1>2, <1>6, <1>8 DEF SumsUpTo
  <1>10. ASSUME NEW n \in S PROVE n + 1 \in S
    <2>1. n \in Nat
      BY <1>8
    <2> SUFFICES ASSUME n + 1 <= Len(jobs) PROVE sum[n + 1] = f[n + 1]
      BY <1>8, <2>1
    <2>2. n + 1 \in 1..Len(jobs) /\ (n + 1) - 1 = n /\ n <= Len(jobs)
      BY <1>1, <2>1
    <2>3. sum[n] = f[n]
      BY <1>8, <2>2
    <2>4. f[n + 1] = f[n] + len[jobs[n + 1]]
      BY <1>2, <2>2 DEF SumsUpTo
    <2> QED BY <1>7, <2>2, <2>3, <2>4
  <1>11. S = Nat
    BY <1>8, <1>9, <1>10, SetInduction
  <1> QED BY <1>1, <1>2, <1>5, <1>8, <1>11
\* Two sequences with the same first n jobs have the same first n sums.
LEMMA SumsAgree ==
    ASSUME NEW p \in Seq(Blocks), NEW q \in Seq(Blocks), NEW f, NEW g, NEW n \in Nat,
           n <= Len(p), n <= Len(q), \A i \in 1..n : p[i] = q[i],
           SumsUpTo(f, p, Len(p)), SumsUpTo(g, q, Len(q))
    PROVE  f[n] = g[n]
  <1>1. PICK S : S = {i \in Nat : i <= n => f[i] = g[i]}
    OBVIOUS
  <1>2. 0 \in S
    BY <1>1 DEF SumsUpTo
  <1>3. ASSUME NEW i \in S PROVE i + 1 \in S
    <2>1. i \in Nat
      BY <1>1
    <2> SUFFICES ASSUME i + 1 <= n PROVE f[i + 1] = g[i + 1]
      BY <1>1, <2>1
    <2>2. /\ i + 1 \in 1..Len(p) /\ i + 1 \in 1..Len(q) /\ (i + 1) - 1 = i /\ i <= n
          /\ i + 1 \in 1..n
      BY <2>1
    <2>3. f[i] = g[i]
      BY <1>1, <2>2
    <2>4. f[i + 1] = f[i] + len[p[i + 1]] /\ g[i + 1] = g[i] + len[q[i + 1]]
      BY <2>2 DEF SumsUpTo
    <2> QED BY <2>2, <2>3, <2>4
  <1>4. S = Nat
    BY <1>1, <1>2, <1>3, SetInduction
  <1> QED BY <1>1, <1>4

\* The sums of a suffix are those of the sequence less the sum of the prefix.
LEMMA SumsShift ==
    ASSUME NEW p \in Seq(Blocks), NEW q \in Seq(Blocks), NEW f, NEW g, NEW n \in Nat,
           n + Len(q) <= Len(p), \A i \in 1..Len(q) : q[i] = p[n + i],
           SumsUpTo(f, p, Len(p)), SumsUpTo(g, q, Len(q))
    PROVE  f[n + Len(q)] = f[n] + g[Len(q)]
  <1>1. PICK S : S = {i \in Nat : i <= Len(q) => f[n + i] = f[n] + g[i]}
    OBVIOUS
  <1>2. 0 \in S
    <2>0. Len(p) \in Nat /\ Len(q) \in Nat
      OBVIOUS
    <2>1. f[n] \in Nat
      <3>1. n \in 0..Len(p)
        BY <2>0
      <3>2. f \in [0..Len(p) -> Nat]
        BY DEF SumsUpTo
      <3> QED BY <3>1, <3>2
    <2>2. g[0] = 0 /\ n + 0 = n
      BY DEF SumsUpTo
    <2>3. f[n + 0] = f[n] + g[0]
      BY <2>1, <2>2
    <2> QED BY <1>1, <2>3
  <1>3. ASSUME NEW i \in S PROVE i + 1 \in S
    <2>1. i \in Nat
      BY <1>1
    <2> SUFFICES ASSUME i + 1 <= Len(q) PROVE f[n + (i + 1)] = f[n] + g[i + 1]
      BY <1>1, <2>1
    <2>2. /\ n + (i + 1) \in 1..Len(p) /\ i + 1 \in 1..Len(q) /\ i <= Len(q)
          /\ (n + (i + 1)) - 1 = n + i /\ (i + 1) - 1 = i
      BY <2>1
    <2>3. f[n + i] = f[n] + g[i]
      BY <1>1, <2>2
    <2>4. f[n + (i + 1)] = f[n + i] + len[p[n + (i + 1)]] /\ g[i + 1] = g[i] + len[q[i + 1]]
      BY <2>2 DEF SumsUpTo
    <2>5. p[n + (i + 1)] = q[i + 1] /\ len[q[i + 1]] \in Nat
      BY <2>2, JobLength
    <2>6. f[n] \in Nat /\ g[i] \in Nat
      <3>1. n \in 0..Len(p) /\ i \in 0..Len(q)
        BY <2>1, <2>2
      <3> QED BY <3>1 DEF SumsUpTo
    <2> QED BY <2>3, <2>4, <2>5, <2>6
  <1>4. S = Nat
    BY <1>1, <1>2, <1>3, SetInduction
  <1>5. Len(q) \in Nat /\ Len(q) <= Len(q)
    OBVIOUS
  <1> QED BY <1>1, <1>4, <1>5

\* A total is a number; that of no jobs is 0.
LEMMA TotalType ==
    /\ \A jobs \in Seq(Blocks) : Total(jobs) \in Nat
    /\ Total(<<>>) = 0
  <1>1. ASSUME NEW jobs \in Seq(Blocks) PROVE Total(jobs) \in Nat
    BY TotalIsLastSum DEF SumsUpTo
  <1>2. <<>> \in Seq(Blocks) /\ Len(<<>>) = 0
    OBVIOUS
  <1>3. Total(<<>>) = 0
    BY <1>2, TotalIsLastSum DEF SumsUpTo
  <1> QED BY <1>1, <1>3

\* The bytes of a queue are those of the batch taken from it and of the rest.
LEMMA TotalSplits ==
    ASSUME NEW q \in Seq(Blocks), NEW n \in 1..Len(q)
    PROVE  Total(q) = Total(SubSeq(q, 1, n)) + Total(SubSeq(q, n + 1, Len(q)))
  <1>1. PICK p : p = SubSeq(q, 1, n)
    OBVIOUS
  <1>2. PICK r : r = SubSeq(q, n + 1, Len(q))
    OBVIOUS
  <1>3. Len(q) \in Nat /\ n \in Nat /\ n <= Len(q)
    OBVIOUS
  <1>4. p \in Seq(Blocks) /\ Len(p) = n /\ \A i \in 1..n : p[i] = q[i]
    BY <1>1, <1>3, SubSeqProperties
  <1>5. r \in Seq(Blocks) /\ Len(r) = Len(q) - n /\ \A i \in 1..Len(r) : r[i] = q[n + i]
    BY <1>2, <1>3, SubSeqProperties
  <1>6. PICK f : SumsUpTo(f, q, Len(q)) /\ Total(q) = f[Len(q)]
    BY TotalIsLastSum
  <1>7. PICK g : SumsUpTo(g, p, Len(p)) /\ Total(p) = g[Len(p)]
    BY <1>4, TotalIsLastSum
  <1>8. PICK h : SumsUpTo(h, r, Len(r)) /\ Total(r) = h[Len(r)]
    BY <1>5, TotalIsLastSum
  <1>9. g[n] = f[n]
    BY <1>3, <1>4, <1>6, <1>7, SumsAgree
  <1>10. f[Len(q)] = f[n] + h[Len(r)]
    <2>1. Len(q) = n + Len(r)
      BY <1>3, <1>5
    <2>2. \A i \in 1..Len(r) : r[i] = q[n + i]
      BY <1>5
    <2>3. /\ n + Len(r) <= Len(q) /\ q \in Seq(Blocks) /\ r \in Seq(Blocks) /\ n \in Nat
          /\ SumsUpTo(f, q, Len(q)) /\ SumsUpTo(h, r, Len(r))
      BY <1>3, <1>5, <1>6, <1>8
    <2>4. f[n + Len(r)] = f[n] + h[Len(r)]
      BY <2>2, <2>3, SumsShift
    <2> QED BY <2>1, <2>4
  <1> QED BY <1>1, <1>2, <1>4, <1>6, <1>7, <1>8, <1>9, <1>10

\* enqueue adds the length of its job.
LEMMA TotalAppend ==
    ASSUME NEW q \in Seq(Blocks), NEW b \in Blocks
    PROVE  Total(Append(q, b)) = Total(q) + len[b]
  <1>1. PICK r : r = Append(q, b)
    OBVIOUS
  <1>2. /\ r \in Seq(Blocks) /\ Len(r) = Len(q) + 1 /\ Len(q) \in Nat /\ r[Len(r)] = b
        /\ \A i \in 1..Len(q) : r[i] = q[i]
    BY <1>1
  <1>3. PICK f : SumsUpTo(f, q, Len(q)) /\ Total(q) = f[Len(q)]
    BY TotalIsLastSum
  <1>4. PICK g : SumsUpTo(g, r, Len(r)) /\ Total(r) = g[Len(r)]
    BY <1>2, TotalIsLastSum
  <1>5. g[Len(q)] = f[Len(q)]
    <2>1. Len(q) <= Len(q) /\ Len(q) <= Len(r)
      BY <1>2
    <2> QED BY <1>2, <1>3, <1>4, <2>1, SumsAgree
  <1>6. g[Len(r)] = g[Len(r) - 1] + len[r[Len(r)]]
    BY <1>2, <1>4 DEF SumsUpTo
  <1> QED BY <1>1, <1>2, <1>3, <1>4, <1>5, <1>6

-----------------------------------------------------------------------------
(* The byte counters. *)

ByteInv ==
    /\ WriteInv
    /\ queued_write_bytes \in Nat
    /\ active_write_bytes \in Nat
    /\ BytesWithinLimit

\* A step that admits nothing, drops nothing but the whole queue and does not
\* make active writes or their bytes more keeps the byte limit.
LEMMA ShrinkingKeepsBytes ==
    ASSUME ByteInv, WriteInv',
           active_writes' <= active_writes, active_write_bytes' \in Nat,
           active_write_bytes' <= active_write_bytes,
           \/ UNCHANGED <<write_queue, queued_write_bytes>>
           \/ write_queue' = <<>> /\ queued_write_bytes' = 0
    PROVE  ByteInv'
  <1>1. /\ active_writes \in Nat /\ active_writes' \in Nat /\ Len(write_queue) \in Nat
        /\ write_queue \in Seq(Blocks) /\ queued_write_bytes \in Nat
        /\ active_write_bytes \in Nat
    BY DEF ByteInv, WriteInv, WriteControlTypeOK
  <1>2. queued_write_bytes' \in Nat /\ queued_write_bytes' = Total(write_queue)'
    BY <1>1, TotalType DEF ByteInv, BytesWithinLimit
  <1>3. queued_write_bytes' <= queued_write_bytes /\ Len(write_queue') <= Len(write_queue)
        /\ Len(write_queue') \in Nat
    BY <1>1
  <1>4. InFlight' <= InFlight /\ InFlight \in Nat /\ InFlight' \in Nat
    BY <1>1, <1>3 DEF InFlight
  <1>5. max_in_flight_destination_write_bytes > 0 /\ InFlight' > 1 =>
           queued_write_bytes' + active_write_bytes' <= max_in_flight_destination_write_bytes
    <2>1. max_in_flight_destination_write_bytes \in Nat
      BY WriteLimitsAssumption
    <2>2. max_in_flight_destination_write_bytes > 0 /\ InFlight > 1 =>
             queued_write_bytes + active_write_bytes <= max_in_flight_destination_write_bytes
      BY DEF ByteInv, BytesWithinLimit
    <2> QED BY <1>1, <1>2, <1>3, <1>4, <2>1, <2>2
  <1> QED BY <1>2, <1>5 DEF ByteInv, BytesWithinLimit

\* enqueue admits a job only where its bytes fit, or alone.
LEMMA EnqueueKeepsBytes ==
    ASSUME ByteInv, WriteInv', NEW w \in Workers, NEW b \in Blocks, EnqueueAccepted(w, b)
    PROVE  ByteInv'
  <1>1. /\ active_writes \in Nat /\ Len(write_queue) \in Nat
        /\ write_queue \in Seq(Blocks) /\ queued_write_bytes \in Nat
        /\ active_write_bytes \in Nat /\ len[b] \in Nat
    BY WriteLimitsAssumption DEF ByteInv, WriteInv, WriteControlTypeOK
  <1>2. /\ queued_write_bytes' = queued_write_bytes + len[b]
        /\ write_queue' = Append(write_queue, b)
        /\ active_writes' = active_writes /\ active_write_bytes' = active_write_bytes
        /\ ~AdmissionBlocked(b)
    BY DEF EnqueueAccepted
  <1>3. queued_write_bytes' = Total(write_queue')
    BY <1>1, <1>2, TotalAppend DEF ByteInv, BytesWithinLimit
  <1>4. InFlight' = InFlight + 1 /\ InFlight \in Nat
    BY <1>1, <1>2 DEF InFlight
  <1>5. max_in_flight_destination_write_bytes > 0 /\ InFlight' > 1 =>
           queued_write_bytes' + active_write_bytes' <= max_in_flight_destination_write_bytes
    BY <1>1, <1>2, <1>4, WriteLimitsAssumption DEF AdmissionBlocked
  <1> QED BY <1>1, <1>2, <1>3, <1>5 DEF ByteInv, BytesWithinLimit

\* A batch moves its bytes from the queued to the active ones.
LEMMA TakeBatchKeepsBytes ==
    ASSUME ByteInv, WriteInv', NEW v \in Writers, TakeBatch(v)
    PROVE  ByteInv'
  <1>1. PICK n \in 1..Len(write_queue) :
           /\ write_queue' = SubSeq(write_queue, n + 1, Len(write_queue))
           /\ queued_write_bytes' = SaturatingSub(queued_write_bytes, Total(Prefix(n)))
           /\ active_writes' = active_writes + n
           /\ active_write_bytes' = active_write_bytes + Total(Prefix(n))
    BY DEF TakeBatch
  <1>2. /\ active_writes \in Nat /\ Len(write_queue) \in Nat /\ n \in Nat /\ n <= Len(write_queue)
        /\ write_queue \in Seq(Blocks) /\ queued_write_bytes \in Nat
        /\ active_write_bytes \in Nat
    BY <1>1 DEF ByteInv, WriteInv, WriteControlTypeOK
  <1>3. /\ Prefix(n) \in Seq(Blocks) /\ write_queue' \in Seq(Blocks)
        /\ Len(write_queue') = Len(write_queue) - n
    <2>1. PICK q : q = write_queue
      OBVIOUS
    <2>2. SubSeq(q, 1, n) \in Seq(Blocks)
      BY <1>2, <2>1, SubSeqProperties
    <2>3. SubSeq(q, n + 1, Len(q)) \in Seq(Blocks) /\ Len(SubSeq(q, n + 1, Len(q))) = Len(q) - n
      BY <1>2, <2>1, SubSeqProperties
    <2> QED BY <1>1, <2>1, <2>2, <2>3 DEF Prefix
  <1>4. Total(write_queue) = Total(Prefix(n)) + Total(write_queue')
    BY <1>1, <1>2, TotalSplits DEF Prefix
  <1>5. Total(Prefix(n)) \in Nat /\ Total(write_queue') \in Nat
    BY <1>3, TotalType
  <1>6. queued_write_bytes' = Total(write_queue')
    BY <1>1, <1>2, <1>4, <1>5 DEF ByteInv, BytesWithinLimit, SaturatingSub
  <1>7. InFlight' = InFlight
    <2>1. active_writes' = active_writes + n /\ Len(write_queue') = Len(write_queue) - n
      BY <1>1, <1>3
    <2> QED BY <1>2, <2>1 DEF InFlight
  <1>8. queued_write_bytes' + active_write_bytes' = queued_write_bytes + active_write_bytes
    BY <1>1, <1>2, <1>4, <1>5, <1>6 DEF ByteInv, BytesWithinLimit
  <1>9. queued_write_bytes' \in Nat /\ active_write_bytes' \in Nat
    BY <1>1, <1>2, <1>5, <1>6
  <1>10. BytesWithinLimit'
    BY <1>6, <1>7, <1>8 DEF ByteInv, BytesWithinLimit
  <1> QED BY <1>9, <1>10 DEF ByteInv

\* A released batch gives bytes back.
LEMMA ReleaseShrinks ==
    ASSUME ByteInv, NEW v \in Writers, NEW to, ReleaseBatch(v, to)
    PROVE  /\ active_writes' <= active_writes
           /\ active_write_bytes' \in Nat /\ active_write_bytes' <= active_write_bytes
  <1>1. /\ active_writes \in Nat /\ active_write_bytes \in Nat
        /\ writer[v].jobs \in Seq(Blocks) /\ Len(writer[v].jobs) \in Nat
    BY DEF ByteInv, WriteInv, WriteControlTypeOK
  <1>2. Total(writer[v].jobs) \in Nat
    BY <1>1, TotalType
  <1> QED BY <1>1, <1>2 DEF ReleaseBatch, SaturatingSub

\* Every step keeps the byte counters within their limit.
LEMMA ByteInvStep ==
    ASSUME ByteInv, [WriteQueueNext]_<<writeVars, stop_requested>>
    PROVE  ByteInv'
  <1>1. WriteInv'
    BY WriteInvStep DEF ByteInv
  <1>2. /\ active_writes \in Nat /\ active_write_bytes \in Nat
        /\ active_writes <= active_writes /\ active_write_bytes <= active_write_bytes
    BY DEF ByteInv, WriteInv, WriteControlTypeOK
  <1>3. ASSUME UNCHANGED countVars PROVE ByteInv'
    BY <1>1, <1>2, <1>3, ShrinkingKeepsBytes DEF countVars
  <1>4. ASSUME UNCHANGED <<active_writes, active_write_bytes>>,
               \/ UNCHANGED <<write_queue, queued_write_bytes>>
               \/ write_queue' = <<>> /\ queued_write_bytes' = 0
        PROVE  ByteInv'
    BY <1>1, <1>2, <1>4, ShrinkingKeepsBytes
  <1>5. CASE UNCHANGED <<writeVars, stop_requested>>
    BY <1>3, <1>5 DEF writeVars
  <1>6. ASSUME NEW w \in Workers, NEW b \in Blocks,
               EnqueueRejected(w) \/ EnqueueWaits(w, b) \/ EnqueueAccepted(w, b)
        PROVE  ByteInv'
    BY <1>1, <1>3, <1>6, EnqueueKeepsBytes DEF EnqueueRejected, EnqueueWaits, writeVars
  <1>7. ASSUME NEW v \in Writers, NextAction(v)
        PROVE  ByteInv'
    BY <1>1, <1>3, <1>7, TakeBatchKeepsBytes
    DEF NextAction, StartCheckpoint, WriterShutdown, WriterWaits
  <1>8. ASSUME NEW v \in Writers, CompleteWriteBatch(v) \/ UnwindBatch(v)
        PROVE  ByteInv'
    <2>1. \E to : ReleaseBatch(v, to)
      BY <1>8 DEF CompleteWriteBatch, UnwindBatch
    <2>2. \/ UNCHANGED <<write_queue, queued_write_bytes>>
          \/ write_queue' = <<>> /\ queued_write_bytes' = 0
      BY <1>8 DEF CompleteWriteBatch, UnwindBatch, CloseWriteQueue
    <2> QED BY <1>1, <2>1, <2>2, ReleaseShrinks, ShrinkingKeepsBytes
  <1>9. ASSUME NEW v \in Writers,
               \/ PublishSingly(v) \/ PublishBatch(v) \/ PublishUnsupported(v)
               \/ PublishOneByOne(v)
               \/ FinishCheckpoint(v) \/ CheckpointError(v) \/ FailCheckpoint(v)
               \/ WriterPanic(v) \/ CheckpointPanic(v) \/ WriterUnwindStep(v)
        PROVE  ByteInv'
    BY <1>3, <1>4, <1>9
    DEF PublishSingly, PublishBatch, PublishUnsupported, PublishOneByOne, PublishUnchanged,
        FinishCheckpoint, CheckpointError, FailCheckpoint, WriterPanic, CheckpointPanic,
        WriterUnwindStep, RequestWriteShutdown, CloseWriteQueue
  <1>10. CASE \/ \E t \in Workers \cup Writers : SpuriousWriteWake(t)
              \/ RequestWriteShutdown /\ UNCHANGED writer
              \/ FinishProducing \/ WritersJoined
              \/ \E how \in {"returned", "panicked"} : MainEnds(how)
              \/ WriteStopStored
    BY <1>3, <1>4, <1>10
    DEF SpuriousWriteWake, RequestWriteShutdown, CloseWriteQueue, FinishProducing,
        WritersJoined, MainEnds, WriteStopStored, writeVars
  <1> QED BY <1>5, <1>6, <1>7, <1>8, <1>9, <1>10 DEF WriteQueueNext

\* For any limits, any block sizes and any interleaving: the bytes of accepted
\* but unfinished writes exceed the byte limit only when a single oversized
\* block is all that is in flight, and queued_write_bytes is the exact sum of
\* the queued blocks, so that its saturating subtraction never saturates.
THEOREM WriteBytesSafe ==
    WriteQueueSpec => []BytesWithinLimit
  <1>1. WriteQueueInit => ByteInv
    <2> SUFFICES ASSUME WriteQueueInit PROVE ByteInv
      OBVIOUS
    <2>1. WriteInv
      BY WriteInvInit
    <2>2. write_queue = <<>> /\ queued_write_bytes = 0 /\ active_write_bytes = 0 /\ active_writes = 0
      BY DEF WriteQueueInit
    <2>3. InFlight = 0
      BY <2>2 DEF InFlight
    <2> QED BY <2>1, <2>2, <2>3, TotalType DEF ByteInv, BytesWithinLimit
  <1>2. ByteInv /\ [WriteQueueNext]_<<writeVars, stop_requested>> => ByteInv'
    BY ByteInvStep
  <1>3. ByteInv => BytesWithinLimit
    BY DEF ByteInv
  <1> QED BY <1>1, <1>2, <1>3, PTL DEF WriteQueueSpec

-----------------------------------------------------------------------------
(* The copy implements its queues. *)

(* The work queue. *)

\* A worker's steps between pop and finish_item move it from one busy stage to
\* another.
LEMMA WorkerMovesIsBusy ==
    ASSUME NEW w \in Workers, NEW from \in BusyStages, NEW to \in BusyStages,
           WorkerMoves(w, from, to)
    PROVE  BusyStep(w)
  BY DEF WorkerMoves, BusyStep

\* A worker's step is a step of the work queue.
LEMMA WorkerStepIsWorkStep ==
    ASSUME NEW w \in Workers, WorkerStep(w)
    PROVE  WorkQueueNext
  <1> DEFINE busy == {"note_root", "visit", "read", "check_stop", "push_children",
                      "destination", "enqueue_write", "finish"}
  <1>1. busy \subseteq BusyStages
    BY DEF BusyStages, HoldingStages
  <1>2. CASE \/ NoteRoot(w) \/ Visit(w) \/ ReadFails(w) \/ ReadAndDecode(w) \/ CheckStop(w)
             \/ DestinationStopped(w) \/ AlreadyPresent(w) \/ CheckFails(w) \/ Submit(w)
    <2>1. \E from, to \in busy : WorkerMoves(w, from, to)
      <3>1. CASE Visit(w)
        BY <3>1 DEF Visit
      <3>2. CASE CheckStop(w)
        BY <3>2 DEF CheckStop
      <3> QED
        BY <1>2, <3>1, <3>2 DEF NoteRoot, ReadFails, ReadAndDecode, DestinationStopped,
                                AlreadyPresent, CheckFails, Submit
    <2>2. BusyStep(w)
      BY <1>1, <2>1, WorkerMovesIsBusy
    <2> QED BY <2>2 DEF WorkQueueNext
  <1>3. CASE WorkerPops(w) \/ WorkerFinishes(w)
    BY <1>3 DEF WorkerPops, WorkerFinishes, WorkQueueNext
  <1>4. CASE PushChildren(w)
    BY <1>4 DEF PushChildren, EnqueueChildren, DecodedChildren, Block, WorkQueueNext
  <1>5. CASE EnqueueWrite(w)
    <2>1. stop_requested' = stop_requested
      BY <1>5 DEF EnqueueWrite, EnqueueRejected, EnqueueAccepted, EnqueueWaits
    <2>2. PICK to \in {"finish", "enqueue_write"} : EnqueueStep(w, to)
      BY <1>5 DEF EnqueueWrite
    <2>3. BusyStep(w)
      BY <1>1, <2>1, <2>2 DEF EnqueueStep, BusyStep
    <2> QED BY <2>3 DEF WorkQueueNext
  <1>6. CASE WorkerUnwinds(w)
    <2>1. CASE stage[w] = "unwind_write"
      <3>1. BusyStep(w)
        BY <1>6, <2>1 DEF WorkerUnwinds, UnwindItem, RequestWriteShutdown, BusyStep, FreeStages
      <3> QED BY <3>1 DEF WorkQueueNext
    <2>2. CASE stage[w] # "unwind_write"
      BY <1>6, <2>2 DEF WorkerUnwinds, WorkQueueNext
    <2> QED BY <2>1, <2>2
  <1> QED BY <1>2, <1>3, <1>4, <1>5, <1>6 DEF WorkerStep

\* A writer's step leaves the work queue alone, stores stop_requested, or calls
\* its request_shutdown.
LEMMA WriterStepIsWorkStep ==
    ASSUME NEW v \in Writers, WriterStep(v)
    PROVE  [WorkQueueNext]_<<workVars, stop_requested>>
  <1>1. CASE WriterActs(v)
    BY <1>1 DEF WriterActs, NextAction, TakeBatch, StartCheckpoint, WriterShutdown, WriterWaits
  <1>2. CASE WriterPublishes(v)
    BY <1>2 DEF WriterPublishes, PublishSingly, PublishBatch, PublishUnsupported,
                PublishOneByOne, PublishUnchanged, Quiet
  <1>3. CASE WriterCompletes(v)
    BY <1>3 DEF WriterCompletes, CompleteWriteBatch, Quiet
  <1>4. CASE WriterCheckpoints(v)
    BY <1>4 DEF WriterCheckpoints, FinishCheckpoint, CheckpointError, FailCheckpoint, Quiet,
                WorkQueueNext, StopStored
  <1>5. CASE WriterUnwinds(v)
    BY <1>5 DEF WriterUnwinds, UnwindBatch, WriterUnwindStep, RequestWriteShutdown, Quiet,
                WorkQueueNext
  <1> QED BY <1>1, <1>2, <1>3, <1>4, <1>5 DEF WriterStep

\* Every step of the copy is a step of the work queue or leaves it unchanged.
LEMMA NextIsWorkStep ==
    ASSUME [Next]_vars
    PROVE  [WorkQueueNext]_<<workVars, stop_requested>>
  <1>1. CASE UNCHANGED vars
    BY <1>1 DEF vars
  <1>2. CASE \E w \in Workers : WorkerStep(w)
    BY <1>2, WorkerStepIsWorkStep
  <1>3. CASE \E v \in Writers : WriterStep(v)
    BY <1>3, WriterStepIsWorkStep
  <1>4. CASE PollerStep
    BY <1>4 DEF PollerStep, RequestWriteShutdown, WorkQueueNext, StopStored
  <1>5. CASE MainStep
    BY <1>5 DEF MainStep, FinishProducing, WritersJoined, MainEnds, WorkQueueNext, StopStored
  <1>6. CASE OperatorInterrupt \/ SpuriousWakes
    BY <1>6 DEF OperatorInterrupt, SpuriousWakes, SpuriousWriteWake, Quiet, WorkQueueNext
  <1>7. CASE ThreadPanics
    BY <1>7 DEF ThreadPanics, WriterPanic, CheckpointPanic, Quiet, WorkQueueNext, StopStored
  <1>8. CASE Stopped
    BY <1>8 DEF Stopped, vars
  <1> QED BY <1>1, <1>2, <1>3, <1>4, <1>5, <1>6, <1>7, <1>8 DEF Next

\* The copy implements the work queue's specification.
THEOREM CopyImplementsWorkQueue == Spec => WorkQueueSpec
  <1>1. Init => WorkQueueInit
    BY DEF Init
  <1>2. [Next]_vars => [WorkQueueNext]_<<workVars, stop_requested>>
    BY NextIsWorkStep
  <1> QED BY <1>1, <1>2, PTL DEF Spec, WorkQueueSpec

-----------------------------------------------------------------------------
(* The write queue. *)

\* A worker's step leaves the write queue alone, submits the block it holds, or,
\* while unwinding, calls request_shutdown.
LEMMA WorkerStepIsWriteStep ==
    ASSUME NEW w \in Workers, WorkerStep(w), WorkTypeOK
    PROVE  [WriteQueueNext]_<<writeVars, stop_requested>>
  <1>1. CASE \/ NoteRoot(w) \/ Visit(w) \/ ReadFails(w) \/ ReadAndDecode(w) \/ CheckStop(w)
             \/ DestinationStopped(w) \/ AlreadyPresent(w) \/ CheckFails(w) \/ Submit(w)
    <2>1. \E from, to : WorkerMoves(w, from, to)
      BY <1>1 DEF NoteRoot, Visit, ReadFails, ReadAndDecode, CheckStop, DestinationStopped,
                  AlreadyPresent, CheckFails, Submit
    <2> QED BY <2>1 DEF WorkerMoves
  <1>2. CASE WorkerPops(w) \/ WorkerFinishes(w) \/ PushChildren(w)
    BY <1>2 DEF WorkerPops, WorkerFinishes, PushChildren, Pop, PopStopped, PopItem, PopExhausted,
                PopWaits, FinishItem, EnqueueChildren
  <1>3. CASE EnqueueWrite(w)
    <2>1. stage[w] = "enqueue_write"
      BY <1>3 DEF EnqueueWrite, EnqueueStep
    <2>2. item[w] \in Items
      BY <2>1 DEF WorkTypeOK, Holders, HoldingStages
    <2>3. Block(w) \in Blocks
      BY <2>2 DEF Items, Block
    <2> QED BY <1>3, <2>3 DEF EnqueueWrite, WriteQueueNext
  <1>4. CASE WorkerUnwinds(w)
    BY <1>4 DEF WorkerUnwinds, UnwindItem, RequestWorkShutdown, WriteQueueNext
  <1> QED BY <1>1, <1>2, <1>3, <1>4 DEF WorkerStep

\* A writer's step is a step of the write queue.
LEMMA WriterStepIsWriteStep ==
    ASSUME NEW v \in Writers, WriterStep(v)
    PROVE  WriteQueueNext
  BY DEF WriterStep, WriterActs, WriterPublishes, WriterCompletes, WriterCheckpoints,
         WriterUnwinds, WriteQueueNext

\* Every step of the copy is a step of the write queue or leaves it unchanged.
LEMMA NextIsWriteStep ==
    ASSUME [Next]_vars, WorkTypeOK
    PROVE  [WriteQueueNext]_<<writeVars, stop_requested>>
  <1>1. CASE UNCHANGED vars
    BY <1>1 DEF vars
  <1>2. CASE \E w \in Workers : WorkerStep(w)
    BY <1>2, WorkerStepIsWriteStep
  <1>3. CASE \E v \in Writers : WriterStep(v)
    BY <1>3, WriterStepIsWriteStep
  <1>4. CASE PollerStep
    BY <1>4 DEF PollerStep, RequestWorkShutdown, WriteQueueNext, WriteStopStored
  <1>5. CASE MainStep
    BY <1>5 DEF MainStep, WriteQueueNext
  <1>6. CASE OperatorInterrupt \/ SpuriousWakes
    BY <1>6 DEF OperatorInterrupt, SpuriousWakes, SpuriousPopWake, WriteQueueNext
  <1>7. CASE ThreadPanics
    BY <1>7 DEF ThreadPanics, WorkerPanic, WriteQueueNext, WriteStopStored
  <1>8. CASE Stopped
    BY <1>8 DEF Stopped, vars
  <1> QED BY <1>1, <1>2, <1>3, <1>4, <1>5, <1>6, <1>7, <1>8 DEF Next

\* The copy implements the write queue's specification: what a worker submits
\* is always a block it holds.
THEOREM CopyImplementsWriteQueue == Spec => WriteQueueSpec
  <1>1. Init => WriteQueueInit /\ WorkInv
    BY WorkInvInit DEF Init
  <1>2. WorkInv /\ [Next]_vars => WorkInv'
    BY NextIsWorkStep, WorkInvStep
  <1>3. WorkInv /\ [Next]_vars => [WriteQueueNext]_<<writeVars, stop_requested>>
    BY NextIsWriteStep DEF WorkInv
  <1> QED BY <1>1, <1>2, <1>3, PTL DEF Spec, WriteQueueSpec

-----------------------------------------------------------------------------
\* In every copy, whatever the graph, the limits, the number of threads and the
\* faults: the traversal ends only when nothing is queued or held (or a stop was
\* requested), in-flight writes stay within their limit, and a compaction never
\* overlaps a write or another compaction.
THEOREM CopySafe ==
    Spec => [](/\ ActiveCountsHolders /\ NoEarlyShutdown /\ SleepersHaveAWaker
               /\ InFlightWithinLimit /\ CheckpointAlone /\ OneBatchUntilUnsupported)
  BY CopyImplementsWorkQueue, CopyImplementsWriteQueue, WorkQueueSafe, WriteQueueSafe, PTL

\* A worker asleep in pop is never forgotten: in every copy, as long as a worker
\* sleeps, another one holds an item, and the finish_item it owes will notify.
THEOREM CopySleepersWoken == Spec => []SleepersHaveAWaker
  BY CopySafe, PTL

\* In every copy, two writers publish at the same time only when the destination
\* has refused a batch, so that the outcome of the probe decides for all.
THEOREM CopyBatchesAlone == Spec => []OneBatchUntilUnsupported
  BY CopySafe, PTL

\* In every copy the bytes read but not yet stored at the destination stay within
\* max_in_flight_destination_write_bytes, except for one oversized block alone.
THEOREM CopyBytesSafe == Spec => []BytesWithinLimit
  BY CopyImplementsWriteQueue, WriteBytesSafe, PTL

-----------------------------------------------------------------------------
(* The failure tracker of this copy. *)

\* A failed compaction is reported for every requested root.
LEMMA StoreFailureFacts ==
    ASSUME NEW t \in Trackers, NEW t2, t2 = RecordStoreFailure(t, Roots, "CompactDestinationStore")
    PROVE  /\ t2 \in Trackers
           /\ t2.block_roots = t.block_roots
           /\ t2.discovered_children = t.discovered_children
           /\ t2.failure_templates = t.failure_templates
           /\ \A r, b \in Blocks, o \in Operations : TimesReported(t2, r, b, o) = TimesReported(t, r, b, o)
           /\ FailedIds(t) \subseteq FailedIds(t2)
           /\ Roots # {} => DestinationStore \in FailedIds(t2)
  <1>1. Roots \in SUBSET Blocks /\ DestinationStore \notin Blocks
    BY GraphAssumption, EnvironmentAssumption DEF Roots
  <1> QED BY <1>1, StoreFailureIs

-----------------------------------------------------------------------------
(* The invariant, in layers. *)

PanicStages       == {"unwind_item", "unwind_work", "unwind_write", "panicked"}
WriterPanicStages == {"unwind_batch", "unwind_work", "unwind_write", "panicked"}

\* Something other than the end of the traversal ends the copy.
Disturbed ==
    \/ interrupted \/ Roots = {} \/ DestinationStore \in FailedIds(tracker)
    \/ \E w \in Workers : stage[w] \in PanicStages
    \/ \E v \in Writers : writer[v].at \in WriterPanicStages

\* The copy is being cut short: threads may drop what they hold.
Cut == stop_requested /\ Disturbed

OutcomeTypeOK ==
    /\ tracker \in Trackers
    /\ visited \subseteq Blocks /\ destination \subseteq Blocks /\ Stored \subseteq destination
    /\ copied_block_count \in Nat /\ skipped_already_present_block_count \in Nat
    /\ attempted_write_block_count \in Nat /\ compactions \in Nat
    /\ interrupted \in BOOLEAN
    /\ poller \in {"polling", "close_work", "close_write", "done"}

\* Who may stop, and what the ends of threads say about the queues.
StopHasReason ==
    /\ stop_requested /\ main \in {"join_workers", "join_writers"} => Disturbed
    /\ poller \in {"close_work", "close_write"} => Cut
    /\ \A w \in Workers : stage[w] \in PanicStages => Cut
    /\ \A v \in Writers : writer[v].at \in WriterPanicStages \cup {"checkpoint_failed"} => Cut

EndsInOrder ==
    /\ \A w \in Workers : stage[w] = "done" => work_shutdown
    /\ \A v \in Writers : writer[v].at = "done" => write_shutdown
    /\ main # "join_workers" => \A w \in Workers : stage[w] \in {"done", "panicked"}
    /\ main \notin {"join_workers", "join_writers"} =>
          \A v \in Writers : writer[v].at \in {"done", "panicked"}
    /\ main # "join_workers" => work_queue = <<>> \/ Cut
    /\ producers_finished => main # "join_workers" \/ Cut
    /\ write_shutdown => Cut \/ (main # "join_workers" /\ write_queue = <<>> /\ BatchHolders = {})
    /\ main = "returned" => ~AnyPanicked

\* The places of Places, one kind at a time.
HandlingStages   == {"read", "check_stop", "push_children", "destination", "enqueue_write"}
PublishingStages == {"publish", "one_by_one"}

HandlingWorkers   == {w \in Workers : stage[w] \in HandlingStages}
PublishingWriters == {v \in Writers : writer[v].at \in PublishingStages}
QueuePlaces       == 1..Len(write_queue)
JobPlaces(v)      == 1..Len(writer[v].jobs)

\* No block is in two places.
OnePlace ==
    /\ \A u, w \in HandlingWorkers : Block(u) = Block(w) => u = w
    /\ \A i, j \in QueuePlaces : write_queue[i] = write_queue[j] => i = j
    /\ \A u, v \in PublishingWriters : \A i \in JobPlaces(u), j \in JobPlaces(v) :
          writer[u].jobs[i] = writer[v].jobs[j] => u = v /\ i = j
    /\ \A w \in HandlingWorkers : \A i \in QueuePlaces : Block(w) # write_queue[i]
    /\ \A w \in HandlingWorkers : \A v \in PublishingWriters : \A i \in JobPlaces(v) :
          Block(w) # writer[v].jobs[i]
    /\ \A i \in QueuePlaces : \A v \in PublishingWriters : \A j \in JobPlaces(v) :
          write_queue[i] # writer[v].jobs[j]

\* What is being handled was claimed, and was not published by this copy.
Unfinished(b) == b \in visited /\ (b \in destination => b \in Stored)

HandledIsUnfinished ==
    /\ \A w \in HandlingWorkers : Unfinished(Block(w))
    /\ \A i \in QueuePlaces : Unfinished(write_queue[i])
    /\ \A v \in PublishingWriters : \A i \in JobPlaces(v) : Unfinished(writer[v].jobs[i])
    /\ destination \ Stored \subseteq visited

Placed(b) ==
    \/ \E w \in HandlingWorkers : Block(w) = b
    \/ \E i \in QueuePlaces : write_queue[i] = b
    \/ \E v \in PublishingWriters : \E i \in JobPlaces(v) : writer[v].jobs[i] = b

NothingLost == \A b \in visited : b \in destination \/ Failed(b, LosingOperations) \/ Placed(b) \/ Cut

\* Which operations may have failed on a block, by where the block is.
FailedOnce ==
    /\ \A b \in Blocks, o \in Operations :
          /\ TimesRecorded(tracker, b, o) <= 1
          /\ b \notin visited \/ o = "CompactDestinationStore" => TimesRecorded(tracker, b, o) = 0
    /\ \A w \in HandlingWorkers :
          /\ TimesRecorded(tracker, Block(w), "WriteDestinationBlock") = 0
          /\ stage[w] # "enqueue_write" => TimesRecorded(tracker, Block(w), "CheckDestinationBlock") = 0
          /\ stage[w] = "read" =>
                /\ TimesRecorded(tracker, Block(w), "ReadSourceBlock") = 0
                /\ TimesRecorded(tracker, Block(w), "DecodeSourceBlock") = 0
    /\ \A i \in QueuePlaces : TimesRecorded(tracker, write_queue[i], "WriteDestinationBlock") = 0
    /\ \A v \in PublishingWriters : \A i \in JobPlaces(v) :
          TimesRecorded(tracker, writer[v].jobs[i], "WriteDestinationBlock") = 0

\* What is known of a block's children.
Undecoded(b) == Failed(b, {"ReadSourceBlock", "DecodeSourceBlock"})

ChildrenKnown ==
    /\ \A b \in Blocks : tracker.discovered_children[b] \subseteq ToSet(Children[b])
    /\ \A b \in Blocks : b \notin visited \/ Undecoded(b) => tracker.discovered_children[b] = {}
    /\ \A w \in HandlingWorkers :
          /\ stage[w] = "read" => tracker.discovered_children[Block(w)] = {}
          /\ stage[w] \in {"check_stop", "push_children"} =>
                ToSet(DecodedChildren(w)) = tracker.discovered_children[Block(w)]
    /\ \A b \in visited :
          \/ \E w \in HandlingWorkers : stage[w] = "read" /\ Block(w) = b
          \/ Undecoded(b) \/ tracker.discovered_children[b] = ToSet(Children[b]) \/ Cut

\* The known children of a block with a root have it too, and a block with known
\* children has a root.
RootsPropagate ==
    \A b \in Blocks : \A c \in tracker.discovered_children[b] :
       tracker.block_roots[b] # {} /\ tracker.block_roots[b] \subseteq tracker.block_roots[c]

\* The blocks a root reaches over the children known so far.
KnownFrom(r, b) ==
    \A S \in SUBSET Blocks :
       r \in S /\ (\A c \in S : tracker.discovered_children[c] \subseteq S) => b \in S

NotedStages == HandlingStages \cup {"visit"}

ItemsKnown ==
    /\ \A i \in 1..Len(work_queue) :
          /\ work_queue[i][1] \in Roots
          /\ \/ work_queue[i][1] = work_queue[i][2]
             \/ work_queue[i][1] \in tracker.block_roots[work_queue[i][2]]
    /\ \A w \in Holders :
          /\ Root(w) \in Roots
          /\ Root(w) = Block(w) \/ Root(w) \in tracker.block_roots[Block(w)]
          /\ stage[w] \in NotedStages => Root(w) \in tracker.block_roots[Block(w)]
    /\ \A b \in Blocks : \A r \in tracker.block_roots[b] : r \in Roots /\ KnownFrom(r, b)

\* Nothing a root reaches is forgotten.
ToBeVisited(b) ==
    \/ \E i \in 1..Len(work_queue) : work_queue[i][2] = b
    \/ \E w \in Workers : stage[w] \in {"note_root", "visit"} /\ Block(w) = b
    \/ \E w \in Workers : /\ stage[w] \in {"check_stop", "push_children"}
                          /\ b \in ToSet(DecodedChildren(w))

NothingForgotten ==
    /\ \A r \in Roots : \/ r \in tracker.block_roots[r] \/ Cut
                        \/ \E i \in 1..Len(work_queue) : work_queue[i] = <<r, r>>
                        \/ \E w \in Workers : stage[w] = "note_root" /\ item[w] = <<r, r>>
    /\ \A b \in Blocks : tracker.block_roots[b] # {} => b \in visited \/ ToBeVisited(b) \/ Cut

ReportedOnce ==
    \A r, b \in Blocks, o \in Operations :
       TimesReported(tracker, r, b, o) =
          IF r \in tracker.block_roots[b] THEN TimesRecorded(tracker, b, o) ELSE 0

\* The counters, with the blocks still on their way to them.
HoldersOfStored == {w \in HandlingWorkers : Block(w) \in Stored}

Counted ==
    IF BlindWrite
    THEN attempted_write_block_count + Cardinality(HandlingWorkers) <= Cardinality(visited)
    ELSE /\ copied_block_count = Cardinality(destination \ Stored)
         /\ skipped_already_present_block_count + Cardinality(HoldersOfStored)
               <= Cardinality(visited \cap Stored)
         /\ \A w \in HandlingWorkers : stage[w] = "enqueue_write" => Block(w) \notin destination
         /\ \A i \in QueuePlaces : write_queue[i] \notin destination
         /\ \A v \in PublishingWriters : \A i \in JobPlaces(v) :
               writer[v].jobs[i] \notin destination

CopyInv ==
    /\ WorkInv /\ WriteInv /\ OutcomeTypeOK
    /\ StopHasReason /\ EndsInOrder
    /\ OnePlace /\ HandledIsUnfinished /\ NothingLost
    /\ FailedOnce /\ ChildrenKnown
    /\ RootsPropagate /\ ItemsKnown /\ NothingForgotten
    /\ ReportedOnce /\ Counted /\ OneCompactionPerInterval

-----------------------------------------------------------------------------
(* What the invariant says of the copy. *)

\* Every block the threads hold is a block.
LEMMA PlacesHoldBlocks ==
    ASSUME WorkInv, WriteInv
    PROVE  /\ \A w \in HandlingWorkers : w \in Holders /\ Root(w) \in Blocks /\ Block(w) \in Blocks
           /\ Len(write_queue) \in Nat
           /\ \A i \in QueuePlaces : write_queue[i] \in Blocks
           /\ \A v \in Writers : Len(writer[v].jobs) \in Nat
           /\ \A v \in Writers : \A i \in JobPlaces(v) : writer[v].jobs[i] \in Blocks
  <1>1. \A w \in HandlingWorkers : w \in Holders
    BY DEF HandlingWorkers, HandlingStages, Holders, HoldingStages
  <1>2. \A w \in Holders : item[w] \in Items
    BY DEF WorkInv, WorkTypeOK
  <1>3. \A w \in Holders : Root(w) \in Blocks /\ Block(w) \in Blocks
    BY <1>2 DEF Items, Root, Block
  <1>4. \A v \in Writers : writer[v].jobs \in Seq(Blocks)
    BY DEF WriteInv, WriteControlTypeOK
  <1>5. write_queue \in Seq(Blocks)
    BY DEF WriteInv, WriteControlTypeOK
  <1> QED BY <1>1, <1>3, <1>4, <1>5 DEF QueuePlaces, JobPlaces

\* A block that is nowhere has no place.
LEMMA PlacedIffPlaces ==
    ASSUME NEW b
    PROVE  Placed(b) <=> Places(b) # {}
  <1> DEFINE inWorkers == {<<w>> : w \in {u \in HandlingWorkers : Block(u) = b}}
             inQueue   == {<<i>> : i \in {j \in QueuePlaces : write_queue[j] = b}}
             inBatch(v) == {<<v, i>> : i \in {j \in JobPlaces(v) : writer[v].jobs[j] = b}}
  <1>1. Places(b) = inWorkers \cup inQueue \cup UNION {inBatch(v) : v \in PublishingWriters}
    BY DEF Places, HandlingWorkers, HandlingStages, PublishingWriters, PublishingStages,
           QueuePlaces, JobPlaces
  <1>2. inWorkers # {} <=> \E w \in HandlingWorkers : Block(w) = b
    OBVIOUS
  <1>3. inQueue # {} <=> \E i \in QueuePlaces : write_queue[i] = b
    OBVIOUS
  <1>4. \A v : inBatch(v) # {} <=> \E i \in JobPlaces(v) : writer[v].jobs[i] = b
    OBVIOUS
  <1> HIDE DEF inWorkers, inQueue, inBatch
  <1>5. UNION {inBatch(v) : v \in PublishingWriters} # {}
           <=> \E v \in PublishingWriters : inBatch(v) # {}
    OBVIOUS
  <1> QED BY <1>1, <1>2, <1>3, <1>4, <1>5 DEF Placed

\* A block has at most one place.
LEMMA AtMostOnePlace ==
    ASSUME OnePlace, NEW b
    PROVE  IsFiniteSet(Places(b)) /\ Cardinality(Places(b)) <= 1
  <1> DEFINE inWorkers == {<<w>> : w \in {u \in HandlingWorkers : Block(u) = b}}
             inQueue   == {<<i>> : i \in {j \in QueuePlaces : write_queue[j] = b}}
             inBatch(v) == {<<v, i>> : i \in {j \in JobPlaces(v) : writer[v].jobs[j] = b}}
  <1>1. Places(b) = inWorkers \cup inQueue \cup UNION {inBatch(v) : v \in PublishingWriters}
    BY DEF Places, HandlingWorkers, HandlingStages, PublishingWriters, PublishingStages,
           QueuePlaces, JobPlaces
  <1>2. \E p : Places(b) \subseteq {p}
    <2>1. CASE \E w \in HandlingWorkers : Block(w) = b
      <3>1. PICK w \in HandlingWorkers : Block(w) = b
        BY <2>1
      <3>2. inWorkers \subseteq {<<w>>} /\ inQueue = {}
        BY <3>1 DEF OnePlace
      <3>3. \A v \in PublishingWriters : inBatch(v) = {}
        BY <3>1 DEF OnePlace
      <3> QED BY <1>1, <3>2, <3>3
    <2>2. CASE /\ ~\E w \in HandlingWorkers : Block(w) = b
               /\ \E i \in QueuePlaces : write_queue[i] = b
      <3>1. PICK i \in QueuePlaces : write_queue[i] = b
        BY <2>2
      <3>2. inWorkers = {} /\ inQueue \subseteq {<<i>>}
        BY <2>2, <3>1 DEF OnePlace
      <3>3. \A v \in PublishingWriters : inBatch(v) = {}
        BY <3>1 DEF OnePlace
      <3> QED BY <1>1, <3>2, <3>3
    <2>3. CASE /\ ~\E w \in HandlingWorkers : Block(w) = b
               /\ ~\E i \in QueuePlaces : write_queue[i] = b
               /\ \E v \in PublishingWriters : \E i \in JobPlaces(v) : writer[v].jobs[i] = b
      <3>1. PICK v \in PublishingWriters : \E i \in JobPlaces(v) : writer[v].jobs[i] = b
        BY <2>3
      <3>2. PICK i \in JobPlaces(v) : writer[v].jobs[i] = b
        BY <3>1
      <3>3. inWorkers = {} /\ inQueue = {}
        BY <2>3
      <3>4. \A u \in PublishingWriters : inBatch(u) \subseteq {<<v, i>>}
        BY <3>2 DEF OnePlace
      <3> QED BY <1>1, <3>3, <3>4
    <2>4. CASE ~Placed(b)
      BY <2>4, PlacedIffPlaces
    <2> QED BY <2>1, <2>2, <2>3, <2>4 DEF Placed
  <1>3. PICK p : Places(b) \subseteq {p}
    BY <1>2
  <1>4. Places(b) = {} \/ Places(b) = {p}
    BY <1>3
  <1> QED BY <1>4, FS_EmptySet, FS_Singleton

\* The invariant implies that every claimed block is handled once.
LEMMA InvHandled ==
    ASSUME CopyInv
    PROVE  HandledExactlyOnce
  <1>1. ASSUME NEW b \in Blocks
        PROVE  Cardinality(Places(b)) <= IF b \in destination \ Stored THEN 0 ELSE 1
    <2>1. CASE b \in destination \ Stored
      <3>1. ~Placed(b)
        BY <2>1 DEF CopyInv, HandledIsUnfinished, Unfinished, Placed
      <3> QED BY <2>1, <3>1, PlacedIffPlaces, FS_EmptySet
    <2>2. CASE b \notin destination \ Stored
      BY <2>2, AtMostOnePlace DEF CopyInv
    <2> QED BY <2>1, <2>2
  <1>2. NothingLostUnlessStopped
    BY PlacedIffPlaces DEF CopyInv, NothingLost, NothingLostUnlessStopped, Cut
  <1> QED BY <1>1, <1>2 DEF HandledExactlyOnce, HandledOnce

\* A copy that completed was not cut short: every claimed block and every block a
\* root reaches has been dealt with.
LEMMA CompletedIsSettled ==
    ASSUME CopyInv, Completed, Roots # {}
    PROVE  /\ ~Disturbed
           /\ \A b \in visited : b \in destination \/ Failed(b, LosingOperations)
           /\ \A b \in visited :
                 Undecoded(b) \/ tracker.discovered_children[b] = ToSet(Children[b])
           /\ \A r \in Roots : r \in tracker.block_roots[r]
           /\ \A b \in Blocks : tracker.block_roots[b] # {} => b \in visited
  <1>1. main = "returned" /\ ~interrupted /\ DestinationStore \notin FailedIds(tracker)
    BY DEF Completed
  <1>2. \A w \in Workers : stage[w] = "done"
    BY <1>1 DEF CopyInv, EndsInOrder, AnyPanicked
  <1>3. \A v \in Writers : writer[v].at = "done"
    BY <1>1 DEF CopyInv, EndsInOrder, AnyPanicked
  <1>4. ~Disturbed /\ ~Cut
    BY <1>1, <1>2, <1>3 DEF Disturbed, Cut, PanicStages, WriterPanicStages
  <1>5. PICK v \in Writers : writer[v].at = "done"
    BY <1>3, ThreadsAssumption
  <1>6. work_queue = <<>> /\ write_queue = <<>>
    BY <1>1, <1>4, <1>5 DEF CopyInv, EndsInOrder
  <1>7. HandlingWorkers = {} /\ PublishingWriters = {} /\ QueuePlaces = {}
    BY <1>2, <1>3, <1>6
    DEF HandlingWorkers, HandlingStages, PublishingWriters, PublishingStages, QueuePlaces
  <1>8. \A b : ~Placed(b)
    BY <1>7 DEF Placed
  <1>9. \A b : ~ToBeVisited(b)
    BY <1>2, <1>6 DEF ToBeVisited
  <1>10. \A b \in visited : b \in destination \/ Failed(b, LosingOperations)
    BY <1>4, <1>8 DEF CopyInv, NothingLost
  <1>11. \A b \in visited : Undecoded(b) \/ tracker.discovered_children[b] = ToSet(Children[b])
    BY <1>4, <1>7 DEF CopyInv, ChildrenKnown
  <1>12. \A r \in Roots : r \in tracker.block_roots[r]
    BY <1>2, <1>4, <1>6 DEF CopyInv, NothingForgotten
  <1>13. \A b \in Blocks : tracker.block_roots[b] # {} => b \in visited
    BY <1>4, <1>9 DEF CopyInv, NothingForgotten
  <1> QED BY <1>4, <1>10, <1>11, <1>12, <1>13

\* The edges that ReachableFrom follows.
ReadEdges(b) == IF Undecoded(b) THEN {} ELSE ToSet(Children[b])

\* ReachableFrom, over the edges of blocks that were read and decoded.
LEMMA ReachableOverEdges ==
    ASSUME NEW r
    PROVE  ReachableFrom(r) = {b \in Blocks : \A S \in SUBSET Blocks :
              r \in S /\ (\A c \in S : ReadEdges(c) \subseteq S) => b \in S}
  BY DEF ReachableFrom, ReadEdges, Undecoded

\* When a copy has completed, the tracker associates a root with exactly the
\* blocks it reaches.
LEMMA RootsAreReach ==
    ASSUME CopyInv, Completed, NEW r \in Roots
    PROVE  ReachableFrom(r) = {b \in Blocks : r \in tracker.block_roots[b]}
  <1> DEFINE R == {b \in Blocks : r \in tracker.block_roots[b]}
  <1>1. /\ \A b \in visited :
              Undecoded(b) \/ tracker.discovered_children[b] = ToSet(Children[b])
        /\ r \in tracker.block_roots[r]
        /\ \A b \in Blocks : tracker.block_roots[b] # {} => b \in visited
    BY CompletedIsSettled
  <1>2. r \in Blocks
    BY GraphAssumption DEF Roots
  <1>3. \A c \in R : ReadEdges(c) \subseteq R
    <2> SUFFICES ASSUME NEW c \in R, NEW d \in ReadEdges(c) PROVE d \in R
      OBVIOUS
    <2>1. c \in visited
      BY <1>1
    <2>2. d \in tracker.discovered_children[c]
      BY <1>1, <2>1 DEF ReadEdges
    <2>3. r \in tracker.block_roots[d]
      BY <2>2 DEF CopyInv, RootsPropagate
    <2>4. d \in Blocks
      BY <2>2 DEF CopyInv, OutcomeTypeOK, Trackers
    <2> QED BY <2>3, <2>4
  <1>4. \A c \in Blocks : tracker.discovered_children[c] \subseteq ReadEdges(c)
    BY DEF CopyInv, ChildrenKnown, ReadEdges
  <1>5. ASSUME NEW b \in R, NEW S \in SUBSET Blocks, r \in S, \A c \in S : ReadEdges(c) \subseteq S
        PROVE  b \in S
    <2>1. \A c \in S : tracker.discovered_children[c] \subseteq S
      BY <1>4, <1>5
    <2>2. KnownFrom(r, b)
      BY DEF CopyInv, ItemsKnown
    <2> QED BY <1>5, <2>1, <2>2 DEF KnownFrom
  <1>6. R \in SUBSET Blocks /\ r \in R
    BY <1>1, <1>2
  <1>7. R \subseteq ReachableFrom(r)
    BY <1>5, ReachableOverEdges
  <1>8. ReachableFrom(r) \subseteq R
    <2> SUFFICES ASSUME NEW b \in ReachableFrom(r) PROVE b \in R
      OBVIOUS
    <2>1. r \in R /\ (\A c \in R : ReadEdges(c) \subseteq R) => b \in R
      <3> HIDE DEF R
      <3> QED BY <1>6, ReachableOverEdges
    <2> QED BY <1>3, <1>6, <2>1
  <1> QED BY <1>7, <1>8

\* The invariant implies that a completed copy is complete.
LEMMA InvComplete ==
    ASSUME CopyInv
    PROVE  CompletedCopyIsComplete
  <1> SUFFICES ASSUME Completed, NEW r \in Roots, NEW b \in ReachableFrom(r), b \notin destination
               PROVE  \E o \in LosingOperations : BagIn(Failure(r, b, o), tracker.failures)
    BY DEF CompletedCopyIsComplete
  <1>1. b \in Blocks /\ r \in tracker.block_roots[b]
    BY RootsAreReach
  <1>2. b \in visited
    BY <1>1, CompletedIsSettled
  <1>3. PICK o \in LosingOperations : BagIn(o, tracker.failure_templates[b])
    BY <1>2, CompletedIsSettled DEF Failed
  <1>4. r \in Blocks /\ o \in Operations /\ tracker \in Trackers
    BY GraphAssumption DEF Roots, LosingOperations, Operations, CopyInv, OutcomeTypeOK
  <1>5. TimesReported(tracker, r, b, o) = TimesRecorded(tracker, b, o)
    BY <1>1, <1>4 DEF CopyInv, ReportedOnce
  <1> QED BY <1>1, <1>3, <1>4, <1>5, CountsType

\* The invariant implies that the report is true.
LEMMA InvReport ==
    ASSUME CopyInv
    PROVE  ReportTruthful
  <1>0. tracker \in Trackers
    BY DEF CopyInv, OutcomeTypeOK
  <1>1. CountersTruthful
    <2>1. CASE BlindWrite
      <3>1. IsFiniteSet(HandlingWorkers) /\ Cardinality(HandlingWorkers) \in Nat
        BY ThreadsAssumption, FS_Subset, FS_CardinalityType DEF HandlingWorkers
      <3>2. IsFiniteSet(visited) /\ Cardinality(visited) \in Nat
        BY EnvironmentAssumption, FS_Subset, FS_CardinalityType DEF CopyInv, OutcomeTypeOK
      <3>3. attempted_write_block_count \in Nat
        BY DEF CopyInv, OutcomeTypeOK
      <3>4. attempted_write_block_count + Cardinality(HandlingWorkers) <= Cardinality(visited)
        BY <2>1 DEF CopyInv, Counted
      <3> QED BY <2>1, <3>1, <3>2, <3>3, <3>4 DEF CountersTruthful
    <2>2. CASE ~BlindWrite
      <3>1. IsFiniteSet(HoldersOfStored) /\ Cardinality(HoldersOfStored) \in Nat
        BY ThreadsAssumption, FS_Subset, FS_CardinalityType DEF HoldersOfStored, HandlingWorkers
      <3>2. /\ destination \cap Stored \subseteq Blocks
            /\ visited \cap Stored \subseteq destination \cap Stored
        BY DEF CopyInv, OutcomeTypeOK
      <3>3. IsFiniteSet(destination \cap Stored)
        BY <3>2, EnvironmentAssumption, FS_Subset
      <3>4. /\ Cardinality(visited \cap Stored) \in Nat
            /\ Cardinality(destination \cap Stored) \in Nat
            /\ Cardinality(visited \cap Stored) <= Cardinality(destination \cap Stored)
        BY <3>2, <3>3, FS_Subset, FS_CardinalityType
      <3>5. skipped_already_present_block_count \in Nat
        BY DEF CopyInv, OutcomeTypeOK
      <3>6. /\ copied_block_count = Cardinality(destination \ Stored)
            /\ skipped_already_present_block_count + Cardinality(HoldersOfStored)
                  <= Cardinality(visited \cap Stored)
        BY <2>2 DEF CopyInv, Counted
      <3> QED BY <2>2, <3>1, <3>4, <3>5, <3>6 DEF CountersTruthful
    <2> QED BY <2>1, <2>2
  <1>2. FailuresAttributed
    BY DEF CopyInv, FailuresAttributed, Attributed, ReportedOnce, TimesReported, TimesRecorded, RootsPropagate
  <1>3. ASSUME Completed, NEW r \in Roots, NEW b \in Blocks, NEW o \in Operations
        PROVE  Occurrences(Failure(r, b, o), tracker.failures) =
                  IF b \in ReachableFrom(r) /\ Failed(b, {o}) THEN 1 ELSE 0
    <2>1. b \in ReachableFrom(r) <=> r \in tracker.block_roots[b]
      BY <1>3, RootsAreReach
    <2>2. r \in Blocks
      BY GraphAssumption DEF Roots
    <2>3. TimesReported(tracker, r, b, o) =
             IF r \in tracker.block_roots[b] THEN TimesRecorded(tracker, b, o) ELSE 0
      BY <2>2 DEF CopyInv, ReportedOnce
    <2>4. TimesRecorded(tracker, b, o) \in Nat /\ TimesRecorded(tracker, b, o) <= 1
      BY <1>0, CountsType DEF CopyInv, FailedOnce
    <2>5. Failed(b, {o}) <=> TimesRecorded(tracker, b, o) > 0
      BY <1>0, CountsType DEF Failed
    <2> QED BY <2>1, <2>3, <2>4, <2>5 DEF TimesReported
  <1> QED BY <1>1, <1>2, <1>3 DEF ReportTruthful, FailuresReachEveryRoot

-----------------------------------------------------------------------------
(* The steps, by what they do to the places of blocks. *)

\* No block comes to a place, though it may leave one.
NoNewPlace ==
    /\ \A w \in HandlingWorkers' : w \in HandlingWorkers /\ item'[w] = item[w]
    /\ write_queue' \in {write_queue, <<>>}
    /\ \A v \in PublishingWriters' : v \in PublishingWriters /\ writer'[v].jobs = writer[v].jobs

\* A worker's block goes to the write queue.
Accepts(w) ==
    /\ EnqueueStep(w, "finish")
    /\ EnqueueAccepted(w, Block(w))
    /\ attempted_write_block_count' = attempted_write_block_count + (IF BlindWrite THEN 1 ELSE 0)

\* A writer takes a batch from the write queue.
Takes(v) == TakeBatch(v) /\ WriterActs(v)

\* A writer has published its batch, whole or in part.
Completes(v, good, bad) ==
    /\ writer[v].at \in PublishingStages
    /\ WriterMoves(v, "complete")
    /\ good \cup bad = JobPlaces(v) /\ good \cap bad = {}
    /\ RecordCompletions(v, good, bad)
    /\ UNCHANGED <<PublishUnchanged, Quiet>>

\* publish_destination_write_batch completes the batch or goes on one by one.
LEMMA PublishCases ==
    ASSUME NEW v \in Writers, WriterPublishes(v)
    PROVE  \/ \E good, bad \in SUBSET JobPlaces(v) : Completes(v, good, bad)
           \/ /\ writer[v].at = "publish" /\ WriterMoves(v, "one_by_one")
              /\ UNCHANGED <<PublishUnchanged, Quiet, reportVars>>
  <1> DEFINE all == JobPlaces(v)
             Goal == \E good, bad \in SUBSET all : Completes(v, good, bad)
  <1>1. all = 1..Len(writer[v].jobs)
    BY DEF JobPlaces
  <1>2. CASE /\ PublishBatch(v) /\ UNCHANGED Quiet
             /\ RecordCompletions(v, all, {}) \/ RecordCompletions(v, {}, all)
    <2>1. \/ Completes(v, all, {}) \/ Completes(v, {}, all)
      BY <1>2 DEF Completes, PublishBatch, PublishingStages, PublishUnchanged
    <2> HIDE DEF all
    <2>2. Goal
      BY <2>1
    <2> QED BY <2>2 DEF all
  <1>3. CASE /\ PublishOneByOne(v) /\ UNCHANGED Quiet
             /\ \E bad \in SUBSET {i \in all : MayFail(v, i)} :
                   RecordCompletions(v, all \ bad, bad)
    <2>1. PICK bad \in SUBSET {i \in all : MayFail(v, i)} : RecordCompletions(v, all \ bad, bad)
      BY <1>3
    <2>2. (all \ bad) \cup bad = all /\ (all \ bad) \cap bad = {}
      OBVIOUS
    <2>3. Completes(v, all \ bad, bad)
      BY <1>3, <2>1, <2>2 DEF Completes, PublishOneByOne, PublishingStages, PublishUnchanged
    <2> HIDE DEF all
    <2>4. Goal
      BY <2>1, <2>3
    <2> QED BY <2>4 DEF all
  <1>4. CASE (PublishSingly(v) \/ PublishUnsupported(v)) /\ UNCHANGED <<Quiet, reportVars>>
    BY <1>4 DEF PublishSingly, PublishUnsupported, PublishUnchanged
  <1> QED BY <1>1, <1>2, <1>3, <1>4 DEF WriterPublishes

\* A worker's step, other than claiming a block and handing it over.
LEMMA WorkerAddsNoPlace ==
    ASSUME WorkInv, WriteInv, NEW w \in Workers, WorkerStep(w), ~Visit(w), ~Accepts(w)
    PROVE  NoNewPlace /\ UNCHANGED <<visited, destination>>
  <1>0. /\ stage \in [Workers -> HoldingStages \cup FreeStages]
        /\ item \in [Workers -> Items \cup {NoItem}]
    BY DEF WorkInv, WorkTypeOK
  <1> DEFINE Leaves == /\ \A u \in Workers \ {w} : stage'[u] = stage[u] /\ item'[u] = item[u]
                       /\ stage'[w] \in HandlingStages =>
                             stage[w] \in HandlingStages /\ item'[w] = item[w]
                       /\ write_queue' \in {write_queue, <<>>} /\ writer' = writer
                       /\ UNCHANGED <<visited, destination>>
  <1>1. CASE \/ NoteRoot(w) \/ ReadFails(w) \/ ReadAndDecode(w) \/ CheckStop(w)
             \/ DestinationStopped(w) \/ AlreadyPresent(w) \/ CheckFails(w) \/ Submit(w)
    <2>1. /\ \E from \in HandlingStages \cup {"note_root"}, to \in HandlingStages \cup {"visit", "finish"} :
                WorkerMoves(w, from, to) /\ (from = "note_root" => to = "visit")
          /\ UNCHANGED <<visited, destination>>
      <3>1. CASE CheckStop(w)
        BY <3>1 DEF CheckStop, HandlingStages, reportVars
      <3> QED
        BY <1>1, <3>1 DEF NoteRoot, ReadFails, ReadAndDecode, DestinationStopped,
                          AlreadyPresent, CheckFails, Submit, HandlingStages, reportVars
    <2> QED
      <3>1. Leaves
        BY <1>0, <2>1 DEF WorkerMoves, Moves, HandlingStages, writeVars, countVars
      <3> QED BY <3>1 DEF NoNewPlace, HandlingWorkers, PublishingWriters
  <1>2. CASE WorkerPops(w)
    <2>1. Leaves
      BY <1>0, <1>2 DEF WorkerPops, Pop, PopStopped, PopItem, PopExhausted, PopWaits, InPop, Moves,
                        HandlingStages, writeVars, countVars, reportVars
    <2> QED BY <2>1 DEF NoNewPlace, HandlingWorkers, PublishingWriters
  <1>3. CASE PushChildren(w)
    <2>1. Leaves
      BY <1>0, <1>3 DEF PushChildren, EnqueueChildren, Moves, HandlingStages, writeVars, countVars,
                        reportVars
    <2> QED BY <2>1 DEF NoNewPlace, HandlingWorkers, PublishingWriters
  <1>4. CASE EnqueueWrite(w)
    <2>1. Leaves
      BY <1>0, <1>4 DEF EnqueueWrite, Accepts, EnqueueStep, EnqueueRejected, EnqueueWaits, Moves,
                        HandlingStages, writeVars, countVars
    <2> QED BY <2>1 DEF NoNewPlace, HandlingWorkers, PublishingWriters
  <1>5. CASE WorkerFinishes(w)
    <2>1. Leaves
      BY <1>0, <1>5 DEF WorkerFinishes, FinishItem, Moves, HandlingStages, writeVars, countVars,
                        reportVars
    <2> QED BY <2>1 DEF NoNewPlace, HandlingWorkers, PublishingWriters
  <1>6. CASE WorkerUnwinds(w)
    <2>1. Leaves
      BY <1>0, <1>6 DEF WorkerUnwinds, UnwindItem, RequestWorkShutdown, RequestWriteShutdown,
                        CloseWriteQueue, Moves, HandlingStages, writeVars, countVars, reportVars
    <2> QED BY <2>1 DEF NoNewPlace, HandlingWorkers, PublishingWriters
  <1> QED BY <1>1, <1>2, <1>3, <1>4, <1>5, <1>6 DEF WorkerStep, Accepts, EnqueueWrite

\* A writer's step, other than taking a batch and completing it.
LEMMA WriterAddsNoPlace ==
    ASSUME WorkInv, WriteInv, NEW v \in Writers, WriterStep(v), ~Takes(v),
           ~\E good, bad \in SUBSET JobPlaces(v) : Completes(v, good, bad)
    PROVE  NoNewPlace /\ UNCHANGED <<visited, destination>>
  <1>0. writer \in [Writers -> [at : WriterStages, jobs : Seq(Blocks)]]
    BY DEF WriteInv, WriteControlTypeOK
  <1> DEFINE Leaves == /\ \A u \in Writers \ {v} : writer'[u] = writer[u]
                       /\ writer'[v].at \in PublishingStages =>
                             /\ writer[v].at \in PublishingStages
                             /\ writer'[v].jobs = writer[v].jobs
                       /\ write_queue' \in {write_queue, <<>>}
                       /\ stage' = stage /\ item' = item
                       /\ UNCHANGED <<visited, destination>>
  <1>1. CASE WriterActs(v)
    <2>1. Leaves
      BY <1>0, <1>1 DEF WriterActs, Takes, NextAction, StartCheckpoint, WriterShutdown, WriterWaits,
                        WriterMoves, PublishingStages, countVars, workVars, reportVars
    <2> QED BY <2>1 DEF NoNewPlace, HandlingWorkers, PublishingWriters
  <1>2. CASE WriterPublishes(v)
    <2>1. /\ writer[v].at = "publish" /\ WriterMoves(v, "one_by_one")
          /\ UNCHANGED <<PublishUnchanged, Quiet, reportVars>>
      BY <1>2, PublishCases
    <2>2. Leaves
      BY <1>0, <2>1 DEF WriterMoves, PublishUnchanged, Quiet, PublishingStages, countVars, workVars,
                        reportVars
    <2> QED BY <2>2 DEF NoNewPlace, HandlingWorkers, PublishingWriters
  <1>3. CASE WriterCompletes(v)
    <2>1. Leaves
      BY <1>0, <1>3 DEF WriterCompletes, CompleteWriteBatch, ReleaseBatch, Quiet, PublishingStages,
                        workVars, reportVars
    <2> QED BY <2>1 DEF NoNewPlace, HandlingWorkers, PublishingWriters
  <1>4. CASE WriterCheckpoints(v)
    <2>1. Leaves
      BY <1>0, <1>4 DEF WriterCheckpoints, FinishCheckpoint, CheckpointError, FailCheckpoint,
                        CloseWriteQueue, WriterMoves, Quiet, PublishingStages, countVars, workVars,
                        reportVars
    <2> QED BY <2>1 DEF NoNewPlace, HandlingWorkers, PublishingWriters
  <1>5. CASE WriterUnwinds(v)
    <2>1. Leaves
      BY <1>0, <1>5 DEF WriterUnwinds, UnwindBatch, ReleaseBatch, WriterUnwindStep, CloseWriteQueue,
                        RequestWriteShutdown, RequestWorkShutdown, WriterMoves, Quiet,
                        PublishingStages, countVars, workVars, reportVars
    <2> QED BY <2>1 DEF NoNewPlace, HandlingWorkers, PublishingWriters
  <1> QED BY <1>1, <1>2, <1>3, <1>4, <1>5 DEF WriterStep

\* The steps of the other threads and of the environment.
OtherStep ==
    \/ PollerStep \/ MainStep \/ OperatorInterrupt \/ ThreadPanics \/ SpuriousWakes \/ Stopped

\* The interrupt thread, the calling thread and the environment move no block.
LEMMA OthersAddNoPlace ==
    ASSUME WorkInv, WriteInv, OtherStep
    PROVE  NoNewPlace /\ UNCHANGED reportVars
  <1>0. /\ stage \in [Workers -> HoldingStages \cup FreeStages]
        /\ writer \in [Writers -> [at : WriterStages, jobs : Seq(Blocks)]]
    BY DEF WorkInv, WorkTypeOK, WriteInv, WriteControlTypeOK
  <1>1. CASE PollerStep \/ MainStep \/ OperatorInterrupt \/ SpuriousWakes \/ Stopped
    <2>1. /\ UNCHANGED <<stage, item, writer, reportVars>>
          /\ write_queue' \in {write_queue, <<>>}
      BY <1>1 DEF PollerStep, RequestWorkShutdown, RequestWriteShutdown, CloseWriteQueue, MainStep,
             FinishProducing, WritersJoined, MainEnds, OperatorInterrupt, SpuriousWakes,
             SpuriousPopWake, SpuriousWriteWake, Stopped, Quiet, vars, workVars, writeVars, countVars
    <2> QED BY <2>1 DEF NoNewPlace, HandlingWorkers, PublishingWriters
  <1>2. CASE ThreadPanics
    <2>1. /\ UNCHANGED <<item, write_queue, reportVars>>
          /\ \A w \in Workers : stage'[w] = stage[w] \/ stage'[w] = "unwind_item"
          /\ \A v \in Writers : \/ writer'[v] = writer[v]
                                 \/ writer'[v].at \in {"unwind_batch", "unwind_work"}
      BY <1>0, <1>2 DEF ThreadPanics, WorkerPanic, WriterPanic, CheckpointPanic, Moves,
             WriterMoves, Quiet, workVars, writeVars, countVars
    <2> QED
      BY <2>1 DEF NoNewPlace, HandlingWorkers, HandlingStages, PublishingWriters, PublishingStages
  <1> QED BY <1>1, <1>2 DEF OtherStep

\* The steps by what they do to the places of blocks.
LEMMA PlaceCases ==
    ASSUME WorkInv, WriteInv, [Next]_vars
    PROVE  \/ NoNewPlace /\ UNCHANGED <<visited, destination>>
           \/ \E w \in Workers : Visit(w)
           \/ \E w \in Workers : Accepts(w)
           \/ \E v \in Writers : Takes(v)
           \/ \E v \in Writers : \E good, bad \in SUBSET JobPlaces(v) : Completes(v, good, bad)
  <1>1. CASE UNCHANGED vars
    BY <1>1 DEF vars, workVars, writeVars, countVars, reportVars, NoNewPlace, HandlingWorkers,
                PublishingWriters
  <1>2. CASE \E w \in Workers : WorkerStep(w)
    BY <1>2, WorkerAddsNoPlace
  <1>3. CASE \E v \in Writers : WriterStep(v)
    BY <1>3, WriterAddsNoPlace
  <1>4. CASE OtherStep
    BY <1>4, OthersAddNoPlace DEF reportVars
  <1> QED BY <1>1, <1>2, <1>3, <1>4 DEF Next, OtherStep

\* The steps that move a block, as changes of the places.
LEMMA VisitEffect ==
    ASSUME WorkInv, NEW w \in Workers, Visit(w)
    PROVE  /\ stage[w] = "visit" /\ Block(w) \in Blocks /\ w \in Holders
           /\ visited' = visited \cup {Block(w)}
           /\ HandlingWorkers' = IF Block(w) \in visited THEN HandlingWorkers
                                                         ELSE HandlingWorkers \cup {w}
           /\ w \notin HandlingWorkers
           /\ \A u \in Workers \ {w} : stage'[u] = stage[u]
           /\ stage'[w] = IF Block(w) \in visited THEN "finish" ELSE "read"
           /\ PublishingWriters' = PublishingWriters
           /\ UNCHANGED <<work_queue, work_shutdown, item, write_queue, writer, tracker,
                          destination, writeVars, signalVars, stop_requested, compactions>>
  <1>1. stage[w] = "visit" /\ w \in Holders
    BY DEF Visit, WorkerMoves, Holders, HoldingStages
  <1>2. Block(w) \in Blocks
    BY <1>1 DEF WorkInv, WorkTypeOK, Items, Block
  <1>3. /\ stage' = [stage EXCEPT ![w] = IF Block(w) \in visited THEN "finish" ELSE "read"]
        /\ visited' = visited \cup {Block(w)}
        /\ UNCHANGED <<work_queue, work_shutdown, item, tracker, destination, writeVars, signalVars,
                       stop_requested, compactions>>
    BY DEF Visit, WorkerMoves, Moves
  <1>4. write_queue' = write_queue /\ writer' = writer
    BY <1>3 DEF writeVars, countVars
  <1>5. stage \in [Workers -> HoldingStages \cup FreeStages]
    BY DEF WorkInv, WorkTypeOK
  <1>6. HandlingWorkers' = IF Block(w) \in visited THEN HandlingWorkers
                                                    ELSE HandlingWorkers \cup {w}
    BY <1>1, <1>3, <1>5 DEF HandlingWorkers, HandlingStages
  <1>7. PublishingWriters' = PublishingWriters
    BY <1>4 DEF PublishingWriters
  <1>8. w \notin HandlingWorkers
    BY <1>1 DEF HandlingWorkers, HandlingStages
  <1>9. /\ \A u \in Workers \ {w} : stage'[u] = stage[u]
        /\ stage'[w] = IF Block(w) \in visited THEN "finish" ELSE "read"
    BY <1>3, <1>5
  <1> QED BY <1>1, <1>2, <1>3, <1>4, <1>6, <1>7, <1>8, <1>9

\* enqueue accepted a worker's block.
LEMMA AcceptsEffect ==
    ASSUME WorkInv, WriteInv, NEW w \in Workers, Accepts(w)
    PROVE  /\ w \in HandlingWorkers /\ stage[w] = "enqueue_write" /\ Block(w) \in Blocks
           /\ ~stop_requested /\ ~write_shutdown
           /\ HandlingWorkers' = HandlingWorkers \ {w}
           /\ \A u \in Workers \ {w} : stage'[u] = stage[u]
           /\ stage'[w] = "finish"
           /\ Len(write_queue) \in Nat
           /\ QueuePlaces' = QueuePlaces \cup {Len(write_queue) + 1}
           /\ \A i \in QueuePlaces : i <= Len(write_queue) /\ write_queue'[i] = write_queue[i]
           /\ write_queue'[Len(write_queue) + 1] = Block(w)
           /\ PublishingWriters' = PublishingWriters
           /\ UNCHANGED <<work_queue, work_shutdown, item, writer, visited, tracker, destination,
                          signalVars, stop_requested, compactions, write_shutdown,
                          producers_finished, main, active_writes,
                          copied_block_count, skipped_already_present_block_count>>
  <1>1. stage[w] = "enqueue_write" /\ w \in HandlingWorkers
    BY DEF Accepts, EnqueueStep, HandlingWorkers, HandlingStages
  <1>2. Block(w) \in Blocks
    BY <1>1, PlacesHoldBlocks
  <1>3. write_queue \in Seq(Blocks) /\ Len(write_queue) \in Nat
    BY DEF WriteInv, WriteControlTypeOK
  <1>4. write_queue' = Append(write_queue, Block(w))
    BY DEF Accepts, EnqueueAccepted
  <1>5. /\ QueuePlaces' = 1..(Len(write_queue) + 1)
        /\ \A i \in QueuePlaces : i <= Len(write_queue) /\ write_queue'[i] = write_queue[i]
        /\ write_queue'[Len(write_queue) + 1] = Block(w)
    BY <1>2, <1>3, <1>4 DEF QueuePlaces
  <1>6. QueuePlaces' = QueuePlaces \cup {Len(write_queue) + 1}
    BY <1>3, <1>5 DEF QueuePlaces
  <1>7. stage \in [Workers -> HoldingStages \cup FreeStages] /\ stage' = [stage EXCEPT ![w] = "finish"]
    BY DEF WorkInv, WorkTypeOK, Accepts, EnqueueStep, Moves
  <1>8. HandlingWorkers' = HandlingWorkers \ {w}
    BY <1>7 DEF HandlingWorkers, HandlingStages
  <1>9. PublishingWriters' = PublishingWriters
    BY DEF Accepts, EnqueueAccepted, PublishingWriters
  <1>10. /\ \A u \in Workers \ {w} : stage'[u] = stage[u]
         /\ stage'[w] = "finish"
    BY <1>7
  <1> QED
    BY <1>1, <1>2, <1>3, <1>5, <1>6, <1>8, <1>9, <1>10 DEF Accepts, EnqueueStep, EnqueueAccepted

\* next_action gave a writer the first blocks of the queue.
LEMMA TakesEffect ==
    ASSUME WorkInv, WriteInv, OutcomeTypeOK, NEW v \in Writers, Takes(v)
    PROVE  \E n \in QueuePlaces :
              /\ v \notin PublishingWriters
              /\ PublishingWriters' = PublishingWriters \cup {v}
              /\ \A u \in Writers \ {v} : writer'[u] = writer[u]
              /\ JobPlaces(v)' = 1..n
              /\ \A i \in 1..n : i \in QueuePlaces /\ writer'[v].jobs[i] = write_queue[i]
              /\ Len(write_queue) \in Nat
              /\ QueuePlaces' = 1..(Len(write_queue) - n)
              /\ \A i \in QueuePlaces' : /\ n + i \in QueuePlaces /\ n + i \notin 1..n
                                         /\ write_queue'[i] = write_queue[n + i]
              /\ HandlingWorkers' = HandlingWorkers
              /\ UNCHANGED <<workVars, reportVars, signalVars, compactions, stop_requested, main,
                             flagVars>>
  <1>1. PICK n \in 1..Len(write_queue) :
           /\ writer' = [writer EXCEPT ![v] = [at |-> "publish", jobs |-> Prefix(n)]]
           /\ write_queue' = SubSeq(write_queue, n + 1, Len(write_queue))
    BY DEF Takes, TakeBatch
  <1>2. /\ write_queue \in Seq(Blocks) /\ Len(write_queue) \in Nat /\ n \in Nat /\ n \in QueuePlaces
        /\ writer \in [Writers -> [at : WriterStages, jobs : Seq(Blocks)]]
    BY <1>1 DEF WriteInv, WriteControlTypeOK, QueuePlaces
  <1>3. Len(Prefix(n)) = n /\ \A i \in 1..n : Prefix(n)[i] = write_queue[i]
    BY <1>2 DEF Prefix, QueuePlaces
  <1>4. /\ Len(write_queue') = Len(write_queue) - n
        /\ \A i \in 1..(Len(write_queue) - n) : write_queue'[i] = write_queue[n + i]
    BY <1>1, <1>2 DEF QueuePlaces
  <1>5. writer[v].at = "next_action"
    BY DEF Takes, TakeBatch, InNextAction
  <1>6. v \notin PublishingWriters /\ PublishingWriters' = PublishingWriters \cup {v}
    BY <1>1, <1>2, <1>5 DEF PublishingWriters, PublishingStages
  <1>7. /\ \A u \in Writers \ {v} : writer'[u] = writer[u]
        /\ writer'[v].jobs = Prefix(n)
    BY <1>1, <1>2
  <1>8. JobPlaces(v)' = 1..n
    BY <1>3, <1>7 DEF JobPlaces
  <1>9. QueuePlaces' = 1..(Len(write_queue) - n)
    BY <1>4 DEF QueuePlaces
  <1>10. \A i \in 1..(Len(write_queue) - n) : n + i \in QueuePlaces /\ n + i \notin 1..n
    BY <1>2 DEF QueuePlaces
  <1>11. \A i \in 1..n : i \in QueuePlaces
    BY <1>2 DEF QueuePlaces
  <1>12. UNCHANGED <<workVars, reportVars, signalVars, stop_requested, main, flagVars>>
    BY DEF Takes, WriterActs, TakeBatch
  <1>13. compactions' = compactions
    <2>1. writer'[v].at = "publish"
      BY <1>1, <1>2
    <2>2. compactions' = compactions + 0
      BY <2>1 DEF Takes, WriterActs
    <2> QED BY <2>2 DEF OutcomeTypeOK
  <1>14. HandlingWorkers' = HandlingWorkers
    BY <1>12 DEF HandlingWorkers, workVars
  <1> QED BY <1>2, <1>3, <1>4, <1>6, <1>7, <1>8, <1>9, <1>10, <1>11, <1>12, <1>13, <1>14

\* A writer recorded the outcome of its batch.
LEMMA CompletesEffect ==
    ASSUME WorkInv, WriteInv, NEW v \in Writers, NEW good \in SUBSET JobPlaces(v),
           NEW bad \in SUBSET JobPlaces(v), Completes(v, good, bad)
    PROVE  /\ v \in PublishingWriters
           /\ PublishingWriters' = PublishingWriters \ {v}
           /\ \A u \in Writers \ {v} : writer'[u] = writer[u]
           /\ writer'[v].at = "complete" /\ writer'[v].jobs = writer[v].jobs
           /\ QueuePlaces' = QueuePlaces /\ HandlingWorkers' = HandlingWorkers
           /\ good \cup bad = JobPlaces(v) /\ good \cap bad = {}
           /\ destination' = destination \cup {writer[v].jobs[i] : i \in good}
           /\ tracker' = RecordEach(tracker, {writer[v].jobs[i] : i \in bad}, "WriteDestinationBlock")
           /\ copied_block_count' = copied_block_count + (IF BlindWrite THEN 0 ELSE Cardinality(good))
           /\ UNCHANGED <<workVars, write_queue, flagVars, main, visited, signalVars, compactions,
                          stop_requested, skipped_already_present_block_count,
                          attempted_write_block_count>>
  <1>1. writer \in [Writers -> [at : WriterStages, jobs : Seq(Blocks)]]
    BY DEF WriteInv, WriteControlTypeOK
  <1>2. writer[v].at \in PublishingStages /\ writer' = [writer EXCEPT ![v].at = "complete"]
    BY DEF Completes, WriterMoves
  <1>3. /\ v \in PublishingWriters
        /\ PublishingWriters' = PublishingWriters \ {v}
    BY <1>1, <1>2 DEF PublishingWriters, PublishingStages
  <1>4. /\ \A u \in Writers \ {v} : writer'[u] = writer[u]
        /\ writer'[v].at = "complete" /\ writer'[v].jobs = writer[v].jobs
    BY <1>1, <1>2
  <1>5. UNCHANGED <<PublishUnchanged, Quiet>>
    BY DEF Completes
  <1>6. UNCHANGED <<workVars, write_queue, flagVars, main, signalVars, compactions, stop_requested>>
    BY <1>5 DEF PublishUnchanged, Quiet, countVars
  <1>7. QueuePlaces' = QueuePlaces /\ HandlingWorkers' = HandlingWorkers
    BY <1>6 DEF QueuePlaces, HandlingWorkers, workVars
  <1> QED BY <1>3, <1>4, <1>6, <1>7 DEF Completes, RecordCompletions

-----------------------------------------------------------------------------
(* The places. *)

\* A step that moves no block keeps the blocks in one place.
LEMMA PlacesKept ==
    ASSUME CopyInv, NoNewPlace, visited \subseteq visited', destination' = destination
    PROVE  OnePlace' /\ HandledIsUnfinished'
  <1>1. QueuePlaces' \subseteq QueuePlaces /\ \A i \in QueuePlaces' : write_queue'[i] = write_queue[i]
    BY DEF NoNewPlace, QueuePlaces
  <1>2. \A v \in PublishingWriters' : JobPlaces(v)' = JobPlaces(v)
    BY DEF NoNewPlace, JobPlaces
  <1>3. \A w \in HandlingWorkers' : w \in HandlingWorkers /\ Block(w)' = Block(w)
    BY DEF NoNewPlace, Block
  <1>4. OnePlace'
    BY <1>1, <1>2, <1>3 DEF CopyInv, NoNewPlace, OnePlace
  <1>5. HandledIsUnfinished'
    BY <1>1, <1>2, <1>3 DEF CopyInv, NoNewPlace, HandledIsUnfinished, Unfinished
  <1> QED BY <1>4, <1>5

\* Every step keeps each block in at most one place, and unfinished there.
LEMMA PlacesStep ==
    ASSUME CopyInv, [Next]_vars
    PROVE  OnePlace' /\ HandledIsUnfinished'
  <1> USE DEF CopyInv
  <1>1. CASE NoNewPlace /\ UNCHANGED <<visited, destination>>
    BY <1>1, PlacesKept
  <1>2. ASSUME NEW w \in Workers, Visit(w) PROVE OnePlace' /\ HandledIsUnfinished'
    <2>1. /\ Block(w) \in Blocks
          /\ visited' = visited \cup {Block(w)}
          /\ HandlingWorkers' = IF Block(w) \in visited THEN HandlingWorkers
                                                        ELSE HandlingWorkers \cup {w}
          /\ PublishingWriters' = PublishingWriters
          /\ UNCHANGED <<item, write_queue, writer, destination>>
      BY <1>2, VisitEffect
    <2>2. /\ QueuePlaces' = QueuePlaces /\ \A v : JobPlaces(v)' = JobPlaces(v)
          /\ \A u : Block(u)' = Block(u)
      BY <2>1 DEF QueuePlaces, JobPlaces, Block
    <2>3. OnePlace'
      BY <2>1, <2>2 DEF OnePlace, HandledIsUnfinished, Unfinished
    <2>4. HandledIsUnfinished'
      BY <2>1, <2>2 DEF HandledIsUnfinished, Unfinished
    <2> QED BY <2>3, <2>4
  <1>3. ASSUME NEW w \in Workers, Accepts(w) PROVE OnePlace' /\ HandledIsUnfinished'
    <2>1. /\ w \in HandlingWorkers
          /\ HandlingWorkers' = HandlingWorkers \ {w}
          /\ QueuePlaces' = QueuePlaces \cup {Len(write_queue) + 1}
          /\ \A i \in QueuePlaces : write_queue'[i] = write_queue[i]
          /\ write_queue'[Len(write_queue) + 1] = Block(w)
          /\ PublishingWriters' = PublishingWriters
          /\ UNCHANGED <<item, writer, visited, destination>>
      BY <1>3, AcceptsEffect
    <2>2. /\ \A v : JobPlaces(v)' = JobPlaces(v)
          /\ \A u : Block(u)' = Block(u)
      BY <2>1 DEF JobPlaces, Block
    <2>3. OnePlace'
      BY <2>1, <2>2 DEF OnePlace
    <2>4. HandledIsUnfinished'
      BY <2>1, <2>2 DEF HandledIsUnfinished, Unfinished
    <2> QED BY <2>3, <2>4
  <1>4. ASSUME NEW v \in Writers, Takes(v) PROVE OnePlace' /\ HandledIsUnfinished'
    <2>1. PICK n \in QueuePlaces :
              /\ v \notin PublishingWriters
              /\ PublishingWriters' = PublishingWriters \cup {v}
              /\ \A u \in Writers \ {v} : writer'[u] = writer[u]
              /\ JobPlaces(v)' = 1..n
              /\ \A i \in 1..n : i \in QueuePlaces /\ writer'[v].jobs[i] = write_queue[i]
              /\ Len(write_queue) \in Nat
              /\ QueuePlaces' = 1..(Len(write_queue) - n)
              /\ \A i \in QueuePlaces' : /\ n + i \in QueuePlaces /\ n + i \notin 1..n
                                         /\ write_queue'[i] = write_queue[n + i]
              /\ HandlingWorkers' = HandlingWorkers
              /\ UNCHANGED <<workVars, reportVars, signalVars, compactions, stop_requested, main,
                             flagVars>>
      BY <1>4, TakesEffect
    <2>2. /\ \A u \in Writers \ {v} : JobPlaces(u)' = JobPlaces(u)
          /\ \A u : Block(u)' = Block(u)
          /\ visited' = visited /\ destination' = destination
          /\ PublishingWriters \subseteq Writers \ {v}
      BY <2>1 DEF JobPlaces, Block, workVars, reportVars, PublishingWriters
    <2>3. n \in Nat
      BY <2>1 DEF QueuePlaces
    <2>4. \A i, j \in QueuePlaces' : i \in Nat /\ j \in Nat /\ (n + i = n + j => i = j)
      BY <2>1, <2>3
    <2>5. OnePlace'
      <3>1. /\ \A u, w \in HandlingWorkers' : Block(u)' = Block(w)' => u = w
            /\ \A w \in HandlingWorkers' : \A i \in QueuePlaces' : Block(w)' # write_queue'[i]
        BY <2>1, <2>2 DEF OnePlace
      <3>2. \A i, j \in QueuePlaces' : write_queue'[i] = write_queue'[j] => i = j
        <4> SUFFICES ASSUME NEW i \in QueuePlaces', NEW j \in QueuePlaces',
                            write_queue'[i] = write_queue'[j]
                     PROVE  i = j
          OBVIOUS
        <4>1. write_queue[n + i] = write_queue[n + j] /\ n + i \in QueuePlaces /\ n + j \in QueuePlaces
          BY <2>1
        <4>2. n + i = n + j
          BY <4>1 DEF OnePlace
        <4> QED BY <2>4, <4>2
      <3>3. \A t, u \in PublishingWriters' : \A i \in JobPlaces(t)', j \in JobPlaces(u)' :
               writer'[t].jobs[i] = writer'[u].jobs[j] => t = u /\ i = j
        <4> SUFFICES ASSUME NEW t \in PublishingWriters', NEW u \in PublishingWriters',
                            NEW i \in JobPlaces(t)', NEW j \in JobPlaces(u)',
                            writer'[t].jobs[i] = writer'[u].jobs[j]
                     PROVE  t = u /\ i = j
          OBVIOUS
        <4>1. CASE t # v /\ u # v
          BY <2>1, <2>2, <4>1 DEF OnePlace
        <4>2. CASE t = v /\ u # v
          BY <2>1, <2>2, <4>2 DEF OnePlace
        <4>3. CASE t # v /\ u = v
          BY <2>1, <2>2, <4>3 DEF OnePlace
        <4>4. CASE t = v /\ u = v
          BY <2>1, <4>4 DEF OnePlace
        <4> QED BY <4>1, <4>2, <4>3, <4>4
      <3>4. \A w \in HandlingWorkers' : \A u \in PublishingWriters' : \A i \in JobPlaces(u)' :
               Block(w)' # writer'[u].jobs[i]
        <4> SUFFICES ASSUME NEW w \in HandlingWorkers', NEW u \in PublishingWriters',
                            NEW i \in JobPlaces(u)'
                     PROVE  Block(w)' # writer'[u].jobs[i]
          OBVIOUS
        <4>1. CASE u # v
          BY <2>1, <2>2, <4>1 DEF OnePlace
        <4>2. CASE u = v
          BY <2>1, <2>2, <4>2 DEF OnePlace
        <4> QED BY <4>1, <4>2
      <3>5. \A i \in QueuePlaces' : \A u \in PublishingWriters' : \A j \in JobPlaces(u)' :
               write_queue'[i] # writer'[u].jobs[j]
        <4> SUFFICES ASSUME NEW i \in QueuePlaces', NEW u \in PublishingWriters',
                            NEW j \in JobPlaces(u)'
                     PROVE  write_queue'[i] # writer'[u].jobs[j]
          OBVIOUS
        <4>1. CASE u # v
          BY <2>1, <2>2, <4>1 DEF OnePlace
        <4>2. CASE u = v
          <5>1. /\ write_queue'[i] = write_queue[n + i] /\ n + i \in QueuePlaces /\ n + i \notin 1..n
                /\ writer'[u].jobs[j] = write_queue[j] /\ j \in QueuePlaces /\ j \in 1..n
            BY <2>1, <4>2
          <5>2. n + i # j
            BY <5>1
          <5> QED BY <5>1, <5>2 DEF OnePlace
        <4> QED BY <4>1, <4>2
      <3> QED BY <3>1, <3>2, <3>3, <3>4, <3>5 DEF OnePlace
    <2>6. HandledIsUnfinished'
      <3>1. \A i \in QueuePlaces' : Unfinished(write_queue'[i])
        BY <2>1 DEF HandledIsUnfinished
      <3>2. ASSUME NEW u \in PublishingWriters', NEW i \in JobPlaces(u)'
            PROVE  Unfinished(writer'[u].jobs[i])
        <4>1. CASE u = v
          BY <2>1, <4>1 DEF HandledIsUnfinished
        <4>2. CASE u # v
          BY <2>1, <2>2, <4>2 DEF HandledIsUnfinished
        <4> QED BY <4>1, <4>2
      <3>3. \A w \in HandlingWorkers' : Unfinished(Block(w)')
        BY <2>1, <2>2 DEF HandledIsUnfinished
      <3> QED BY <2>2, <3>1, <3>2, <3>3 DEF HandledIsUnfinished, Unfinished
    <2> QED BY <2>5, <2>6
  <1>5. ASSUME NEW v \in Writers, NEW good \in SUBSET JobPlaces(v), NEW bad \in SUBSET JobPlaces(v),
               Completes(v, good, bad)
        PROVE  OnePlace' /\ HandledIsUnfinished'
    <2>1. /\ v \in PublishingWriters
          /\ PublishingWriters' = PublishingWriters \ {v}
          /\ \A u \in Writers \ {v} : writer'[u] = writer[u]
          /\ QueuePlaces' = QueuePlaces /\ HandlingWorkers' = HandlingWorkers
          /\ destination' = destination \cup {writer[v].jobs[i] : i \in good}
          /\ UNCHANGED <<workVars, write_queue, visited>>
      BY <1>5, CompletesEffect
    <2>2. /\ \A u \in PublishingWriters' : JobPlaces(u)' = JobPlaces(u) /\ writer'[u] = writer[u]
          /\ \A u : Block(u)' = Block(u)
      BY <2>1 DEF JobPlaces, Block, workVars, PublishingWriters
    <2>3. OnePlace'
      BY <2>1, <2>2 DEF OnePlace
    <2>4. /\ \A i \in good, w \in HandlingWorkers : Block(w) # writer[v].jobs[i]
          /\ \A i \in good, j \in QueuePlaces : write_queue[j] # writer[v].jobs[i]
          /\ \A i \in good : \A u \in PublishingWriters' : \A j \in JobPlaces(u) :
                writer[u].jobs[j] # writer[v].jobs[i]
          /\ \A i \in good : writer[v].jobs[i] \in visited
      BY <2>1 DEF OnePlace, HandledIsUnfinished, Unfinished
    <2>5. HandledIsUnfinished'
      BY <2>1, <2>2, <2>4 DEF HandledIsUnfinished, Unfinished
    <2> QED BY <2>3, <2>5
  <1> QED BY <1>1, <1>2, <1>3, <1>4, <1>5, PlaceCases

-----------------------------------------------------------------------------
(* What only ever grows. *)

\* The steps that change the failure tracker.
LEMMA TrackerCases ==
    ASSUME WorkInv, WriteInv, [Next]_vars
    PROVE  \/ tracker' = tracker
           \/ \E w \in Workers : NoteRoot(w) \/ ReadFails(w) \/ ReadAndDecode(w) \/ CheckFails(w)
           \/ \E v \in Writers : \E good, bad \in SUBSET JobPlaces(v) : Completes(v, good, bad)
           \/ \E v \in Writers :
                 /\ CheckpointError(v)
                 /\ tracker' = RecordStoreFailure(tracker, Roots, "CompactDestinationStore")
                 /\ UNCHANGED <<Quiet, visited, destination, copied_block_count,
                                skipped_already_present_block_count, attempted_write_block_count>>
  <1>1. CASE UNCHANGED vars
    BY <1>1 DEF vars, reportVars
  <1>2. CASE \E w \in Workers : WorkerStep(w)
    BY <1>2 DEF WorkerStep, WorkerPops, Visit, CheckStop, PushChildren, DestinationStopped,
                AlreadyPresent, Submit, EnqueueWrite, EnqueueStep, WorkerFinishes, WorkerUnwinds,
                reportVars
  <1>3. CASE \E v \in Writers : WriterStep(v)
    <2>1. PICK v \in Writers : WriterStep(v)
      BY <1>3
    <2>2. CASE WriterPublishes(v)
      BY <2>2, PublishCases DEF reportVars
    <2>3. CASE WriterActs(v) \/ WriterCompletes(v) \/ WriterUnwinds(v)
      BY <2>3 DEF WriterActs, WriterCompletes, WriterUnwinds, reportVars
    <2>4. CASE WriterCheckpoints(v)
      BY <2>4 DEF WriterCheckpoints, reportVars
    <2> QED BY <2>1, <2>2, <2>3, <2>4 DEF WriterStep
  <1>4. CASE OtherStep
    BY <1>4, OthersAddNoPlace DEF reportVars
  <1> QED BY <1>1, <1>2, <1>3, <1>4 DEF Next, OtherStep

\* A stop request and a panic are never taken back.
LEMMA WorkersStayPanicked ==
    ASSUME WorkInv, [Next]_vars, NEW w \in Workers, stage[w] \in PanicStages
    PROVE  stage'[w] \in PanicStages
  <1>0. stage \in [Workers -> HoldingStages \cup FreeStages]
    BY DEF WorkInv, WorkTypeOK
  <1>1. [WorkQueueNext]_<<workVars, stop_requested>>
    BY NextIsWorkStep
  <1> SUFFICES ASSUME ~(UNCHANGED stage) PROVE stage'[w] \in PanicStages
    OBVIOUS
  <1>2. WorkQueueNext
    BY <1>1 DEF workVars
  <1>3. CASE \E u \in Workers : u # w /\ \E s : Moves(u, s)
    BY <1>0, <1>3 DEF Moves
  <1>4. CASE \E u \in Workers : WorkerStep(u)
    <2>1. PICK u \in Workers : WorkerStep(u)
      BY <1>4
    <2>2. CASE u # w
      <3>1. \E s : Moves(u, s)
        BY <2>1 DEF WorkerStep, WorkerPops, Pop, PopStopped, PopItem, PopExhausted, PopWaits, NoteRoot,
               Visit, ReadFails, ReadAndDecode, CheckStop, PushChildren, EnqueueChildren,
               DestinationStopped, AlreadyPresent, CheckFails, Submit, EnqueueWrite, EnqueueStep,
               WorkerFinishes, FinishItem, WorkerUnwinds, UnwindItem, WorkerMoves
      <3> QED BY <1>3, <2>2, <3>1
    <2>3. CASE u = w
      BY <1>0, <2>1, <2>3 DEF WorkerStep, WorkerPops, Pop, PopStopped, PopItem, PopExhausted, PopWaits, NoteRoot,
               Visit, ReadFails, ReadAndDecode, CheckStop, PushChildren, EnqueueChildren, InPop,
               DestinationStopped, AlreadyPresent, CheckFails, Submit, EnqueueWrite, EnqueueStep,
               WorkerFinishes, FinishItem, WorkerUnwinds, UnwindItem, WorkerMoves, Moves, PanicStages
    <2> QED BY <2>2, <2>3
  <1>5. CASE \E v \in Writers : WriterStep(v)
    BY <1>5 DEF WriterStep, WriterActs, WriterPublishes, WriterCompletes, WriterCheckpoints,
                WriterUnwinds, Quiet, workVars
  <1>6. CASE OtherStep
    BY <1>0, <1>6 DEF OtherStep, PollerStep, MainStep, OperatorInterrupt, ThreadPanics, WorkerPanic,
                SpuriousWakes, SpuriousPopWake, Stopped, Quiet, vars, workVars, Moves, PanicStages
  <1> QED BY <1>4, <1>5, <1>6 DEF Next, OtherStep, vars, workVars

\* A writer that panicked stays so.
LEMMA WritersStayPanicked ==
    ASSUME WriteInv, WorkInv, [Next]_vars, NEW v \in Writers, writer[v].at \in WriterPanicStages
    PROVE  writer'[v].at \in WriterPanicStages
  <1>0. writer \in [Writers -> [at : WriterStages, jobs : Seq(Blocks)]]
    BY DEF WriteInv, WriteControlTypeOK
  <1>1. [WriteQueueNext]_<<writeVars, stop_requested>>
    BY NextIsWriteStep DEF WorkInv
  <1>2. CASE UNCHANGED writer
    BY <1>2
  <1>3. CASE WriteQueueNext
    <2> USE <1>0, <1>3 DEF WriterPanicStages
    <2>1. CASE \E u \in Writers : NextAction(u)
      BY <2>1 DEF NextAction, InNextAction, TakeBatch, StartCheckpoint, WriterShutdown, WriterWaits,
                  WriterMoves
    <2>2. CASE \E u \in Writers : \/ PublishSingly(u) \/ PublishBatch(u) \/ PublishUnsupported(u)
                                  \/ PublishOneByOne(u) \/ CompleteWriteBatch(u)
      BY <2>2 DEF PublishSingly, PublishBatch, PublishUnsupported, PublishOneByOne,
                  CompleteWriteBatch, ReleaseBatch, WriterMoves
    <2>3. CASE \E u \in Writers : FinishCheckpoint(u) \/ CheckpointError(u) \/ FailCheckpoint(u)
      BY <2>3 DEF FinishCheckpoint, CheckpointError, FailCheckpoint, WriterMoves
    <2>4. CASE \E u \in Writers : \/ WriterPanic(u) \/ CheckpointPanic(u) \/ UnwindBatch(u)
                                  \/ WriterUnwindStep(u)
      <3>1. PICK u \in Writers : \/ WriterPanic(u) \/ CheckpointPanic(u) \/ UnwindBatch(u)
                                 \/ WriterUnwindStep(u)
        BY <2>4
      <3>2. CASE WriterPanic(u) \/ CheckpointPanic(u)
        BY <3>2 DEF WriterPanic, CheckpointPanic, WriterMoves
      <3>3. CASE UnwindBatch(u)
        BY <3>3 DEF UnwindBatch, ReleaseBatch
      <3>4. CASE WriterUnwindStep(u)
        BY <3>4 DEF WriterUnwindStep, WriterMoves
      <3> QED BY <3>1, <3>2, <3>3, <3>4
    <2>5. CASE UNCHANGED writer
      BY <2>5
    <2> QED
      BY <2>1, <2>2, <2>3, <2>4, <2>5
      DEF WriteQueueNext, EnqueueRejected, EnqueueWaits, EnqueueAccepted, SpuriousWriteWake,
          FinishProducing, WritersJoined, MainEnds, WriteStopStored, writeVars
  <1> QED BY <1>1, <1>2, <1>3 DEF writeVars

\* The stop flag and the interrupt latch are never reset.
LEMMA SignalsStay ==
    ASSUME WriteInv, WorkInv, [Next]_vars
    PROVE  /\ stop_requested => stop_requested'
           /\ interrupted => interrupted'
  <1>1. [WorkQueueNext]_<<workVars, stop_requested>>
    BY NextIsWorkStep
  <1>2. stop_requested => stop_requested'
    BY <1>1 DEF WorkQueueNext, Pop, PopStopped, PopItem, PopExhausted, PopWaits, SpuriousPopWake,
           EnqueueChildren, FinishItem, WorkerPanic, UnwindItem, BusyStep, RequestWorkShutdown,
           StopStored
  <1>3. interrupted => interrupted'
    <2>1. CASE \E w \in Workers : WorkerStep(w)
      BY <2>1 DEF WorkerStep, WorkerPops, NoteRoot,
               Visit, ReadFails, ReadAndDecode, CheckStop, PushChildren,
               DestinationStopped, AlreadyPresent, CheckFails, Submit, EnqueueWrite, EnqueueStep,
               WorkerFinishes, WorkerUnwinds, WorkerMoves, signalVars
    <2>2. CASE \E v \in Writers : WriterStep(v)
      BY <2>2 DEF WriterStep, WriterActs, WriterPublishes, WriterCompletes, WriterCheckpoints,
                WriterUnwinds, Quiet, signalVars
    <2>3. CASE OtherStep
      BY <2>3 DEF OtherStep, PollerStep, MainStep, OperatorInterrupt, ThreadPanics, 
                SpuriousWakes, Stopped, Quiet, vars, signalVars
    <2> QED BY <2>1, <2>2, <2>3 DEF Next, OtherStep, vars, signalVars
  <1> QED BY <1>2, <1>3

\* Each operation of the tracker only adds to it.
LEMMA TrackerGrows ==
    ASSUME WorkInv, WriteInv, OutcomeTypeOK, [Next]_vars
    PROVE  /\ tracker' \in Trackers
           /\ FailedIds(tracker) \subseteq FailedIds(tracker')
           /\ \A b \in Blocks : tracker.block_roots[b] \subseteq tracker'.block_roots[b]
           /\ \A b \in Blocks, o \in Operations :
                 /\ TimesRecorded(tracker, b, o) \in Nat /\ TimesRecorded(tracker', b, o) \in Nat
                 /\ TimesRecorded(tracker, b, o) <= TimesRecorded(tracker', b, o)
  <1>0. tracker \in Trackers
    BY DEF OutcomeTypeOK
  <1> DEFINE Grows(t, u) ==
               /\ u \in Trackers
               /\ FailedIds(t) \subseteq FailedIds(u)
               /\ \A b \in Blocks : t.block_roots[b] \subseteq u.block_roots[b]
               /\ \A b \in Blocks, o \in Operations :
                     /\ TimesRecorded(t, b, o) \in Nat /\ TimesRecorded(u, b, o) \in Nat
                     /\ TimesRecorded(t, b, o) <= TimesRecorded(u, b, o)
  <1>1. ASSUME NEW t \in Trackers, NEW blocks \in SUBSET Blocks, NEW o \in Operations
        PROVE  Grows(t, RecordEach(t, blocks, o))
    <2>1. PICK u : u = RecordEach(t, blocks, o)
      OBVIOUS
    <2>2. u \in Trackers
      BY <2>1, RecordEachKeeps
    <2>3. u.block_roots = t.block_roots
      BY <2>1, RecordEachKeeps
    <2>4. FailedIds(t) \subseteq FailedIds(u)
      BY <2>1, RecordEachFacts
    <2>5. \A b \in Blocks, p \in Operations :
             TimesRecorded(u, b, p) = TimesRecorded(t, b, p) + (IF b \in blocks /\ p = o THEN 1 ELSE 0)
      BY <2>1, RecordEachCounts
    <2>6. \A b \in Blocks, p \in Operations : TimesRecorded(t, b, p) \in Nat
      BY CountsType
    <2>7. \A b \in Blocks, p \in Operations :
             TimesRecorded(u, b, p) \in Nat /\ TimesRecorded(t, b, p) <= TimesRecorded(u, b, p)
      BY <2>5, <2>6
    <2> QED BY <2>1, <2>2, <2>3, <2>4, <2>6, <2>7
  <1>2. ASSUME NEW t \in Trackers, NEW b \in Blocks, NEW children \in SUBSET Blocks
        PROVE  Grows(t, RememberChildren(t, b, children))
    <2>1. PICK u : u = RememberChildren(t, b, children)
      OBVIOUS
    <2>2. PICK t1 \in Trackers :
              /\ t1.block_roots = t.block_roots
              /\ u \in Trackers
              /\ u.failure_templates = t.failure_templates
              /\ FailedIds(t) \subseteq FailedIds(u)
              /\ Spreads(t1, u, t.block_roots[b], children)
      BY <2>1, RememberFacts
    <2>3. \A x \in Blocks, o \in Operations : TimesRecorded(u, x, o) = TimesRecorded(t, x, o)
      BY <2>2 DEF TimesRecorded
    <2>4. \A x \in Blocks : t.block_roots[x] \subseteq u.block_roots[x]
      BY <2>2 DEF Spreads
    <2> QED BY <2>1, <2>2, <2>3, <2>4, CountsType
  <1>3. ASSUME NEW t \in Trackers, NEW b \in Blocks, NEW r \in Blocks
        PROVE  Grows(t, NoteBlockRoot(t, r, b))
    <2>1. PICK u : u = NoteBlockRoot(t, r, b)
      OBVIOUS
    <2>2. PICK roots, starts \in SUBSET Blocks :
              /\ u \in Trackers
              /\ u.failure_templates = t.failure_templates
              /\ FailedIds(t) \subseteq FailedIds(u)
              /\ Spreads(t, u, roots, starts)
      BY <2>1, NoteFacts
    <2>3. \A x \in Blocks, o \in Operations : TimesRecorded(u, x, o) = TimesRecorded(t, x, o)
      BY <2>2 DEF TimesRecorded
    <2>4. \A x \in Blocks : t.block_roots[x] \subseteq u.block_roots[x]
      BY <2>2 DEF Spreads
    <2> QED BY <2>1, <2>2, <2>3, <2>4, CountsType
  <1>4. ASSUME NEW t \in Trackers
        PROVE  Grows(t, RecordStoreFailure(t, Roots, "CompactDestinationStore"))
    <2>1. PICK u : u = RecordStoreFailure(t, Roots, "CompactDestinationStore")
      OBVIOUS
    <2>2. u \in Trackers
      BY <2>1, StoreFailureFacts
    <2>3. u.block_roots = t.block_roots
      BY <2>1, StoreFailureFacts
    <2>4. FailedIds(t) \subseteq FailedIds(u)
      BY <2>1, StoreFailureFacts
    <2>5. u.failure_templates = t.failure_templates
      BY <2>1, StoreFailureFacts
    <2>6. \A b \in Blocks, p \in Operations : TimesRecorded(u, b, p) = TimesRecorded(t, b, p)
      BY <2>5 DEF TimesRecorded
    <2>7. \A b \in Blocks, p \in Operations : TimesRecorded(t, b, p) \in Nat
      BY CountsType
    <2> QED BY <2>1, <2>2, <2>3, <2>4, <2>6, <2>7
  <1>5. ASSUME NEW t \in Trackers PROVE Grows(t, t)
    BY CountsType
  <1>6. \A w \in HandlingWorkers : Block(w) \in Blocks
    BY PlacesHoldBlocks
  <1>7. ASSUME NEW t, NEW u \in Trackers, Grows(t, u), NEW x, Grows(u, x) PROVE Grows(t, x)
    BY <1>7
  <1> HIDE DEF Grows
  <1>8. Grows(tracker, tracker')
    <2>1. CASE tracker' = tracker
      BY <1>0, <1>5, <2>1
    <2>2. ASSUME NEW w \in Workers, NoteRoot(w) PROVE Grows(tracker, tracker')
      <3>1. w \in Holders
        BY <2>2 DEF NoteRoot, WorkerMoves, Holders, HoldingStages
      <3>2. Root(w) \in Blocks /\ Block(w) \in Blocks
        BY <3>1 DEF WorkInv, WorkTypeOK, Items, Root, Block
      <3> QED BY <1>0, <1>3, <2>2, <3>2 DEF NoteRoot
    <2>3. ASSUME NEW w \in Workers, ReadFails(w) \/ CheckFails(w) PROVE Grows(tracker, tracker')
      <3>1. w \in HandlingWorkers
        BY <2>3 DEF ReadFails, CheckFails, WorkerMoves, HandlingWorkers, HandlingStages
      <3>2. {Block(w)} \in SUBSET Blocks
        BY <1>6, <3>1
      <3> QED BY <1>0, <1>1, <2>3, <3>2 DEF ReadFails, CheckFails, Record, Operations
    <2>4. ASSUME NEW w \in Workers, ReadAndDecode(w) PROVE Grows(tracker, tracker')
      <3>1. w \in HandlingWorkers
        BY <2>4 DEF ReadAndDecode, WorkerMoves, HandlingWorkers, HandlingStages
      <3>2. Block(w) \in Blocks /\ {Block(w)} \in SUBSET Blocks
        BY <1>6, <3>1
      <3>3. ToSet(Children[Block(w)]) \in SUBSET Blocks
        BY <3>2, GraphAssumption DEF ToSet
      <3>4. PICK t : t = Record(tracker, Block(w), "DecodeSourceBlock")
        OBVIOUS
      <3>5. Grows(tracker, t)
        BY <1>0, <1>1, <3>2, <3>4 DEF Record, Operations
      <3>6. t \in Trackers
        BY <3>5 DEF Grows
      <3>7. CASE tracker' = RememberChildren(tracker, Block(w), ToSet(Children[Block(w)]))
        BY <1>0, <1>2, <3>2, <3>3, <3>7
      <3>8. CASE tracker' = RememberChildren(t, Block(w), {})
        <4>1. Grows(t, tracker')
          BY <1>2, <3>2, <3>6, <3>8
        <4> QED BY <1>7, <3>5, <3>6, <4>1
      <3> QED BY <2>4, <3>4, <3>7, <3>8 DEF ReadAndDecode
    <2>5. ASSUME NEW v \in Writers, NEW good \in SUBSET JobPlaces(v), NEW bad \in SUBSET JobPlaces(v),
                 Completes(v, good, bad)
          PROVE  Grows(tracker, tracker')
      <3>1. {writer[v].jobs[i] : i \in bad} \in SUBSET Blocks
        BY PlacesHoldBlocks
      <3>2. tracker' = RecordEach(tracker, {writer[v].jobs[i] : i \in bad}, "WriteDestinationBlock")
        BY <2>5 DEF Completes, RecordCompletions
      <3> QED BY <1>0, <1>1, <3>1, <3>2 DEF Operations
    <2>6. CASE tracker' = RecordStoreFailure(tracker, Roots, "CompactDestinationStore")
      BY <1>0, <1>4, <2>6
    <2> QED BY <2>1, <2>2, <2>3, <2>4, <2>5, <2>6, TrackerCases
  <1> QED BY <1>8 DEF Grows

\* A copy that is cut short stays so.
LEMMA CutStays ==
    ASSUME WorkInv, WriteInv, OutcomeTypeOK, [Next]_vars
    PROVE  /\ Disturbed => Disturbed'
           /\ Cut => Cut'
  <1>1. DestinationStore \in FailedIds(tracker) => DestinationStore \in FailedIds(tracker)'
    BY TrackerGrows DEF FailedIds
  <1>2. Disturbed => Disturbed'
    BY <1>1, SignalsStay, WorkersStayPanicked, WritersStayPanicked DEF Disturbed
  <1> QED BY <1>2, SignalsStay DEF Cut

\* Every step keeps the types of the report, the counters and the signals.
LEMMA OutcomeTypeStep ==
    ASSUME CopyInv, [Next]_vars
    PROVE  OutcomeTypeOK'
  <1>0. WorkInv /\ WriteInv /\ OutcomeTypeOK
    BY DEF CopyInv
  <1>1. tracker' \in Trackers
    BY <1>0, TrackerGrows
  <1>2. visited' \subseteq Blocks /\ destination' \subseteq Blocks /\ Stored \subseteq destination'
    <2>1. CASE UNCHANGED <<visited, destination>>
      BY <1>0, <2>1 DEF OutcomeTypeOK
    <2>2. ASSUME NEW w \in Workers, Visit(w)
          PROVE  visited' \subseteq Blocks /\ destination' \subseteq Blocks /\ Stored \subseteq destination'
      <3>1. Block(w) \in Blocks /\ visited' = visited \cup {Block(w)} /\ destination' = destination
        BY <1>0, <2>2, VisitEffect
      <3> QED BY <1>0, <3>1 DEF OutcomeTypeOK
    <2>3. ASSUME NEW w \in Workers, Accepts(w) PROVE UNCHANGED <<visited, destination>>
      BY <1>0, <2>3, AcceptsEffect
    <2>4. ASSUME NEW v \in Writers, Takes(v) PROVE UNCHANGED <<visited, destination>>
      BY <2>4 DEF Takes, WriterActs, reportVars
    <2>5. ASSUME NEW v \in Writers, NEW good \in SUBSET JobPlaces(v), NEW bad \in SUBSET JobPlaces(v),
                 Completes(v, good, bad)
          PROVE  visited' \subseteq Blocks /\ destination' \subseteq Blocks /\ Stored \subseteq destination'
      <3>1. /\ visited' = visited
            /\ destination' = destination \cup {writer[v].jobs[i] : i \in good}
        BY <1>0, <2>5, CompletesEffect
      <3>2. {writer[v].jobs[i] : i \in good} \subseteq Blocks
        BY <1>0, PlacesHoldBlocks
      <3> QED BY <1>0, <3>1, <3>2 DEF OutcomeTypeOK
    <2> QED BY <1>0, <2>1, <2>2, <2>3, <2>4, <2>5, PlaceCases
  <1>3. /\ copied_block_count' \in Nat /\ skipped_already_present_block_count' \in Nat
        /\ attempted_write_block_count' \in Nat /\ compactions' \in Nat
        /\ interrupted' \in BOOLEAN
        /\ poller' \in {"polling", "close_work", "close_write", "done"}
    <2> USE <1>0 DEF OutcomeTypeOK, signalVars, reportVars
    <2>1. CASE UNCHANGED vars
      BY <2>1 DEF vars
    <2>2. CASE \E w \in Workers : WorkerStep(w)
      BY <2>2 DEF WorkerStep, WorkerPops, NoteRoot,
               Visit, ReadFails, ReadAndDecode, CheckStop, PushChildren,
               DestinationStopped, AlreadyPresent, CheckFails, Submit, EnqueueWrite, EnqueueStep,
               WorkerFinishes, WorkerUnwinds, WorkerMoves
    <2>3. CASE \E v \in Writers : WriterStep(v)
      <3>1. PICK v \in Writers : WriterStep(v)
        BY <2>3
      <3>2. CASE WriterPublishes(v)
        <4>1. CASE UNCHANGED <<reportVars, Quiet>>
          BY <4>1 DEF Quiet
        <4>2. ASSUME NEW good \in SUBSET JobPlaces(v), NEW bad \in SUBSET JobPlaces(v),
                     Completes(v, good, bad)
              PROVE  copied_block_count' \in Nat
          <5>1. Len(writer[v].jobs) \in Nat
            BY PlacesHoldBlocks
          <5>2. IsFiniteSet(JobPlaces(v))
            BY <5>1, FS_Interval DEF JobPlaces
          <5>3. Cardinality(good) \in Nat
            BY <5>2, FS_Subset, FS_CardinalityType
          <5> QED BY <4>2, <5>3 DEF Completes, RecordCompletions
        <4>3. UNCHANGED <<skipped_already_present_block_count, attempted_write_block_count, Quiet>>
          BY <3>2, PublishCases DEF Completes, RecordCompletions
        <4> QED BY <3>2, <4>1, <4>2, <4>3, PublishCases DEF Quiet
      <3>3. CASE WriterActs(v)
        BY <3>3 DEF WriterActs
      <3>4. CASE WriterCompletes(v) \/ WriterCheckpoints(v) \/ WriterUnwinds(v)
        BY <3>4 DEF WriterCompletes, WriterCheckpoints, WriterUnwinds, Quiet
      <3> QED BY <3>1, <3>2, <3>3, <3>4 DEF WriterStep
    <2>4. CASE OtherStep
      BY <2>4 DEF OtherStep, PollerStep, MainStep, OperatorInterrupt, ThreadPanics,
                SpuriousWakes, Stopped, Quiet, vars
    <2> QED BY <2>1, <2>2, <2>3, <2>4 DEF Next, OtherStep
  <1> QED BY <1>1, <1>2, <1>3 DEF OutcomeTypeOK

-----------------------------------------------------------------------------
(* Why the copy stops, and in which order its threads end. *)

\* Who stores stop_requested.
LEMMA StopCases ==
    ASSUME WorkInv, WriteInv, [Next]_vars, ~stop_requested, stop_requested'
    PROVE  \/ \E w \in Workers : WorkerPanic(w)
           \/ \E v \in Writers : WriterPanic(v) \/ CheckpointPanic(v)
           \/ \E v \in Writers :
                 /\ CheckpointError(v)
                 /\ tracker' = RecordStoreFailure(tracker, Roots, "CompactDestinationStore")
           \/ interrupted'
           \/ WritersJoined
  <1>1. CASE UNCHANGED vars
    BY <1>1 DEF vars
  <1>2. CASE \E w \in Workers : WorkerStep(w)
    <2>1. PICK w \in Workers : WorkerStep(w)
      BY <1>2
    <2>2. CASE \/ NoteRoot(w) \/ Visit(w) \/ ReadFails(w) \/ ReadAndDecode(w) \/ CheckStop(w)
               \/ DestinationStopped(w) \/ AlreadyPresent(w) \/ CheckFails(w) \/ Submit(w)
      BY <2>2 DEF NoteRoot, Visit, ReadFails, ReadAndDecode, CheckStop, DestinationStopped,
                  AlreadyPresent, CheckFails, Submit, WorkerMoves
    <2>3. CASE WorkerPops(w) \/ PushChildren(w) \/ WorkerFinishes(w)
      BY <2>3 DEF WorkerPops, Pop, PopStopped, PopItem, PopExhausted, PopWaits, PushChildren,
                  EnqueueChildren, WorkerFinishes, FinishItem
    <2>4. CASE EnqueueWrite(w)
      BY <2>4 DEF EnqueueWrite, EnqueueRejected, EnqueueAccepted, EnqueueWaits
    <2>5. CASE WorkerUnwinds(w)
      BY <2>5 DEF WorkerUnwinds, UnwindItem, RequestWorkShutdown, RequestWriteShutdown
    <2> QED BY <2>1, <2>2, <2>3, <2>4, <2>5 DEF WorkerStep
  <1>3. CASE \E v \in Writers : WriterStep(v)
    <2>1. PICK v \in Writers : WriterStep(v)
      BY <1>3
    <2>2. CASE WriterActs(v) \/ WriterPublishes(v) \/ WriterCompletes(v)
      BY <2>2 DEF WriterActs, NextAction, TakeBatch, StartCheckpoint, WriterShutdown, WriterWaits,
                  WriterPublishes, PublishSingly, PublishBatch, PublishUnsupported, PublishOneByOne,
                  PublishUnchanged, WriterCompletes, CompleteWriteBatch
    <2>3. CASE WriterCheckpoints(v)
      BY <2>3 DEF WriterCheckpoints, FinishCheckpoint, FailCheckpoint
    <2>4. CASE WriterUnwinds(v)
      BY <2>4 DEF WriterUnwinds, UnwindBatch, WriterUnwindStep, RequestWriteShutdown
    <2> QED BY <2>1, <2>2, <2>3, <2>4 DEF WriterStep
  <1>4. CASE OtherStep
    <2>1. CASE PollerStep
      <3>1. interrupted /\ interrupted' = interrupted
        BY <2>1 DEF PollerStep, RequestWorkShutdown, RequestWriteShutdown
      <3>2. interrupted'
        BY <3>1, Zenon
      <3> QED BY <3>2
    <2>2. CASE MainStep
      BY <2>2 DEF MainStep, FinishProducing, MainEnds
    <2>3. CASE ThreadPanics
      BY <2>3 DEF ThreadPanics
    <2>4. CASE OperatorInterrupt \/ SpuriousWakes \/ Stopped
      BY <2>4 DEF OperatorInterrupt, SpuriousWakes, SpuriousPopWake, SpuriousWriteWake, Stopped, vars
    <2> QED BY <1>4, <2>1, <2>2, <2>3, <2>4 DEF OtherStep
  <1> QED BY <1>1, <1>2, <1>3, <1>4 DEF Next, OtherStep

\* The calling thread only moves on.
LEMMA MainCases ==
    ASSUME WorkInv, WriteInv, [Next]_vars
    PROVE  \/ main' = main
           \/ /\ FinishProducing
              /\ \A w \in Workers : stage[w] \in {"done", "panicked"}
              /\ UNCHANGED <<workVars, reportVars, signalVars, compactions>>
           \/ WritersJoined /\ UNCHANGED <<workVars, reportVars, signalVars, compactions>>
           \/ /\ MainEnds(IF AnyPanicked THEN "panicked" ELSE "returned")
              /\ UNCHANGED <<workVars, reportVars, signalVars, compactions>>
  <1>1. CASE UNCHANGED vars
    BY <1>1 DEF vars, writeVars
  <1>2. CASE \E w \in Workers : WorkerStep(w)
    <2>1. PICK w \in Workers : WorkerStep(w)
      BY <1>2
    <2>2. CASE UNCHANGED writeVars
      BY <2>2 DEF writeVars
    <2>3. CASE EnqueueWrite(w)
      BY <2>3 DEF EnqueueWrite, EnqueueRejected, EnqueueAccepted, EnqueueWaits, writeVars
    <2>4. CASE WorkerUnwinds(w)
      BY <2>4 DEF WorkerUnwinds, RequestWriteShutdown, writeVars
    <2> QED
      BY <2>1, <2>2, <2>3, <2>4 DEF WorkerStep, WorkerPops, NoteRoot, Visit, ReadFails, ReadAndDecode,
                CheckStop, PushChildren, DestinationStopped, AlreadyPresent, CheckFails, Submit,
                WorkerFinishes, WorkerMoves
  <1>3. CASE \E v \in Writers : WriterStep(v)
    BY <1>3 DEF WriterStep, WriterActs, NextAction, TakeBatch, StartCheckpoint, WriterShutdown,
                WriterWaits, WriterPublishes, PublishSingly, PublishBatch, PublishUnsupported,
                PublishOneByOne, PublishUnchanged, WriterCompletes, CompleteWriteBatch,
                WriterCheckpoints, FinishCheckpoint, CheckpointError, FailCheckpoint, WriterUnwinds,
                UnwindBatch, WriterUnwindStep, RequestWriteShutdown
  <1>4. CASE OtherStep
    BY <1>4 DEF OtherStep, PollerStep, RequestWriteShutdown, MainStep, OperatorInterrupt,
           ThreadPanics, WriterPanic, CheckpointPanic, SpuriousWakes, SpuriousWriteWake, Stopped,
           vars, writeVars
  <1> QED BY <1>1, <1>2, <1>3, <1>4 DEF Next, OtherStep

\* Every step keeps a reason for each stop request.
LEMMA StopStep ==
    ASSUME CopyInv, [Next]_vars
    PROVE  StopHasReason'
  <1>0. /\ WorkInv /\ WriteInv /\ OutcomeTypeOK /\ StopHasReason
        /\ stage \in [Workers -> HoldingStages \cup FreeStages]
        /\ writer \in [Writers -> [at : WriterStages, jobs : Seq(Blocks)]]
    BY DEF CopyInv, WorkInv, WorkTypeOK, WriteInv, WriteControlTypeOK
  <1>1. (Disturbed => Disturbed') /\ (Cut => Cut')
    BY <1>0, CutStays
  <1>2. ASSUME NEW w \in Workers, WorkerPanic(w) PROVE Cut'
    <2>1. stop_requested' /\ stage'[w] \in PanicStages
      BY <1>0, <1>2 DEF WorkerPanic, Moves, PanicStages
    <2> QED BY <2>1 DEF Cut, Disturbed
  <1>3. ASSUME NEW v \in Writers, WriterPanic(v) \/ CheckpointPanic(v) PROVE Cut'
    <2>1. stop_requested' /\ writer'[v].at \in WriterPanicStages
      BY <1>0, <1>3 DEF WriterPanic, CheckpointPanic, WriterMoves, WriterPanicStages
    <2> QED BY <2>1 DEF Cut, Disturbed
  <1>4. ASSUME NEW v \in Writers, CheckpointError(v),
               tracker' = RecordStoreFailure(tracker, Roots, "CompactDestinationStore")
        PROVE  Cut'
    <2>1. stop_requested'
      BY <1>4 DEF CheckpointError
    <2>2. tracker \in Trackers
      BY <1>0 DEF OutcomeTypeOK
    <2>3. Roots # {} => DestinationStore \in FailedIds(tracker')
      BY <1>4, <2>2, StoreFailureFacts
    <2>4. FailedIds(tracker') = FailedIds(tracker)'
      BY DEF FailedIds
    <2> QED BY <2>1, <2>3, <2>4 DEF Cut, Disturbed, Roots
  <1>5. stop_requested' /\ main' \in {"join_workers", "join_writers"} => Disturbed'
    <2> SUFFICES ASSUME stop_requested', main' \in {"join_workers", "join_writers"} PROVE Disturbed'
      OBVIOUS
    <2>1. main \in {"join_workers", "join_writers"} /\ ~WritersJoined
      BY <1>0, MainCases DEF FinishProducing, WritersJoined, MainEnds
    <2>2. CASE stop_requested
      BY <1>0, <1>1, <2>1, <2>2 DEF StopHasReason
    <2>3. CASE ~stop_requested
      BY <1>0, <1>2, <1>3, <1>4, <2>1, <2>3, StopCases DEF Cut, Disturbed
    <2> QED BY <2>2, <2>3
  <1>6. poller' \in {"close_work", "close_write"} => Cut'
    <2>1. CASE PollerStep
      <3>1. CASE poller \in {"close_work", "close_write"}
        BY <1>0, <1>1, <3>1 DEF StopHasReason
      <3>2. CASE poller \notin {"close_work", "close_write"}
        BY <2>1, <3>2 DEF PollerStep, Cut, Disturbed
      <3> QED BY <3>1, <3>2
    <2>2. CASE ~PollerStep
      <3>1. poller' = poller
        BY <2>2 DEF Next, WorkerStep, WorkerPops, NoteRoot, Visit, ReadFails, ReadAndDecode, CheckStop,
                PushChildren, DestinationStopped, AlreadyPresent, CheckFails, Submit, EnqueueWrite,
                EnqueueStep, WorkerFinishes, WorkerUnwinds, WorkerMoves, WriterStep, WriterActs,
                WriterPublishes, WriterCompletes, WriterCheckpoints, WriterUnwinds, Quiet, MainStep,
                OperatorInterrupt, ThreadPanics, SpuriousWakes, Stopped, vars, signalVars
      <3> QED BY <1>0, <1>1, <3>1 DEF StopHasReason
    <2> QED BY <2>1, <2>2
  <1>7. ASSUME NEW w \in Workers, stage'[w] \in PanicStages PROVE Cut'
    <2>1. CASE stage[w] \in PanicStages
      BY <1>0, <1>1, <2>1 DEF StopHasReason
    <2>2. CASE stage[w] \notin PanicStages
      <3>1. CASE \E u \in Workers : WorkerStep(u)
        BY <1>0, <1>7, <2>2, <3>1 DEF WorkerStep, WorkerPops, Pop, PopStopped, PopItem, PopExhausted,
               PopWaits, NoteRoot, Visit, ReadFails, ReadAndDecode, CheckStop, PushChildren,
               EnqueueChildren, DestinationStopped, AlreadyPresent, CheckFails, Submit, EnqueueWrite,
               EnqueueStep, WorkerFinishes, FinishItem, WorkerUnwinds, UnwindItem, WorkerMoves, Moves,
               PanicStages
      <3>2. CASE \E v \in Writers : WriterStep(v)
        BY <1>7, <2>2, <3>2 DEF WriterStep, WriterActs, WriterPublishes, WriterCompletes,
               WriterCheckpoints, WriterUnwinds, Quiet, workVars
      <3>3. CASE \E u \in Workers : WorkerPanic(u)
        BY <1>2, <3>3
      <3>4. CASE OtherStep /\ ~\E u \in Workers : WorkerPanic(u)
        BY <1>7, <2>2, <3>4 DEF OtherStep, PollerStep, MainStep, OperatorInterrupt, ThreadPanics,
               SpuriousWakes, SpuriousPopWake, Stopped, Quiet, vars, workVars
      <3> QED BY <1>7, <2>2, <3>1, <3>2, <3>3, <3>4 DEF Next, OtherStep, vars, workVars
    <2> QED BY <2>1, <2>2
  <1>8. ASSUME NEW v \in Writers, writer'[v].at \in WriterPanicStages \cup {"checkpoint_failed"}
        PROVE  Cut'
    <2>1. CASE writer[v].at \in WriterPanicStages \cup {"checkpoint_failed"}
      BY <1>0, <1>1, <2>1 DEF StopHasReason
    <2>2. CASE writer[v].at \notin WriterPanicStages \cup {"checkpoint_failed"}
      <3>1. CASE \E u \in Writers : WriterPanic(u) \/ CheckpointPanic(u)
        BY <1>3, <3>1
      <3>2. CASE \E u \in Writers : WriterCheckpoints(u)
        <4>1. PICK u \in Writers : WriterCheckpoints(u)
          BY <3>2
        <4>2. CASE CheckpointError(u)
          <5>1. writer[u].at = "checkpoint" /\ writer'[u].at = "checkpoint_failed"
            BY <1>0, <4>2 DEF CheckpointError, WriterMoves
          <5>2. ~FinishCheckpoint(u) /\ ~FailCheckpoint(u)
            BY <1>0, <5>1 DEF FinishCheckpoint, FailCheckpoint, WriterMoves
          <5> QED BY <1>4, <4>1, <4>2, <5>2 DEF WriterCheckpoints
        <4>3. CASE ~CheckpointError(u)
          BY <1>0, <1>8, <2>2, <4>1, <4>3 DEF WriterCheckpoints, FinishCheckpoint, FailCheckpoint,
                 WriterMoves, WriterPanicStages
        <4> QED BY <4>2, <4>3
      <3>3. CASE \E u \in Writers : WriterActs(u) \/ WriterPublishes(u) \/ WriterCompletes(u)
        <4>1. CASE \E u \in Writers : WriterActs(u)
          <5>1. PICK u \in Writers : NextAction(u)
            BY <4>1 DEF WriterActs
          <5>2. CASE TakeBatch(u)
            <6>1. \E jobs : writer' = [writer EXCEPT ![u] = [at |-> "publish", jobs |-> jobs]]
              BY <5>2 DEF TakeBatch
            <6> QED BY <1>0, <1>8, <2>2, <6>1 DEF WriterPanicStages
          <5>3. CASE ~TakeBatch(u)
            <6>1. \/ writer' = writer
                  \/ \E to \in {"checkpoint", "done"} : writer' = [writer EXCEPT ![u].at = to]
              BY <5>1, <5>3 DEF NextAction, StartCheckpoint, WriterShutdown, WriterWaits, WriterMoves
            <6>2. writer'[v].at \in {writer[v].at, "checkpoint", "done"}
              BY <1>0, <6>1
            <6> QED BY <1>8, <2>2, <6>2 DEF WriterPanicStages
          <5> QED BY <5>2, <5>3
        <4>2. CASE \E u \in Writers : WriterPublishes(u)
          <5>1. PICK u \in Writers : WriterPublishes(u)
            BY <4>2
          <5>2. \E to \in {"complete", "one_by_one"} : WriterMoves(u, to)
            BY <5>1 DEF WriterPublishes, PublishSingly, PublishBatch, PublishUnsupported,
                   PublishOneByOne
          <5> QED BY <1>0, <1>8, <2>2, <5>2 DEF WriterMoves, WriterPanicStages
        <4>3. CASE \E u \in Writers : WriterCompletes(u)
          BY <1>0, <1>8, <2>2, <4>3 DEF WriterCompletes, CompleteWriteBatch, ReleaseBatch,
                 WriterPanicStages
        <4> QED BY <3>3, <4>1, <4>2, <4>3
      <3>4. CASE \E u \in Writers : WriterUnwinds(u)
        BY <1>0, <1>8, <2>2, <3>4 DEF WriterUnwinds, UnwindBatch, ReleaseBatch, WriterUnwindStep,
               WriterMoves, WriterPanicStages
      <3>5. CASE \E w \in Workers : WorkerStep(w)
        <4>1. writer' = writer
          BY <3>5 DEF WorkerStep, WorkerPops, NoteRoot, Visit, ReadFails, ReadAndDecode, CheckStop,
                 PushChildren, DestinationStopped, AlreadyPresent, CheckFails, Submit, EnqueueWrite,
                 EnqueueRejected, EnqueueAccepted, EnqueueWaits, WorkerFinishes, WorkerUnwinds,
                 WorkerMoves, writeVars
        <4> QED BY <1>8, <2>2, <4>1
      <3>6. CASE OtherStep /\ ~\E u \in Writers : WriterPanic(u) \/ CheckpointPanic(u)
        BY <1>8, <2>2, <3>6 DEF OtherStep, PollerStep, MainStep, FinishProducing, WritersJoined,
               MainEnds, OperatorInterrupt, ThreadPanics, SpuriousWakes, SpuriousWriteWake, Stopped,
               vars, writeVars
      <3> QED
        BY <1>8, <2>2, <3>1, <3>2, <3>3, <3>4, <3>5, <3>6 DEF Next, OtherStep, WriterStep, vars,
           writeVars
    <2> QED BY <2>1, <2>2
  <1> QED BY <1>5, <1>6, <1>7, <1>8 DEF StopHasReason

\* Who closes the write queue.
LEMMA CloseCases ==
    ASSUME CopyInv, [Next]_vars
    PROVE  \/ UNCHANGED <<write_shutdown, producers_finished>>
           \/ Cut
           \/ FinishProducing
           \/ \E v \in Writers : WriterShutdown(v)
  <1>0. StopHasReason
    BY DEF CopyInv
  <1>1. CASE UNCHANGED vars
    BY <1>1 DEF vars, writeVars, flagVars
  <1>2. CASE \E w \in Workers : WorkerStep(w)
    <2>1. PICK w \in Workers : WorkerStep(w)
      BY <1>2
    <2>2. CASE UNCHANGED writeVars
      BY <2>2 DEF writeVars, flagVars
    <2>3. CASE EnqueueWrite(w)
      BY <2>3 DEF EnqueueWrite, EnqueueRejected, EnqueueAccepted, EnqueueWaits, writeVars, flagVars
    <2>4. CASE WorkerUnwinds(w)
      BY <1>0, <2>4 DEF WorkerUnwinds, writeVars, flagVars, StopHasReason, PanicStages
    <2> QED
      BY <2>1, <2>2, <2>3, <2>4 DEF WorkerStep, WorkerPops, NoteRoot, Visit, ReadFails, ReadAndDecode,
                CheckStop, PushChildren, DestinationStopped, AlreadyPresent, CheckFails, Submit,
                WorkerFinishes, WorkerMoves
  <1>3. CASE \E v \in Writers : WriterStep(v)
    <2>1. PICK v \in Writers : WriterStep(v)
      BY <1>3
    <2>2. CASE WriterActs(v)
      BY <2>2 DEF WriterActs, NextAction, TakeBatch, StartCheckpoint, WriterWaits, flagVars
    <2>3. CASE WriterPublishes(v) \/ WriterCompletes(v)
      BY <2>3 DEF WriterPublishes, PublishSingly, PublishBatch, PublishUnsupported,
                PublishOneByOne, PublishUnchanged, WriterCompletes, CompleteWriteBatch, flagVars
    <2>4. CASE WriterCheckpoints(v)
      BY <1>0, <2>4 DEF WriterCheckpoints, FinishCheckpoint, CheckpointError, FailCheckpoint, flagVars,
                StopHasReason
    <2>5. CASE WriterUnwinds(v)
      BY <1>0, <2>5 DEF WriterUnwinds, UnwindBatch, WriterUnwindStep, StopHasReason,
                WriterPanicStages
    <2> QED BY <2>1, <2>2, <2>3, <2>4, <2>5 DEF WriterStep
  <1>4. CASE OtherStep
    <2>1. CASE PollerStep
      BY <1>0, <2>1 DEF PollerStep, writeVars, flagVars, StopHasReason
    <2>2. CASE ~PollerStep
      BY <1>4, <2>2 DEF OtherStep, MainStep, WritersJoined, MainEnds, OperatorInterrupt, ThreadPanics,
           WriterPanic, CheckpointPanic, SpuriousWakes, SpuriousWriteWake, Stopped, vars, writeVars,
           flagVars
    <2> QED BY <2>1, <2>2
  <1> QED BY <1>1, <1>2, <1>3, <1>4 DEF Next, OtherStep

\* A thread that has ended stays where it is.
LEMMA EndedStay ==
    ASSUME WorkInv, WriteInv, [Next]_vars
    PROVE  /\ \A w \in Workers : stage[w] \in {"done", "panicked"} => stage'[w] = stage[w]
           /\ \A v \in Writers : writer[v].at \in {"done", "panicked"} => writer'[v].at = writer[v].at
           /\ \A w \in Workers : stage'[w] = "done" /\ stage[w] # "done" => work_shutdown'
           /\ \A v \in Writers : writer'[v].at = "done" /\ writer[v].at # "done" => WriterShutdown(v)
           /\ work_shutdown => work_shutdown'
           /\ write_shutdown => write_shutdown'
  <1>0. /\ stage \in [Workers -> HoldingStages \cup FreeStages]
        /\ writer \in [Writers -> [at : WriterStages, jobs : Seq(Blocks)]]
    BY DEF WorkInv, WorkTypeOK, WriteInv, WriteControlTypeOK
  <1>1. [WriteQueueNext]_<<writeVars, stop_requested>>
    BY NextIsWriteStep DEF WorkInv
  <1>2. [WorkQueueNext]_<<workVars, stop_requested>>
    BY NextIsWorkStep
  <1>3. work_shutdown => work_shutdown'
    BY <1>2 DEF WorkQueueNext, Pop, PopStopped, PopItem, PopExhausted, PopWaits, SpuriousPopWake,
           EnqueueChildren, FinishItem, WorkerPanic, UnwindItem, BusyStep, RequestWorkShutdown,
           StopStored, workVars
  <1>4. ASSUME NEW v \in Writers
        PROVE  /\ writer[v].at \in {"done", "panicked"} => writer'[v].at = writer[v].at
               /\ writer'[v].at = "done" /\ writer[v].at # "done" => WriterShutdown(v)
    <2>1. CASE UNCHANGED writer
      BY <2>1
    <2>2. ASSUME NEW u \in Writers, NextAction(u)
          PROVE  /\ writer[v].at \in {"done", "panicked"} => writer'[v].at = writer[v].at
                 /\ writer'[v].at = "done" /\ writer[v].at # "done" => WriterShutdown(v)
      <3>1. CASE TakeBatch(u)
        <4>1. \E jobs : writer' = [writer EXCEPT ![u] = [at |-> "publish", jobs |-> jobs]]
          BY <3>1 DEF TakeBatch
        <4> QED BY <1>0, <3>1, <4>1 DEF TakeBatch, InNextAction
      <3>2. CASE StartCheckpoint(u) \/ WriterWaits(u)
        BY <1>0, <3>2 DEF StartCheckpoint, WriterWaits, InNextAction, WriterMoves
      <3>3. CASE WriterShutdown(u)
        <4>1. writer[u].at = "next_action" /\ writer' = [writer EXCEPT ![u].at = "done"]
          BY <3>3 DEF WriterShutdown, InNextAction, WriterMoves
        <4>2. u # v => writer'[v] = writer[v]
          BY <1>0, <4>1
        <4> QED BY <3>3, <4>1, <4>2
      <3> QED BY <2>2, <3>1, <3>2, <3>3 DEF NextAction
    <2>3. CASE \E u \in Writers : \/ PublishSingly(u) \/ PublishBatch(u) \/ PublishUnsupported(u)
                                  \/ PublishOneByOne(u)
      BY <1>0, <2>3 DEF PublishSingly, PublishBatch, PublishUnsupported, PublishOneByOne, WriterMoves
    <2>7. CASE \E u \in Writers : CompleteWriteBatch(u)
      BY <1>0, <2>7 DEF CompleteWriteBatch, ReleaseBatch
    <2>4. CASE \E u \in Writers : FinishCheckpoint(u) \/ CheckpointError(u) \/ FailCheckpoint(u)
      BY <1>0, <2>4 DEF FinishCheckpoint, CheckpointError, FailCheckpoint, WriterMoves
    <2>5. CASE \E u \in Writers : \/ WriterPanic(u) \/ CheckpointPanic(u)
      BY <1>0, <2>5 DEF WriterPanic, CheckpointPanic, WriterMoves
    <2>6. CASE \E u \in Writers : UnwindBatch(u)
      BY <1>0, <2>6 DEF UnwindBatch, ReleaseBatch
    <2>8. CASE \E u \in Writers : WriterUnwindStep(u)
      BY <1>0, <2>8 DEF WriterUnwindStep, WriterMoves
    <2> QED
      BY <1>1, <2>1, <2>2, <2>3, <2>4, <2>5, <2>6, <2>7, <2>8
      DEF WriteQueueNext, EnqueueRejected, EnqueueWaits, EnqueueAccepted, SpuriousWriteWake,
          FinishProducing, WritersJoined, MainEnds, WriteStopStored, writeVars
  <1>5. write_shutdown => write_shutdown'
    BY <1>1 DEF WriteQueueNext, EnqueueRejected, EnqueueWaits, EnqueueAccepted, NextAction, TakeBatch,
           StartCheckpoint, WriterShutdown, WriterWaits, PublishSingly, PublishBatch,
           PublishUnsupported, PublishOneByOne, PublishUnchanged, CompleteWriteBatch,
           FinishCheckpoint, CheckpointError, FailCheckpoint, CloseWriteQueue, WriterPanic,
           CheckpointPanic, UnwindBatch, WriterUnwindStep, RequestWriteShutdown, SpuriousWriteWake,
           FinishProducing, WritersJoined, MainEnds, WriteStopStored, writeVars, flagVars
  <1>6. ASSUME NEW w \in Workers
        PROVE  /\ stage[w] \in {"done", "panicked"} => stage'[w] = stage[w]
               /\ stage'[w] = "done" /\ stage[w] # "done" => work_shutdown'
    <2>1. CASE UNCHANGED stage
      BY <2>1
    <2>2. ASSUME NEW u \in Workers, WorkerStep(u)
          PROVE  /\ stage[w] \in {"done", "panicked"} => stage'[w] = stage[w]
                 /\ stage'[w] = "done" /\ stage[w] # "done" => work_shutdown'
      <3>1. CASE WorkerPops(u)
        BY <1>0, <3>1 DEF WorkerPops, Pop, PopStopped, PopItem, PopExhausted, PopWaits, InPop, Moves
      <3>2. CASE ~WorkerPops(u)
        BY <1>0, <2>2, <3>2 DEF WorkerStep, NoteRoot, Visit, ReadFails, ReadAndDecode, CheckStop,
               PushChildren, EnqueueChildren, DestinationStopped, AlreadyPresent, CheckFails, Submit,
               EnqueueWrite, EnqueueStep, WorkerFinishes, FinishItem, WorkerUnwinds, UnwindItem,
               WorkerMoves, Moves
      <3> QED BY <3>1, <3>2
    <2>3. CASE \E v \in Writers : WriterStep(v)
      BY <2>1, <2>3 DEF WriterStep, WriterActs, WriterPublishes, WriterCompletes,
             WriterCheckpoints, WriterUnwinds, Quiet, workVars
    <2>4. CASE \E u \in Workers : WorkerPanic(u)
      BY <1>0, <2>4 DEF WorkerPanic, Moves
    <2>5. CASE OtherStep
      BY <2>1, <2>4, <2>5 DEF OtherStep, PollerStep, MainStep, OperatorInterrupt, ThreadPanics,
             SpuriousWakes, SpuriousPopWake, Stopped, Quiet, vars, workVars
    <2> QED BY <2>1, <2>2, <2>3, <2>5 DEF Next, OtherStep, vars, workVars
  <1> QED BY <1>3, <1>4, <1>5, <1>6

\* Once the write queue is closed and empty and no batch is held, it stays so.
LEMMA ClosedStaysEmpty ==
    ASSUME WorkInv, WriteInv, [Next]_vars, write_shutdown, write_queue = <<>>, BatchHolders = {}
    PROVE  write_queue' = <<>> /\ BatchHolders' = {}
  <1>0. writer \in [Writers -> [at : WriterStages, jobs : Seq(Blocks)]]
    BY DEF WriteInv, WriteControlTypeOK
  <1>1. [WriteQueueNext]_<<writeVars, stop_requested>>
    BY NextIsWriteStep DEF WorkInv
  <1>2. \A v \in Writers : writer[v].at \notin BatchStages
    BY DEF BatchHolders
  <1>3. SUFFICES write_queue' = <<>> /\ \A v \in Writers : writer'[v].at \notin BatchStages
    BY DEF BatchHolders
  <1>4. CASE UNCHANGED <<writer, write_queue>>
    BY <1>2, <1>4
  <1>5. ASSUME NEW u \in Writers, NextAction(u)
        PROVE  write_queue' = <<>> /\ \A v \in Writers : writer'[v].at \notin BatchStages
    <2>1. ~TakeBatch(u)
      BY DEF TakeBatch
    <2> QED
      BY <1>0, <1>2, <1>5, <2>1 DEF NextAction, StartCheckpoint, WriterShutdown, WriterWaits, WriterMoves,
             BatchStages, countVars
  <1>6. ASSUME NEW u \in Writers,
               FinishCheckpoint(u) \/ CheckpointError(u) \/ FailCheckpoint(u) \/ CheckpointPanic(u)
        PROVE  write_queue' = <<>> /\ \A v \in Writers : writer'[v].at \notin BatchStages
    BY <1>0, <1>2, <1>6 DEF FinishCheckpoint, CheckpointError, FailCheckpoint, CheckpointPanic,
           CloseWriteQueue, WriterMoves, BatchStages, countVars
  <1>7. ASSUME NEW u \in Writers,
               \/ PublishSingly(u) \/ PublishBatch(u) \/ PublishUnsupported(u) \/ PublishOneByOne(u)
               \/ CompleteWriteBatch(u) \/ WriterPanic(u) \/ UnwindBatch(u)
        PROVE  FALSE
    BY <1>2, <1>7 DEF PublishSingly, PublishBatch, PublishUnsupported, PublishOneByOne,
           CompleteWriteBatch, WriterPanic, UnwindBatch, BatchStages
  <1>8. ASSUME NEW u \in Writers, WriterUnwindStep(u)
        PROVE  write_queue' = <<>> /\ \A v \in Writers : writer'[v].at \notin BatchStages
    BY <1>0, <1>2, <1>8 DEF WriterUnwindStep, RequestWriteShutdown, CloseWriteQueue, WriterMoves,
           BatchStages, countVars
  <1>9. CASE RequestWriteShutdown /\ UNCHANGED writer
    BY <1>2, <1>9 DEF RequestWriteShutdown, CloseWriteQueue
  <1>10. CASE FinishProducing \/ WritersJoined \/ \E how \in {"returned", "panicked"} : MainEnds(how)
    BY <1>2, <1>10 DEF FinishProducing, WritersJoined, MainEnds, countVars
  <1> QED
    BY <1>1, <1>4, <1>5, <1>6, <1>7, <1>8, <1>9, <1>10
    DEF WriteQueueNext, EnqueueRejected, EnqueueWaits, EnqueueAccepted, SpuriousWriteWake,
        WriteStopStored, writeVars, countVars

\* Items are taken and added only by workers that have not ended.
LEMMA EndedAddNoItems ==
    ASSUME WorkInv, [Next]_vars, \A w \in Workers : stage[w] \in {"done", "panicked"}
    PROVE  work_queue' = work_queue
  <1>1. [WorkQueueNext]_<<workVars, stop_requested>>
    BY NextIsWorkStep
  <1> QED
    BY <1>1 DEF WorkQueueNext, Pop, PopStopped, PopItem, PopExhausted, PopWaits, InPop, SpuriousPopWake,
           EnqueueChildren, FinishItem, WorkerPanic, UnwindItem, BusyStep, RequestWorkShutdown,
           StopStored, workVars

\* Every step keeps the order in which the threads end.
LEMMA EndsStep ==
    ASSUME CopyInv, [Next]_vars
    PROVE  EndsInOrder'
  <1>0. WorkInv /\ WriteInv /\ OutcomeTypeOK /\ StopHasReason /\ EndsInOrder
    BY DEF CopyInv
  <1>1. Cut => Cut'
    BY <1>0, CutStays
  <1>2. /\ \A w \in Workers : stage[w] \in {"done", "panicked"} => stage'[w] = stage[w]
        /\ \A v \in Writers : writer[v].at \in {"done", "panicked"} => writer'[v].at = writer[v].at
        /\ \A w \in Workers : stage'[w] = "done" /\ stage[w] # "done" => work_shutdown'
        /\ \A v \in Writers : writer'[v].at = "done" /\ writer[v].at # "done" => WriterShutdown(v)
        /\ work_shutdown => work_shutdown'
        /\ write_shutdown => write_shutdown'
    BY <1>0, EndedStay
  <1>3. /\ \A w \in Workers : stage'[w] = "done" => work_shutdown'
        /\ \A v \in Writers : writer'[v].at = "done" => write_shutdown'
    BY <1>0, <1>2 DEF EndsInOrder, WriterShutdown
  <1>4. ASSUME main' # "join_workers"
        PROVE  /\ \A w \in Workers : stage'[w] \in {"done", "panicked"}
               /\ work_queue' = <<>> \/ Cut'
    <2>1. \A w \in Workers : stage[w] \in {"done", "panicked"}
      BY <1>0, <1>4, MainCases DEF WritersJoined, MainEnds, EndsInOrder
    <2>2. work_queue' = work_queue
      BY <1>0, <2>1, EndedAddNoItems
    <2>3. CASE main # "join_workers"
      BY <1>0, <1>1, <1>2, <2>1, <2>2, <2>3 DEF EndsInOrder
    <2>4. CASE main = "join_workers"
      <3>1. CASE \E w \in Workers : stage[w] = "panicked"
        BY <1>0, <1>1, <1>2, <2>1, <3>1 DEF StopHasReason, PanicStages
      <3>2. CASE \A w \in Workers : stage[w] = "done"
        <4>1. work_shutdown
          BY <1>0, <3>2, ThreadsAssumption DEF EndsInOrder
        <4>2. work_queue = <<>> \/ stop_requested
          BY <1>0, <4>1 DEF WorkInv, NoEarlyShutdown
        <4>3. stop_requested => Cut
          BY <1>0, <2>4 DEF StopHasReason, Cut
        <4> QED BY <1>1, <1>2, <2>1, <2>2, <4>2, <4>3
      <3> QED BY <2>1, <3>1, <3>2
    <2> QED BY <2>3, <2>4
  <1>5. ASSUME main' \notin {"join_workers", "join_writers"}
        PROVE  \A v \in Writers : writer'[v].at \in {"done", "panicked"}
    <2>1. \A v \in Writers : writer[v].at \in {"done", "panicked"}
      BY <1>0, <1>5, MainCases DEF FinishProducing, WritersJoined, MainEnds, EndsInOrder
    <2> QED BY <1>2, <2>1
  <1>6. main # "join_workers" => main' # "join_workers"
    BY <1>0, MainCases DEF FinishProducing, WritersJoined, MainEnds
  <1>7. producers_finished' => main' # "join_workers" \/ Cut'
    BY <1>0, <1>1, <1>6, CloseCases DEF EndsInOrder, FinishProducing, WriterShutdown
  <1>8. ASSUME write_shutdown'
        PROVE  Cut' \/ (main' # "join_workers" /\ write_queue' = <<>> /\ BatchHolders' = {})
    <2>1. CASE Cut
      BY <1>1, <2>1
    <2>2. CASE write_shutdown /\ ~Cut
      <3>1. main # "join_workers" /\ write_queue = <<>> /\ BatchHolders = {}
        BY <1>0, <2>2 DEF EndsInOrder
      <3> QED BY <1>0, <1>6, <2>2, <3>1, ClosedStaysEmpty
    <2>3. ASSUME NEW v \in Writers, WriterShutdown(v), ~Cut
          PROVE  main' # "join_workers" /\ write_queue' = <<>> /\ BatchHolders' = {}
      <3>1. /\ writer[v].at = "next_action" /\ write_queue = <<>> /\ active_writes = 0
            /\ producers_finished \/ write_shutdown \/ stop_requested
            /\ WriterMoves(v, "done") /\ write_queue' = write_queue
        BY <2>3 DEF WriterShutdown, InNextAction, MayShutDown, countVars
      <3>2. BatchHolders = {}
        BY <1>0, <3>1, IdleHasNoHolders
      <3>3. BatchHolders' = {}
        <4>1. writer \in [Writers -> [at : WriterStages, jobs : Seq(Blocks)]]
          BY <1>0 DEF WriteInv, WriteControlTypeOK
        <4> QED BY <3>1, <3>2, <4>1 DEF BatchHolders, WriterMoves, BatchStages
      <3>4. main \in {"join_workers", "join_writers"}
        BY <1>0, <3>1 DEF EndsInOrder
      <3>5. ~stop_requested
        BY <1>0, <2>3, <3>4 DEF StopHasReason, Cut
      <3>6. main # "join_workers"
        BY <1>0, <2>3, <3>1, <3>5 DEF EndsInOrder
      <3> QED BY <1>6, <3>1, <3>3, <3>6
    <2>4. CASE FinishProducing /\ ~write_shutdown /\ ~Cut
      <3>1. stop_requested /\ main = "join_workers"
        BY <1>8, <2>4, Zenon DEF FinishProducing
      <3> QED BY <1>0, <2>4, <3>1 DEF StopHasReason, Cut
    <2>5. CASE UNCHANGED <<write_shutdown, producers_finished>> /\ ~write_shutdown
      BY <1>8, <2>5
    <2> QED BY <2>1, <2>2, <2>3, <2>4, <2>5, CloseCases
  <1>9. main' = "returned" => ~AnyPanicked'
    <2> SUFFICES ASSUME main' = "returned" PROVE ~AnyPanicked'
      OBVIOUS
    <2>1. CASE main = "returned"
      <3>1. /\ \A w \in Workers : stage[w] = "done"
            /\ \A v \in Writers : writer[v].at = "done"
        BY <1>0, <2>1 DEF EndsInOrder, AnyPanicked
      <3> QED BY <1>2, <3>1 DEF AnyPanicked
    <2>2. CASE main # "returned"
      <3>1. /\ MainEnds(IF AnyPanicked THEN "panicked" ELSE "returned")
            /\ UNCHANGED <<workVars, reportVars, signalVars, compactions>>
        BY <1>0, <2>2, MainCases DEF FinishProducing, WritersJoined
      <3>2. ~AnyPanicked /\ writer' = writer /\ stage' = stage
        BY <3>1 DEF MainEnds, workVars
      <3> QED BY <3>2 DEF AnyPanicked
    <2> QED BY <2>1, <2>2
  <1> QED BY <1>3, <1>4, <1>5, <1>7, <1>8, <1>9 DEF EndsInOrder

-----------------------------------------------------------------------------
(* Nothing is dropped unless the copy is cut short. *)

\* A worker that is not cut short gives its block up only with an outcome.
LEMMA WorkerKeeps ==
    ASSUME CopyInv, [Next]_vars, ~Cut', NEW w \in HandlingWorkers
    PROVE  \/ w \in HandlingWorkers' /\ item'[w] = item[w]
           \/ ReadFails(w) \/ AlreadyPresent(w) \/ CheckFails(w) \/ Accepts(w)
  <1>0. /\ WorkInv /\ WriteInv /\ OutcomeTypeOK /\ StopHasReason /\ EndsInOrder
        /\ stage \in [Workers -> HoldingStages \cup FreeStages]
        /\ item \in [Workers -> Items \cup {NoItem}]
        /\ w \in Workers /\ stage[w] \in HandlingStages
    BY DEF CopyInv, WorkInv, WorkTypeOK, HandlingWorkers
  <1>1. ~Cut /\ ~Cut'
    BY <1>0, CutStays
  <1>2. main = "join_workers"
    BY <1>0 DEF EndsInOrder, HandlingStages
  <1>3. ~stop_requested /\ ~write_shutdown
    BY <1>0, <1>1, <1>2 DEF StopHasReason, EndsInOrder, Cut
  <1>4. StopHasReason'
    BY StopStep
  <1>5. CASE stage'[w] = stage[w] /\ item'[w] = item[w]
    BY <1>0, <1>5 DEF HandlingWorkers
  <1>6. ASSUME NEW u \in Workers, u # w, WorkerStep(u)
        PROVE  stage'[w] = stage[w] /\ item'[w] = item[w]
    BY <1>0, <1>6 DEF WorkerStep, WorkerPops, Pop, PopStopped, PopItem, PopExhausted, PopWaits,
           NoteRoot, Visit, ReadFails, ReadAndDecode, CheckStop, PushChildren, EnqueueChildren,
           DestinationStopped, AlreadyPresent, CheckFails, Submit, EnqueueWrite, EnqueueStep,
           WorkerFinishes, FinishItem, WorkerUnwinds, UnwindItem, RequestWorkShutdown,
           WorkerMoves, Moves
  <1>7. CASE WorkerStep(w)
    <2>1. CASE ReadFails(w) \/ AlreadyPresent(w) \/ CheckFails(w) \/ Accepts(w)
      BY <2>1
    <2>2. CASE ReadAndDecode(w) \/ CheckStop(w) \/ Submit(w)
      <3>1. \E to \in HandlingStages : stage' = [stage EXCEPT ![w] = to] /\ item' = item
        BY <2>2 DEF ReadAndDecode, CheckStop, Submit, WorkerMoves, Moves, HandlingStages
      <3> QED BY <1>0, <3>1 DEF HandlingWorkers
    <2>3. CASE PushChildren(w)
      BY <1>0, <2>3 DEF PushChildren, EnqueueChildren, Moves, HandlingWorkers, HandlingStages
    <2>4. CASE EnqueueWrite(w)
      BY <1>0, <1>3, <2>1, <2>4 DEF EnqueueWrite, EnqueueStep, EnqueueRejected, Accepts, Moves,
             HandlingWorkers, HandlingStages
    <2>5. ~DestinationStopped(w)
      BY <1>3 DEF DestinationStopped
    <2>6. /\ ~WorkerPops(w) /\ ~NoteRoot(w) /\ ~Visit(w) /\ ~WorkerFinishes(w) /\ ~WorkerUnwinds(w)
      BY <1>0 DEF WorkerPops, Pop, PopStopped, PopItem, PopExhausted, PopWaits, InPop, NoteRoot, Visit,
             WorkerFinishes, FinishItem, WorkerUnwinds, UnwindItem, WorkerMoves, HandlingStages
    <2> QED BY <1>7, <2>1, <2>2, <2>3, <2>4, <2>5, <2>6 DEF WorkerStep
  <1>8. CASE \E v \in Writers : WriterStep(v)
    <2>1. stage' = stage /\ item' = item
      BY <1>8 DEF WriterStep, WriterActs, WriterPublishes, WriterCompletes, WriterCheckpoints,
             WriterUnwinds, RequestWorkShutdown, Quiet, workVars
    <2> QED BY <1>5, <2>1
  <1>9. CASE OtherStep
    <2>1. CASE \E u \in Workers : WorkerPanic(u)
      <3>1. PICK u \in Workers : WorkerPanic(u)
        BY <2>1
      <3>2. stage'[u] \in PanicStages
        BY <1>0, <3>1 DEF WorkerPanic, Moves, PanicStages
      <3> QED BY <1>1, <1>4, <3>1, <3>2 DEF StopHasReason
    <2>2. CASE ~\E u \in Workers : WorkerPanic(u)
      <3>1. stage' = stage /\ item' = item
        BY <1>9, <2>2 DEF OtherStep, PollerStep, RequestWorkShutdown, MainStep, OperatorInterrupt,
               ThreadPanics, SpuriousWakes, SpuriousPopWake, Stopped, Quiet, vars, workVars
      <3> QED BY <1>5, <3>1
    <2> QED BY <2>1, <2>2
  <1>10. CASE UNCHANGED vars
    BY <1>5, <1>10 DEF vars, workVars
  <1> QED BY <1>5, <1>6, <1>7, <1>8, <1>9, <1>10 DEF Next, OtherStep

\* While the copy is not cut short, the write queue only grows or is taken from.
LEMMA QueueKeeps ==
    ASSUME CopyInv, [Next]_vars, ~Cut'
    PROVE  \/ write_queue' = write_queue
           \/ \E w \in Workers : Accepts(w)
           \/ \E v \in Writers : Takes(v)
  <1>0. WorkInv /\ WriteInv /\ OutcomeTypeOK /\ StopHasReason /\ EndsInOrder
    BY DEF CopyInv
  <1>1. ~Cut
    BY <1>0, CutStays
  <1>2. CASE UNCHANGED vars
    BY <1>2 DEF vars, writeVars, countVars
  <1>3. CASE \E w \in Workers : WorkerStep(w)
    <2>1. PICK w \in Workers : WorkerStep(w)
      BY <1>3
    <2>2. CASE UNCHANGED writeVars
      BY <2>2 DEF writeVars, countVars
    <2>3. CASE EnqueueWrite(w)
      BY <2>3 DEF EnqueueWrite, EnqueueRejected, Accepts, EnqueueWaits, writeVars, countVars
    <2>4. CASE WorkerUnwinds(w)
      BY <1>0, <1>1, <2>2, <2>4 DEF WorkerUnwinds, StopHasReason, PanicStages
    <2> QED
      BY <2>1, <2>2, <2>3, <2>4 DEF WorkerStep, WorkerPops, NoteRoot, Visit, ReadFails, ReadAndDecode,
                CheckStop, PushChildren, DestinationStopped, AlreadyPresent, CheckFails, Submit,
                WorkerFinishes, WorkerMoves
  <1>4. CASE \E v \in Writers : WriterStep(v)
    <2>1. PICK v \in Writers : WriterStep(v)
      BY <1>4
    <2>2. CASE WriterActs(v)
      BY <2>2 DEF Takes, WriterActs, NextAction, StartCheckpoint, WriterShutdown, WriterWaits, countVars
    <2>3. CASE WriterPublishes(v) \/ WriterCompletes(v)
      BY <2>3 DEF WriterPublishes, PublishSingly, PublishBatch, PublishUnsupported,
                PublishOneByOne, PublishUnchanged, WriterCompletes, CompleteWriteBatch, countVars
    <2>4. CASE WriterCheckpoints(v)
      BY <1>0, <1>1, <2>4 DEF WriterCheckpoints, FinishCheckpoint, CheckpointError, FailCheckpoint,
                countVars, StopHasReason
    <2>5. CASE WriterUnwinds(v)
      BY <1>0, <1>1, <2>5 DEF WriterUnwinds, UnwindBatch, WriterUnwindStep, StopHasReason,
                WriterPanicStages
    <2> QED BY <2>1, <2>2, <2>3, <2>4, <2>5 DEF WriterStep
  <1>5. CASE OtherStep
    <2>1. CASE PollerStep
      BY <1>0, <1>1, <2>1 DEF PollerStep, writeVars, countVars, StopHasReason
    <2>2. CASE MainStep
      <3>1. CASE FinishProducing
        <4>1. ~stop_requested
          BY <1>0, <1>1, <3>1 DEF FinishProducing, StopHasReason, Cut
        <4> QED BY <3>1, <4>1 DEF FinishProducing
      <3> QED BY <2>2, <3>1 DEF MainStep, WritersJoined, MainEnds, countVars
    <2>3. CASE OperatorInterrupt \/ ThreadPanics \/ SpuriousWakes \/ Stopped
      BY <2>3 DEF OperatorInterrupt, ThreadPanics, WriterPanic, CheckpointPanic, SpuriousWakes,
           SpuriousWriteWake, Stopped, vars, writeVars, countVars
    <2> QED BY <1>5, <2>1, <2>2, <2>3 DEF OtherStep
  <1> QED BY <1>2, <1>3, <1>4, <1>5 DEF Next, OtherStep

\* While the copy is not cut short, a batch stays with its writer until it completes.
LEMMA WriterKeeps ==
    ASSUME CopyInv, [Next]_vars, ~Cut', NEW v \in PublishingWriters
    PROVE  \/ v \in PublishingWriters' /\ writer'[v].jobs = writer[v].jobs
           \/ \E good, bad \in SUBSET JobPlaces(v) : Completes(v, good, bad)
  <1>0. /\ WorkInv /\ WriteInv /\ OutcomeTypeOK
        /\ writer \in [Writers -> [at : WriterStages, jobs : Seq(Blocks)]]
        /\ v \in Writers /\ writer[v].at \in PublishingStages
    BY DEF CopyInv, WriteInv, WriteControlTypeOK, PublishingWriters
  <1>1. StopHasReason'
    BY StopStep
  <1>2. CASE writer'[v] = writer[v]
    BY <1>0, <1>2 DEF PublishingWriters
  <1>3. ASSUME NEW u \in Writers, u # v, WriterStep(u) PROVE writer'[v] = writer[v]
    <2>1. CASE WriterActs(u)
      <3>1. CASE TakeBatch(u)
        <4>1. \E jobs : writer' = [writer EXCEPT ![u] = [at |-> "publish", jobs |-> jobs]]
          BY <3>1 DEF TakeBatch
        <4> QED BY <1>0, <1>3, <4>1
      <3> QED
        BY <1>0, <1>3, <2>1, <3>1 DEF WriterActs, NextAction, StartCheckpoint, WriterShutdown,
               WriterWaits, WriterMoves
    <2>2. CASE WriterPublishes(u)
      BY <1>0, <1>3, <2>2 DEF WriterPublishes, PublishSingly, PublishBatch, PublishUnsupported,
             PublishOneByOne, WriterMoves
    <2>3. CASE WriterCompletes(u)
      BY <1>0, <1>3, <2>3 DEF WriterCompletes, CompleteWriteBatch, ReleaseBatch
    <2>4. CASE WriterCheckpoints(u)
      BY <1>0, <1>3, <2>4 DEF WriterCheckpoints, FinishCheckpoint, CheckpointError, FailCheckpoint,
             WriterMoves
    <2>5. CASE WriterUnwinds(u)
      BY <1>0, <1>3, <2>5 DEF WriterUnwinds, UnwindBatch, ReleaseBatch, WriterUnwindStep, WriterMoves
    <2> QED BY <1>3, <2>1, <2>2, <2>3, <2>4, <2>5 DEF WriterStep
  <1>4. CASE WriterStep(v)
    <2>1. WriterPublishes(v)
      BY <1>0, <1>4 DEF WriterStep, WriterActs, NextAction, TakeBatch, StartCheckpoint, WriterShutdown,
             WriterWaits, InNextAction, WriterCompletes, CompleteWriteBatch, WriterCheckpoints,
             FinishCheckpoint, CheckpointError, FailCheckpoint, WriterUnwinds, UnwindBatch,
             WriterUnwindStep, PublishingStages
    <2>2. CASE writer[v].at = "publish" /\ WriterMoves(v, "one_by_one")
      BY <1>0, <2>2 DEF WriterMoves, PublishingWriters, PublishingStages
    <2> QED BY <1>0, <2>1, <2>2, PublishCases
  <1>5. CASE \E w \in Workers : WorkerStep(w)
    <2>1. writer' = writer
      BY <1>5 DEF WorkerStep, WorkerPops, NoteRoot, Visit, ReadFails, ReadAndDecode, CheckStop,
             PushChildren, DestinationStopped, AlreadyPresent, CheckFails, Submit, EnqueueWrite,
             EnqueueRejected, EnqueueAccepted, EnqueueWaits, WorkerFinishes, WorkerUnwinds,
             WorkerMoves, writeVars
    <2> QED BY <1>2, <2>1
  <1>6. CASE OtherStep
    <2>1. CASE \E u \in Writers : WriterPanic(u) \/ CheckpointPanic(u)
      <3>1. PICK u \in Writers : WriterPanic(u) \/ CheckpointPanic(u)
        BY <2>1
      <3>2. writer'[u].at \in WriterPanicStages
        BY <1>0, <3>1 DEF WriterPanic, CheckpointPanic, WriterMoves, WriterPanicStages
      <3> QED BY <1>1, <3>1, <3>2 DEF StopHasReason
    <2>2. CASE ~\E u \in Writers : WriterPanic(u) \/ CheckpointPanic(u)
      <3>1. writer' = writer
        BY <1>6, <2>2 DEF OtherStep, PollerStep, MainStep, FinishProducing, WritersJoined,
               MainEnds, OperatorInterrupt, ThreadPanics, SpuriousWakes, SpuriousWriteWake, Stopped,
               vars, writeVars
      <3> QED BY <1>2, <3>1
    <2> QED BY <2>1, <2>2
  <1>7. CASE UNCHANGED vars
    BY <1>2, <1>7 DEF vars, writeVars
  <1> QED BY <1>2, <1>3, <1>4, <1>5, <1>6, <1>7 DEF Next, OtherStep

\* Which operations failed on a block, by the counts.
LEMMA FailedCounts ==
    ASSUME OutcomeTypeOK, OutcomeTypeOK', NEW b \in Blocks, NEW ops \in SUBSET Operations
    PROVE  /\ Failed(b, ops) <=> \E o \in ops : TimesRecorded(tracker, b, o) > 0
           /\ Failed(b, ops)' <=> \E o \in ops : TimesRecorded(tracker', b, o) > 0
  <1>1. tracker \in Trackers /\ tracker' \in Trackers
    BY DEF OutcomeTypeOK
  <1>2. \A o : /\ BagIn(o, tracker.failure_templates[b]) <=> TimesRecorded(tracker, b, o) > 0
               /\ BagIn(o, tracker'.failure_templates[b]) <=> TimesRecorded(tracker', b, o) > 0
    BY <1>1, CountsType
  <1> QED BY <1>2 DEF Failed

\* What failed stays failed.
LEMMA FailedStays ==
    ASSUME CopyInv, [Next]_vars, NEW b \in Blocks, NEW ops \in SUBSET Operations, Failed(b, ops)
    PROVE  Failed(b, ops)'
  <1>1. OutcomeTypeOK /\ OutcomeTypeOK'
    BY OutcomeTypeStep DEF CopyInv
  <1>2. PICK o \in ops : TimesRecorded(tracker, b, o) > 0
    BY <1>1, FailedCounts
  <1>3. /\ TimesRecorded(tracker, b, o) \in Nat /\ TimesRecorded(tracker', b, o) \in Nat
        /\ TimesRecorded(tracker, b, o) <= TimesRecorded(tracker', b, o)
    BY TrackerGrows DEF CopyInv
  <1>4. TimesRecorded(tracker', b, o) > 0
    BY <1>2, <1>3
  <1> QED BY <1>1, <1>2, <1>4, FailedCounts

\* record marks the operation as failed on the blocks it is given.
LEMMA RecordedIsFailed ==
    ASSUME CopyInv, [Next]_vars, NEW blocks \in SUBSET Blocks, NEW o \in Operations,
           tracker' = RecordEach(tracker, blocks, o), NEW b \in blocks,
           NEW ops \in SUBSET Operations, o \in ops
    PROVE  Failed(b, ops)'
  <1>1. OutcomeTypeOK /\ OutcomeTypeOK' /\ tracker \in Trackers
    BY OutcomeTypeStep DEF CopyInv, OutcomeTypeOK
  <1>2. TimesRecorded(tracker', b, o) = TimesRecorded(tracker, b, o) + 1
    <2>1. b \in Blocks
      OBVIOUS
    <2>2. PICK t, t2 : t = tracker /\ t2 = tracker'
      OBVIOUS
    <2>3. t \in Trackers /\ t2 = RecordEach(t, blocks, o)
      BY <1>1, <2>2
    <2>4. t2 \in Trackers
      BY <2>3, RecordEachFacts
    <2>5. TimesRecorded(t2, b, o) = TimesRecorded(t, b, o) + (IF b \in blocks /\ o = o THEN 1 ELSE 0)
      BY <2>1, <2>3, <2>4, RecordEachFacts
    <2> QED BY <2>2, <2>5
  <1>3. TimesRecorded(tracker, b, o) \in Nat
    BY <1>1, CountsType
  <1>4. TimesRecorded(tracker', b, o) > 0
    BY <1>2, <1>3
  <1> QED BY <1>1, <1>4, FailedCounts

\* Every step keeps each claimed block somewhere.
LEMMA NothingLostStep ==
    ASSUME CopyInv, [Next]_vars
    PROVE  NothingLost'
  <1> SUFFICES ASSUME ~Cut', NEW b \in visited', b \notin destination',
                      ~Failed(b, LosingOperations)'
               PROVE  Placed(b)'
    BY DEF NothingLost
  <1>0. WorkInv /\ WriteInv /\ OutcomeTypeOK /\ OutcomeTypeOK' /\ ~Cut /\ NothingLost
    BY CutStays, OutcomeTypeStep DEF CopyInv
  <1>1. b \in Blocks /\ LosingOperations \in SUBSET Operations
    BY <1>0 DEF OutcomeTypeOK, LosingOperations, Operations
  <1>2. destination \subseteq destination'
    <2>1. ASSUME NEW w \in Workers, Visit(w) PROVE destination' = destination
      BY <2>1 DEF Visit
    <2>2. ASSUME NEW w \in Workers, Accepts(w) PROVE destination' = destination
      BY <2>2 DEF Accepts, EnqueueStep
    <2>3. ASSUME NEW v \in Writers, Takes(v) PROVE destination' = destination
      BY <2>3 DEF Takes, WriterActs, reportVars
    <2>4. ASSUME NEW v \in Writers, NEW good \in SUBSET JobPlaces(v),
                 NEW bad \in SUBSET JobPlaces(v), Completes(v, good, bad)
          PROVE  destination \subseteq destination'
      BY <2>4 DEF Completes, RecordCompletions
    <2> QED BY <1>0, <2>1, <2>2, <2>3, <2>4, PlaceCases
  <1>3. CASE b \notin visited
    <2>1. PICK w \in Workers : Visit(w)
      BY <1>0, <1>3, PlaceCases, AcceptsEffect, CompletesEffect DEF Takes, WriterActs, reportVars
    <2>2. /\ visited' = visited \cup {Block(w)}
          /\ HandlingWorkers' = IF Block(w) \in visited THEN HandlingWorkers
                                                         ELSE HandlingWorkers \cup {w}
          /\ UNCHANGED item
      BY <1>0, <2>1, VisitEffect
    <2>3. w \in HandlingWorkers' /\ Block(w)' = b
      BY <1>3, <2>2 DEF Block
    <2> QED BY <2>3 DEF Placed
  <1>4. CASE b \in visited
    <2>1. Placed(b)
      BY <1>0, <1>1, <1>2, <1>4, FailedStays DEF NothingLost
    <2>2. ASSUME NEW w \in HandlingWorkers, Block(w) = b PROVE Placed(b)'
      <3>1. CASE w \in HandlingWorkers' /\ item'[w] = item[w]
        BY <2>2, <3>1 DEF Placed, Block
      <3>2. ~AlreadyPresent(w)
        BY <1>2, <2>2 DEF AlreadyPresent
      <3>3. ~ReadFails(w) /\ ~CheckFails(w)
        <4>1. {b} \in SUBSET Blocks /\ b \in {b}
          BY <1>1
        <4>2. \A o \in LosingOperations : tracker' # RecordEach(tracker, {b}, o)
          BY <1>1, <4>1, RecordedIsFailed
        <4> QED BY <2>2, <4>2 DEF ReadFails, CheckFails, Record, LosingOperations
      <3>4. CASE Accepts(w)
        <4>1. w \in Workers
          BY DEF HandlingWorkers
        <4>2. /\ QueuePlaces' = QueuePlaces \cup {Len(write_queue) + 1}
              /\ write_queue'[Len(write_queue) + 1] = Block(w)
          BY <1>0, <3>4, <4>1, AcceptsEffect
        <4> QED BY <2>2, <4>2 DEF Placed
      <3> QED BY <3>1, <3>2, <3>3, <3>4, WorkerKeeps
    <2>3. ASSUME NEW i \in QueuePlaces, write_queue[i] = b PROVE Placed(b)'
      <3>1. CASE write_queue' = write_queue
        BY <2>3, <3>1 DEF Placed, QueuePlaces
      <3>2. ASSUME NEW w \in Workers, Accepts(w) PROVE Placed(b)'
        <4>1. /\ QueuePlaces' = QueuePlaces \cup {Len(write_queue) + 1}
              /\ \A j \in QueuePlaces : write_queue'[j] = write_queue[j]
          BY <1>0, <3>2, AcceptsEffect
        <4> QED BY <2>3, <4>1 DEF Placed
      <3>3. ASSUME NEW v \in Writers, Takes(v) PROVE Placed(b)'
        <4>1. PICK n \in QueuePlaces :
                /\ PublishingWriters' = PublishingWriters \cup {v}
                /\ JobPlaces(v)' = 1..n
                /\ \A j \in 1..n : writer'[v].jobs[j] = write_queue[j]
                /\ Len(write_queue) \in Nat
                /\ QueuePlaces' = 1..(Len(write_queue) - n)
                /\ \A j \in QueuePlaces' : write_queue'[j] = write_queue[n + j]
          BY <1>0, <3>3, TakesEffect
        <4>2. n \in Nat /\ i \in Nat /\ i > 0 /\ i <= Len(write_queue)
          BY <4>1 DEF QueuePlaces
        <4>3. CASE i <= n
          BY <2>3, <4>1, <4>2, <4>3 DEF Placed
        <4>4. CASE i > n
          <5>1. i - n \in QueuePlaces' /\ n + (i - n) = i
            BY <4>1, <4>2, <4>4
          <5> QED BY <2>3, <4>1, <5>1 DEF Placed
        <4> QED BY <4>2, <4>3, <4>4
      <3> QED BY <3>1, <3>2, <3>3, QueueKeeps
    <2>4. ASSUME NEW v \in PublishingWriters, NEW i \in JobPlaces(v), writer[v].jobs[i] = b
          PROVE  Placed(b)'
      <3>1. CASE v \in PublishingWriters' /\ writer'[v].jobs = writer[v].jobs
        BY <2>4, <3>1 DEF Placed, JobPlaces
      <3>2. ASSUME NEW good \in SUBSET JobPlaces(v), NEW bad \in SUBSET JobPlaces(v),
                   Completes(v, good, bad)
            PROVE  FALSE
        <4>0. v \in Writers
          BY DEF PublishingWriters
        <4>1. /\ good \cup bad = JobPlaces(v)
              /\ destination' = destination \cup {writer[v].jobs[j] : j \in good}
              /\ tracker' = RecordEach(tracker, {writer[v].jobs[j] : j \in bad},
                                       "WriteDestinationBlock")
          BY <3>2 DEF Completes, RecordCompletions
        <4>2. CASE i \in good
          BY <2>4, <4>1, <4>2
        <4>3. CASE i \in bad
          <5>1. PICK blocks : blocks = {writer[v].jobs[j] : j \in bad}
            OBVIOUS
          <5>2. blocks \in SUBSET Blocks /\ b \in blocks
            BY <1>0, <2>4, <4>0, <4>3, <5>1, PlacesHoldBlocks
          <5>3. tracker' = RecordEach(tracker, blocks, "WriteDestinationBlock")
            BY <4>1, <5>1
          <5> QED BY <1>1, <5>2, <5>3, RecordedIsFailed DEF LosingOperations, Operations
        <4> QED BY <4>1, <4>2, <4>3
      <3> QED BY <3>1, <3>2, WriterKeeps
    <2> QED BY <2>1, <2>2, <2>3, <2>4 DEF Placed
  <1> QED BY <1>3, <1>4

-----------------------------------------------------------------------------
(* Failures and children. *)

\* Where a worker that handles a block came from.
LEMMA HandlersBefore ==
    ASSUME CopyInv, [Next]_vars, NEW w \in HandlingWorkers'
    PROVE  \/ /\ Visit(w) /\ w \in Workers /\ w \in Holders /\ Block(w) \in Blocks
              /\ Block(w) \notin visited /\ item'[w] = item[w] /\ stage'[w] = "read"
              /\ stage[w] = "visit"
           \/ /\ w \in HandlingWorkers /\ item'[w] = item[w]
              /\ stage'[w] = "read" => stage[w] = "read" /\ ~ReadAndDecode(w)
              /\ stage'[w] # "enqueue_write" => stage[w] # "enqueue_write"
              /\ stage'[w] \in {"check_stop", "push_children"} =>
                    stage[w] \in {"check_stop", "push_children"} \/ ReadAndDecode(w)
              /\ ~ReadFails(w) /\ ~CheckFails(w)
  <1>0. /\ WorkInv /\ WriteInv
        /\ stage \in [Workers -> HoldingStages \cup FreeStages]
        /\ item \in [Workers -> Items \cup {NoItem}]
        /\ w \in Workers /\ stage'[w] \in HandlingStages
    BY DEF CopyInv, WorkInv, WorkTypeOK, HandlingWorkers
  <1> DEFINE Before ==
              /\ w \in HandlingWorkers /\ item'[w] = item[w]
              /\ stage'[w] = "read" => stage[w] = "read" /\ ~ReadAndDecode(w)
              /\ stage'[w] # "enqueue_write" => stage[w] # "enqueue_write"
              /\ stage'[w] \in {"check_stop", "push_children"} =>
                    stage[w] \in {"check_stop", "push_children"} \/ ReadAndDecode(w)
              /\ ~ReadFails(w) /\ ~CheckFails(w)
  <1>1. ~ReadFails(w) /\ ~CheckFails(w) /\ (ReadAndDecode(w) => stage'[w] = "check_stop")
    BY <1>0 DEF ReadFails, CheckFails, ReadAndDecode, WorkerMoves, Moves, HandlingStages
  <1>2. CASE stage'[w] = stage[w] /\ item'[w] = item[w]
    <2>1. w \in HandlingWorkers
      BY <1>0, <1>2 DEF HandlingWorkers
    <2>2. Before
      BY <1>1, <1>2, <2>1
    <2> QED BY <2>2
  <1>3. ASSUME NEW u \in Workers, u # w, WorkerStep(u)
        PROVE  stage'[w] = stage[w] /\ item'[w] = item[w]
    BY <1>0, <1>3 DEF WorkerStep, WorkerPops, Pop, PopStopped, PopItem, PopExhausted, PopWaits,
           NoteRoot, Visit, ReadFails, ReadAndDecode, CheckStop, PushChildren, EnqueueChildren,
           DestinationStopped, AlreadyPresent, CheckFails, Submit, EnqueueWrite, EnqueueStep,
           WorkerFinishes, FinishItem, WorkerUnwinds, UnwindItem, RequestWorkShutdown,
           WorkerMoves, Moves
  <1>4. CASE WorkerStep(w)
    <2>1. CASE Visit(w)
      <3>1. /\ w \in Holders /\ Block(w) \in Blocks /\ UNCHANGED item
            /\ stage'[w] = IF Block(w) \in visited THEN "finish" ELSE "read"
            /\ stage[w] = "visit"
        BY <1>0, <2>1, VisitEffect
      <3> QED BY <1>0, <2>1, <3>1 DEF HandlingStages
    <2>2. CASE ReadAndDecode(w)
      <3>1. stage[w] = "read" /\ stage'[w] = "check_stop" /\ item' = item
        BY <1>0, <2>2 DEF ReadAndDecode, WorkerMoves, Moves
      <3>2. w \in HandlingWorkers
        BY <1>0, <3>1 DEF HandlingWorkers, HandlingStages
      <3>3. Before
        BY <1>1, <2>2, <3>1, <3>2
      <3> QED BY <3>3
    <2>3. CASE CheckStop(w)
      <3>1. /\ stage[w] = "check_stop" /\ stage'[w] \in {"destination", "push_children"} /\ item' = item
        BY <1>0, <2>3 DEF CheckStop, WorkerMoves, Moves
      <3>2. w \in HandlingWorkers
        BY <1>0, <3>1 DEF HandlingWorkers, HandlingStages
      <3>3. Before
        BY <1>1, <3>1, <3>2
      <3> QED BY <3>3
    <2>4. CASE Submit(w)
      <3>1. /\ stage[w] = "destination" /\ stage'[w] = "enqueue_write" /\ item' = item
        BY <1>0, <2>4 DEF Submit, WorkerMoves, Moves
      <3>2. w \in HandlingWorkers
        BY <1>0, <3>1 DEF HandlingWorkers, HandlingStages
      <3>3. Before
        BY <1>1, <3>1, <3>2
      <3> QED BY <3>3
    <2>5. CASE PushChildren(w)
      <3>1. /\ stage[w] = "push_children" /\ stage'[w] = "destination" /\ item' = item
        BY <1>0, <2>5 DEF PushChildren, EnqueueChildren, Moves
      <3>2. w \in HandlingWorkers
        BY <1>0, <3>1 DEF HandlingWorkers, HandlingStages
      <3>3. Before
        BY <1>1, <3>1, <3>2
      <3> QED BY <3>3
    <2>6. CASE EnqueueWrite(w)
      <3>1. stage'[w] = stage[w] /\ item'[w] = item[w]
        BY <1>0, <2>6 DEF EnqueueWrite, EnqueueStep, Moves, HandlingStages
      <3> QED BY <1>2, <3>1
    <2>7. ~NoteRoot(w) /\ ~DestinationStopped(w) /\ ~AlreadyPresent(w)
      BY <1>0 DEF NoteRoot, DestinationStopped, AlreadyPresent, WorkerMoves, Moves, HandlingStages
    <2>8. CASE WorkerPops(w)
      BY <1>0, <1>2, <2>8 DEF WorkerPops, Pop, PopStopped, PopItem, PopExhausted, PopWaits, Moves,
                       HandlingStages
    <2>9. ~WorkerFinishes(w) /\ ~WorkerUnwinds(w)
      BY <1>0 DEF WorkerFinishes, FinishItem, WorkerUnwinds, UnwindItem, Moves, HandlingStages
    <2> QED BY <1>1, <1>4, <2>1, <2>2, <2>3, <2>4, <2>5, <2>6, <2>7, <2>8, <2>9 DEF WorkerStep
  <1>5. CASE \E v \in Writers : WriterStep(v)
    <2>1. stage' = stage /\ item' = item
      BY <1>5 DEF WriterStep, WriterActs, WriterPublishes, WriterCompletes, WriterCheckpoints,
             WriterUnwinds, RequestWorkShutdown, Quiet, workVars
    <2> QED BY <1>2, <2>1
  <1>6. CASE OtherStep
    <2>1. CASE \E u \in Workers : WorkerPanic(u)
      <3>1. stage'[w] = stage[w] /\ item'[w] = item[w]
        BY <1>0, <2>1 DEF WorkerPanic, Moves, HandlingStages
      <3> QED BY <1>2, <3>1
    <2>2. CASE ~\E u \in Workers : WorkerPanic(u)
      <3>1. stage' = stage /\ item' = item
        BY <1>6, <2>2 DEF OtherStep, PollerStep, RequestWorkShutdown, MainStep, OperatorInterrupt,
               ThreadPanics, SpuriousWakes, SpuriousPopWake, Stopped, Quiet, vars, workVars
      <3> QED BY <1>2, <3>1
    <2> QED BY <2>1, <2>2
  <1>7. CASE UNCHANGED vars
    BY <1>2, <1>7 DEF vars, workVars
  <1> HIDE DEF Before
  <1> QED BY <1>3, <1>2, <1>4, <1>5, <1>6, <1>7 DEF Next, OtherStep, Before

\* What a step records.
LEMMA RecordedCases ==
    ASSUME CopyInv, [Next]_vars
    PROVE  \/ \A b \in Blocks, o \in Operations : TimesRecorded(tracker', b, o) = TimesRecorded(tracker, b, o)
           \/ \E w \in HandlingWorkers, op \in Operations :
                 /\ \/ ReadFails(w) /\ op = "ReadSourceBlock"
                    \/ ReadAndDecode(w) /\ op = "DecodeSourceBlock"
                    \/ CheckFails(w) /\ op = "CheckDestinationBlock"
                 /\ \A b \in Blocks, o \in Operations :
                       TimesRecorded(tracker', b, o) = TimesRecorded(tracker, b, o)
                          + (IF b = Block(w) /\ o = op THEN 1 ELSE 0)
           \/ \E v \in PublishingWriters : \E good, bad \in SUBSET JobPlaces(v) :
                 /\ Completes(v, good, bad)
                 /\ \A b \in Blocks, o \in Operations :
                       TimesRecorded(tracker', b, o) = TimesRecorded(tracker, b, o)
                          + (IF o = "WriteDestinationBlock" /\ (\E i \in bad : b = writer[v].jobs[i])
                             THEN 1 ELSE 0)
  <1>0. WorkInv /\ WriteInv /\ tracker \in Trackers
    BY DEF CopyInv, OutcomeTypeOK
  <1>1. PICK t, t2 : t = tracker /\ t2 = tracker'
    OBVIOUS
  <1>2. t \in Trackers
    BY <1>0, <1>1
  <1>3. ASSUME NEW blocks \in SUBSET Blocks, NEW op \in Operations, NEW u,
               u = RecordEach(t, blocks, op)
        PROVE  /\ u \in Trackers
               /\ \A b \in Blocks, o \in Operations :
                     TimesRecorded(u, b, o) = TimesRecorded(t, b, o) + (IF b \in blocks /\ o = op THEN 1 ELSE 0)
    BY <1>2, <1>3, RecordEachFacts
  <1>4. \A w \in HandlingWorkers : {Block(w)} \in SUBSET Blocks /\ Block(w) \in Blocks
    BY <1>0, PlacesHoldBlocks
  <1>5. CASE t2.failure_templates = t.failure_templates
    BY <1>1, <1>5 DEF TimesRecorded
  <1>6. ASSUME NEW w \in Workers, NoteRoot(w) PROVE t2.failure_templates = t.failure_templates
    <2>1. w \in Holders
      BY <1>6 DEF NoteRoot, WorkerMoves, Holders, HoldingStages
    <2>2. Root(w) \in Blocks /\ Block(w) \in Blocks
      BY <1>0, <2>1 DEF WorkInv, WorkTypeOK, Items, Root, Block
    <2>3. t2 = NoteBlockRoot(t, Root(w), Block(w))
      BY <1>1, <1>6 DEF NoteRoot
    <2> QED BY <1>2, <2>2, <2>3, NoteFacts
  <1>7. ASSUME NEW w \in Workers, ReadFails(w) \/ CheckFails(w)
        PROVE  \E op \in Operations :
                 /\ \/ ReadFails(w) /\ op = "ReadSourceBlock"
                    \/ CheckFails(w) /\ op = "CheckDestinationBlock"
                 /\ w \in HandlingWorkers
                 /\ \A b \in Blocks, o \in Operations :
                       TimesRecorded(t2, b, o) = TimesRecorded(t, b, o)
                          + (IF b = Block(w) /\ o = op THEN 1 ELSE 0)
    <2>1. w \in HandlingWorkers
      BY <1>7 DEF ReadFails, CheckFails, WorkerMoves, HandlingWorkers, HandlingStages
    <2>2. PICK op \in Operations :
                 /\ \/ ReadFails(w) /\ op = "ReadSourceBlock"
                    \/ CheckFails(w) /\ op = "CheckDestinationBlock"
                 /\ t2 = RecordEach(t, {Block(w)}, op)
      BY <1>1, <1>7 DEF ReadFails, CheckFails, Record, Operations
    <2>3. \A b \in Blocks, o \in Operations :
             TimesRecorded(t2, b, o) = TimesRecorded(t, b, o) + (IF b \in {Block(w)} /\ o = op THEN 1 ELSE 0)
      BY <1>3, <1>4, <2>1, <2>2
    <2> QED BY <2>1, <2>2, <2>3
  <1>8. ASSUME NEW w \in Workers, ReadAndDecode(w)
        PROVE  /\ w \in HandlingWorkers
               /\ \/ t2.failure_templates = t.failure_templates
                  \/ \A b \in Blocks, o \in Operations :
                       TimesRecorded(t2, b, o) = TimesRecorded(t, b, o)
                          + (IF b = Block(w) /\ o = "DecodeSourceBlock" THEN 1 ELSE 0)
    <2>1. w \in HandlingWorkers
      BY <1>8 DEF ReadAndDecode, WorkerMoves, HandlingWorkers, HandlingStages
    <2>2. Block(w) \in Blocks /\ {} \in SUBSET Blocks
      BY <1>4, <2>1
    <2>3. ToSet(Children[Block(w)]) \in SUBSET Blocks
      BY <2>2, GraphAssumption DEF ToSet
    <2>4. PICK kids : kids = ToSet(Children[Block(w)])
      OBVIOUS
    <2>5. CASE t2 = RememberChildren(t, Block(w), kids)
      <3>1. PICK b : b = Block(w)
        OBVIOUS
      <3>2. b \in Blocks /\ kids \in SUBSET Blocks /\ t2 = RememberChildren(t, b, kids)
        BY <2>2, <2>3, <2>4, <2>5, <3>1
      <3>3. PICK t1 \in Trackers :
               /\ t2.failure_templates = t.failure_templates
               /\ Spreads(t1, t2, t.block_roots[b], kids)
        BY <1>2, <3>2, RememberFacts
      <3> QED BY <2>1, <3>3
    <2>6. CASE t2 = RememberChildren(Record(t, Block(w), "DecodeSourceBlock"), Block(w), {})
      <3>1. PICK u, none : u = RecordEach(t, {Block(w)}, "DecodeSourceBlock") /\ none = {}
        OBVIOUS
      <3>2. /\ u \in Trackers
            /\ \A b \in Blocks, o \in Operations :
                  TimesRecorded(u, b, o) = TimesRecorded(t, b, o)
                     + (IF b \in {Block(w)} /\ o = "DecodeSourceBlock" THEN 1 ELSE 0)
        BY <1>3, <1>4, <2>1, <3>1 DEF Operations
      <3>3. t2 = RememberChildren(u, Block(w), none) /\ none \in SUBSET Blocks
        BY <2>6, <3>1 DEF Record
      <3>4. t2.failure_templates = u.failure_templates
        <4>1. PICK b : b = Block(w)
          OBVIOUS
        <4>2. b \in Blocks /\ none \in SUBSET Blocks /\ t2 = RememberChildren(u, b, none)
          BY <2>2, <3>3, <4>1
        <4>3. PICK t1 \in Trackers :
                 /\ t2.failure_templates = u.failure_templates
                 /\ Spreads(t1, t2, u.block_roots[b], none)
          BY <3>2, <4>2, RememberFacts
        <4> QED BY <4>3
      <3>5. \A b \in Blocks, o \in Operations : TimesRecorded(t2, b, o) = TimesRecorded(u, b, o)
        BY <3>4 DEF TimesRecorded
      <3> QED BY <2>1, <3>2, <3>5
    <2> QED BY <1>1, <1>8, <2>4, <2>5, <2>6 DEF ReadAndDecode
  <1>9. ASSUME NEW v \in Writers, NEW good \in SUBSET JobPlaces(v), NEW bad \in SUBSET JobPlaces(v),
               Completes(v, good, bad)
        PROVE  /\ v \in PublishingWriters
               /\ \A b \in Blocks, o \in Operations :
                     TimesRecorded(t2, b, o) = TimesRecorded(t, b, o)
                        + (IF o = "WriteDestinationBlock" /\ (\E i \in bad : b = writer[v].jobs[i])
                           THEN 1 ELSE 0)
    <2>1. v \in PublishingWriters
      BY <1>9 DEF Completes, PublishingWriters
    <2>2. PICK blocks : blocks = {writer[v].jobs[i] : i \in bad}
      OBVIOUS
    <2>3. blocks \in SUBSET Blocks
      BY <1>0, <2>2, PlacesHoldBlocks
    <2>4. t2 = RecordEach(t, blocks, "WriteDestinationBlock")
      BY <1>1, <1>9, <2>2 DEF Completes, RecordCompletions
    <2>5. \A b \in Blocks, o \in Operations :
             TimesRecorded(t2, b, o) = TimesRecorded(t, b, o)
                + (IF b \in blocks /\ o = "WriteDestinationBlock" THEN 1 ELSE 0)
      BY <1>3, <2>3, <2>4 DEF Operations
    <2>6. \A b : b \in blocks <=> \E i \in bad : b = writer[v].jobs[i]
      BY <2>2
    <2> QED BY <2>1, <2>5, <2>6
  <1>10. CASE tracker' = RecordStoreFailure(tracker, Roots, "CompactDestinationStore")
    BY <1>1, <1>2, <1>5, <1>10, StoreFailureFacts
  <1>11. CASE tracker' = tracker
    BY <1>1, <1>5, <1>11
  <1>12. CASE \E w \in Workers : NoteRoot(w)
    BY <1>5, <1>6, <1>12
  <1>13. CASE \E w \in Workers : ReadFails(w) \/ CheckFails(w)
    BY <1>1, <1>7, <1>13
  <1>14. CASE \E w \in Workers : ReadAndDecode(w)
    BY <1>1, <1>5, <1>8, <1>14 DEF Operations
  <1>15. CASE \E v \in Writers : \E good, bad \in SUBSET JobPlaces(v) : Completes(v, good, bad)
    BY <1>1, <1>9, <1>15
  <1> QED BY <1>0, <1>10, <1>11, <1>12, <1>13, <1>14, <1>15, TrackerCases

\* Where a queued or published job came from.
LEMMA JobsBefore ==
    ASSUME CopyInv, [Next]_vars
    PROVE  /\ \A i \in QueuePlaces' :
                 \/ \E j \in QueuePlaces : write_queue'[i] = write_queue[j]
                 \/ \E w \in HandlingWorkers :
                       Accepts(w) /\ stage[w] = "enqueue_write" /\ write_queue'[i] = Block(w)
           /\ \A v \in PublishingWriters' : \A i \in JobPlaces(v)' :
                 \/ /\ v \in PublishingWriters /\ i \in JobPlaces(v)
                    /\ writer'[v].jobs[i] = writer[v].jobs[i]
                    /\ \A good, bad \in SUBSET JobPlaces(v) : ~Completes(v, good, bad)
                 \/ Takes(v) /\ \E j \in QueuePlaces : writer'[v].jobs[i] = write_queue[j]
  <1>0. WorkInv /\ WriteInv /\ OutcomeTypeOK
    BY DEF CopyInv
  <1>1. ASSUME NEW v \in PublishingWriters', NEW good \in SUBSET JobPlaces(v),
               NEW bad \in SUBSET JobPlaces(v), Completes(v, good, bad)
        PROVE  FALSE
    <2>1. v \in Writers
      BY DEF PublishingWriters
    <2>2. PublishingWriters' = PublishingWriters \ {v}
      BY <1>0, <1>1, <2>1, CompletesEffect
    <2> QED BY <2>2
  <1>2. CASE NoNewPlace
    <2>1. QueuePlaces' \subseteq QueuePlaces /\ \A i \in QueuePlaces' : write_queue'[i] = write_queue[i]
      BY <1>2 DEF NoNewPlace, QueuePlaces
    <2>2. \A v \in PublishingWriters' : /\ v \in PublishingWriters /\ writer'[v].jobs = writer[v].jobs
                                        /\ JobPlaces(v)' = JobPlaces(v)
      BY <1>2 DEF NoNewPlace, JobPlaces
    <2> QED BY <1>1, <2>1, <2>2
  <1>3. CASE \E w \in Workers : Visit(w)
    <2>1. /\ UNCHANGED <<write_queue, writer>> /\ PublishingWriters' = PublishingWriters
      BY <1>0, <1>3, VisitEffect
    <2>2. QueuePlaces' = QueuePlaces /\ \A v : JobPlaces(v)' = JobPlaces(v)
      BY <2>1 DEF QueuePlaces, JobPlaces
    <2> QED BY <1>1, <2>1, <2>2
  <1>4. ASSUME NEW w \in Workers, Accepts(w)
        PROVE  /\ \A i \in QueuePlaces' :
                     \/ \E j \in QueuePlaces : write_queue'[i] = write_queue[j]
                     \/ /\ w \in HandlingWorkers
                        /\ Accepts(w) /\ stage[w] = "enqueue_write" /\ write_queue'[i] = Block(w)
               /\ UNCHANGED writer /\ PublishingWriters' = PublishingWriters
    <2>1. /\ w \in HandlingWorkers /\ stage[w] = "enqueue_write"
          /\ QueuePlaces' = QueuePlaces \cup {Len(write_queue) + 1}
          /\ \A i \in QueuePlaces : write_queue'[i] = write_queue[i]
          /\ write_queue'[Len(write_queue) + 1] = Block(w)
          /\ PublishingWriters' = PublishingWriters /\ UNCHANGED writer
      BY <1>0, <1>4, AcceptsEffect
    <2> QED BY <1>4, <2>1
  <1>5. ASSUME NEW v \in Writers, Takes(v)
        PROVE  /\ \A i \in QueuePlaces' : \E j \in QueuePlaces : write_queue'[i] = write_queue[j]
               /\ \A i \in JobPlaces(v)' : \E j \in QueuePlaces : writer'[v].jobs[i] = write_queue[j]
               /\ \A u \in PublishingWriters' \ {v} : /\ u \in PublishingWriters
                                                     /\ writer'[u].jobs = writer[u].jobs
    <2>1. PICK n \in QueuePlaces :
              /\ PublishingWriters' = PublishingWriters \cup {v}
              /\ \A u \in Writers \ {v} : writer'[u] = writer[u]
              /\ JobPlaces(v)' = 1..n
              /\ \A i \in 1..n : i \in QueuePlaces /\ writer'[v].jobs[i] = write_queue[i]
              /\ \A i \in QueuePlaces' : /\ n + i \in QueuePlaces
                                         /\ write_queue'[i] = write_queue[n + i]
      BY <1>0, <1>5, TakesEffect
    <2>2. PublishingWriters \subseteq Writers
      BY DEF PublishingWriters
    <2> QED BY <2>1, <2>2
  <1>6. ASSUME NEW v \in Writers, NEW good \in SUBSET JobPlaces(v), NEW bad \in SUBSET JobPlaces(v),
               Completes(v, good, bad)
        PROVE  /\ UNCHANGED write_queue
               /\ \A u \in PublishingWriters' : /\ u \in PublishingWriters
                                                /\ writer'[u].jobs = writer[u].jobs
    <2>1. /\ PublishingWriters' = PublishingWriters \ {v}
          /\ \A u \in Writers \ {v} : writer'[u] = writer[u]
          /\ UNCHANGED write_queue
      BY <1>0, <1>6, CompletesEffect
    <2>2. PublishingWriters \subseteq Writers
      BY DEF PublishingWriters
    <2> QED BY <2>1, <2>2
  <1>7. CASE \E w \in Workers : Accepts(w)
    <2>1. PICK w \in Workers : Accepts(w)
      BY <1>7
    <2>2. /\ \A i \in QueuePlaces' :
                 \/ \E j \in QueuePlaces : write_queue'[i] = write_queue[j]
                 \/ /\ w \in HandlingWorkers
                    /\ Accepts(w) /\ stage[w] = "enqueue_write" /\ write_queue'[i] = Block(w)
          /\ UNCHANGED writer /\ PublishingWriters' = PublishingWriters
      BY <1>4, <2>1
    <2>3. \A v : JobPlaces(v)' = JobPlaces(v)
      BY <2>2 DEF JobPlaces
    <2> QED BY <1>1, <2>2, <2>3
  <1>8. CASE \E v \in Writers : Takes(v)
    <2>1. PICK v \in Writers : Takes(v)
      BY <1>8
    <2>2. /\ \A i \in QueuePlaces' : \E j \in QueuePlaces : write_queue'[i] = write_queue[j]
          /\ \A i \in JobPlaces(v)' : \E j \in QueuePlaces : writer'[v].jobs[i] = write_queue[j]
          /\ \A u \in PublishingWriters' \ {v} : /\ u \in PublishingWriters
                                                /\ writer'[u].jobs = writer[u].jobs
      BY <1>5, <2>1
    <2>3. \A u \in PublishingWriters' \ {v} : JobPlaces(u)' = JobPlaces(u)
      BY <2>2 DEF JobPlaces
    <2> QED BY <1>1, <2>1, <2>2, <2>3
  <1>9. CASE \E v \in Writers : \E good, bad \in SUBSET JobPlaces(v) : Completes(v, good, bad)
    <2>1. /\ UNCHANGED write_queue
          /\ \A u \in PublishingWriters' : /\ u \in PublishingWriters
                                           /\ writer'[u].jobs = writer[u].jobs
      BY <1>6, <1>9
    <2>2. /\ QueuePlaces' = QueuePlaces
          /\ \A u \in PublishingWriters' : JobPlaces(u)' = JobPlaces(u)
      BY <2>1 DEF QueuePlaces, JobPlaces
    <2> QED BY <1>1, <2>1, <2>2
  <1> QED BY <1>0, <1>2, <1>3, <1>7, <1>8, <1>9, PlaceCases

\* A claim is never withdrawn.
LEMMA VisitedGrows ==
    ASSUME WorkInv, WriteInv, [Next]_vars
    PROVE  visited \subseteq visited'
  <1>1. ASSUME NEW w \in Workers, Visit(w) PROVE visited \subseteq visited'
    BY <1>1 DEF Visit
  <1>2. ASSUME NEW w \in Workers, Accepts(w) PROVE visited' = visited
    BY <1>2 DEF Accepts, EnqueueStep
  <1>3. ASSUME NEW v \in Writers, Takes(v) PROVE visited' = visited
    BY <1>3 DEF Takes, WriterActs, reportVars
  <1>4. ASSUME NEW v \in Writers, NEW good \in SUBSET JobPlaces(v),
               NEW bad \in SUBSET JobPlaces(v), Completes(v, good, bad)
        PROVE  visited' = visited
    BY <1>4 DEF Completes, RecordCompletions
  <1> QED BY <1>1, <1>2, <1>3, <1>4, PlaceCases

\* Every step records an operation on a block as failed at most once.
LEMMA FailedOnceStep ==
    ASSUME CopyInv, [Next]_vars
    PROVE  FailedOnce'
  <1>0. /\ WorkInv /\ WriteInv /\ OutcomeTypeOK /\ OnePlace /\ HandledIsUnfinished /\ FailedOnce
        /\ tracker \in Trackers
    BY DEF CopyInv, OutcomeTypeOK
  <1>1. /\ \A w \in HandlingWorkers : Block(w) \in Blocks
        /\ \A i \in QueuePlaces : write_queue[i] \in Blocks
        /\ \A v \in Writers : \A i \in JobPlaces(v) : writer[v].jobs[i] \in Blocks
        /\ PublishingWriters \subseteq Writers
    BY <1>0, PlacesHoldBlocks DEF PublishingWriters
  <1>2. \A b \in Blocks, o \in Operations : TimesRecorded(tracker, b, o) \in Nat
    BY <1>0, CountsType
  <1>3. {"ReadSourceBlock", "DecodeSourceBlock", "CheckDestinationBlock", "WriteDestinationBlock"}
           \subseteq Operations
    BY DEF Operations
  <1>4. visited \subseteq visited'
    BY <1>0, VisitedGrows
  <1> DEFINE rec(b, o)  == TimesRecorded(tracker, b, o)
             recN(b, o) == TimesRecorded(tracker', b, o)
  \* Only the block of the acting worker, or the jobs of the publishing writer, change.
  <1>5. ASSUME NEW b \in Blocks, NEW o \in Operations, recN(b, o) # rec(b, o)
        PROVE  /\ recN(b, o) = rec(b, o) + 1 /\ rec(b, o) = 0 /\ b \in visited
               /\ o # "CompactDestinationStore"
               /\ \/ /\ o # "WriteDestinationBlock"
                     /\ \E w \in HandlingWorkers :
                        /\ b = Block(w)
                        /\ \/ ReadFails(w) /\ o = "ReadSourceBlock"
                           \/ ReadAndDecode(w) /\ o = "DecodeSourceBlock"
                           \/ CheckFails(w) /\ o = "CheckDestinationBlock"
                  \/ /\ o = "WriteDestinationBlock"
                     /\ \E v \in PublishingWriters : \E good, bad \in SUBSET JobPlaces(v) :
                           Completes(v, good, bad) /\ \E i \in bad : b = writer[v].jobs[i]
    <2>1. CASE \E w \in HandlingWorkers, op \in Operations :
                 /\ \/ ReadFails(w) /\ op = "ReadSourceBlock"
                    \/ ReadAndDecode(w) /\ op = "DecodeSourceBlock"
                    \/ CheckFails(w) /\ op = "CheckDestinationBlock"
                 /\ \A x \in Blocks, p \in Operations :
                       recN(x, p) = rec(x, p) + (IF x = Block(w) /\ p = op THEN 1 ELSE 0)
      <3>1. PICK w \in HandlingWorkers, op \in Operations :
                 /\ \/ ReadFails(w) /\ op = "ReadSourceBlock"
                    \/ ReadAndDecode(w) /\ op = "DecodeSourceBlock"
                    \/ CheckFails(w) /\ op = "CheckDestinationBlock"
                 /\ \A x \in Blocks, p \in Operations :
                       recN(x, p) = rec(x, p) + (IF x = Block(w) /\ p = op THEN 1 ELSE 0)
        BY <2>1
      <3>2. b = Block(w) /\ o = op /\ recN(b, o) = rec(b, o) + 1
        BY <1>2, <1>5, <3>1
      <3>3. rec(Block(w), op) = 0 /\ Block(w) \in visited
        BY <1>0, <3>1 DEF FailedOnce, ReadFails, ReadAndDecode, CheckFails, WorkerMoves,
               HandledIsUnfinished, Unfinished
      <3> QED BY <3>1, <3>2, <3>3
    <2>2. CASE \E v \in PublishingWriters : \E good, bad \in SUBSET JobPlaces(v) :
                 /\ Completes(v, good, bad)
                 /\ \A x \in Blocks, p \in Operations :
                       recN(x, p) = rec(x, p)
                          + (IF p = "WriteDestinationBlock" /\ (\E i \in bad : x = writer[v].jobs[i])
                             THEN 1 ELSE 0)
      <3>1. PICK v \in PublishingWriters : \E good, bad \in SUBSET JobPlaces(v) :
                 /\ Completes(v, good, bad)
                 /\ \A x \in Blocks, p \in Operations :
                       recN(x, p) = rec(x, p)
                          + (IF p = "WriteDestinationBlock" /\ (\E i \in bad : x = writer[v].jobs[i])
                             THEN 1 ELSE 0)
        BY <2>2
      <3>2. PICK good, bad \in SUBSET JobPlaces(v) :
                 /\ Completes(v, good, bad)
                 /\ \A x \in Blocks, p \in Operations :
                       recN(x, p) = rec(x, p)
                          + (IF p = "WriteDestinationBlock" /\ (\E i \in bad : x = writer[v].jobs[i])
                             THEN 1 ELSE 0)
        BY <3>1
      <3>3. o = "WriteDestinationBlock" /\ \E i \in bad : b = writer[v].jobs[i]
        BY <1>2, <1>5, <3>2
      <3>4. PICK i \in bad : b = writer[v].jobs[i]
        BY <3>3
      <3>5. rec(b, o) = 0 /\ b \in visited
        BY <1>0, <3>3, <3>4 DEF FailedOnce, HandledIsUnfinished, Unfinished
      <3>6. recN(b, o) = rec(b, o) + 1
        BY <1>5, <3>2, <3>3
      <3> QED BY <3>2, <3>3, <3>4, <3>5, <3>6
    <2> QED BY <1>5, <2>1, <2>2, RecordedCases
  <1>6. ASSUME NEW b \in Blocks, NEW o \in Operations
        PROVE  /\ recN(b, o) <= 1
               /\ b \notin visited' \/ o = "CompactDestinationStore" => recN(b, o) = 0
    BY <1>0, <1>2, <1>4, <1>5 DEF FailedOnce
  <1> HIDE DEF rec, recN
  <1>7. ASSUME NEW w \in HandlingWorkers'
        PROVE  /\ recN(Block(w)', "WriteDestinationBlock") = 0
               /\ stage'[w] # "enqueue_write" => recN(Block(w)', "CheckDestinationBlock") = 0
               /\ stage'[w] = "read" => /\ recN(Block(w)', "ReadSourceBlock") = 0
                                        /\ recN(Block(w)', "DecodeSourceBlock") = 0
    <2>1. CASE Visit(w) /\ w \in Workers /\ Block(w) \notin visited /\ item'[w] = item[w]
               /\ Block(w) \in Blocks
      <3>1. \A o \in Operations : rec(Block(w), o) = 0
        BY <1>0, <2>1 DEF FailedOnce, rec
      <3>2. \A o \in Operations : recN(Block(w), o) = 0
        BY <1>5, <2>1, <3>1
      <3> QED BY <1>3, <2>1, <3>2 DEF Block
    <2>2. CASE /\ w \in HandlingWorkers /\ item'[w] = item[w]
               /\ stage'[w] = "read" => stage[w] = "read" /\ ~ReadAndDecode(w)
               /\ stage'[w] # "enqueue_write" => stage[w] # "enqueue_write"
               /\ ~ReadFails(w) /\ ~CheckFails(w)
      <3>1. Block(w)' = Block(w) /\ Block(w) \in Blocks
        BY <1>1, <2>2 DEF Block
      <3>2. \A u \in HandlingWorkers : Block(u) = Block(w) => u = w
        BY <1>0, <2>2 DEF OnePlace
      <3>3. \A v \in PublishingWriters : \A i \in JobPlaces(v) : writer[v].jobs[i] # Block(w)
        BY <1>0, <2>2 DEF OnePlace
      <3>4. recN(Block(w), "WriteDestinationBlock") = rec(Block(w), "WriteDestinationBlock")
        BY <1>3, <1>5, <3>1, <3>3
      <3>5. recN(Block(w), "CheckDestinationBlock") = rec(Block(w), "CheckDestinationBlock")
        BY <1>3, <1>5, <2>2, <3>1, <3>2
      <3>6. recN(Block(w), "ReadSourceBlock") = rec(Block(w), "ReadSourceBlock")
        BY <1>3, <1>5, <2>2, <3>1, <3>2
      <3>7. ~ReadAndDecode(w) =>
               recN(Block(w), "DecodeSourceBlock") = rec(Block(w), "DecodeSourceBlock")
        BY <1>3, <1>5, <3>1, <3>2
      <3>8. /\ rec(Block(w), "WriteDestinationBlock") = 0
            /\ stage[w] # "enqueue_write" => rec(Block(w), "CheckDestinationBlock") = 0
            /\ stage[w] = "read" => /\ rec(Block(w), "ReadSourceBlock") = 0
                                    /\ rec(Block(w), "DecodeSourceBlock") = 0
        BY <1>0, <2>2 DEF FailedOnce, rec
      <3> QED BY <2>2, <3>1, <3>4, <3>5, <3>6, <3>7, <3>8
    <2> QED BY <2>1, <2>2, HandlersBefore
  <1>8. ASSUME NEW b \in Blocks, rec(b, "WriteDestinationBlock") = 0,
               \A v \in PublishingWriters : \A good, bad \in SUBSET JobPlaces(v) :
                  Completes(v, good, bad) => \A i \in bad : writer[v].jobs[i] # b
        PROVE  recN(b, "WriteDestinationBlock") = 0
    BY <1>3, <1>5, <1>8
  <1>9. ASSUME NEW i \in QueuePlaces' PROVE recN(write_queue'[i], "WriteDestinationBlock") = 0
    <2>1. CASE \E j \in QueuePlaces : write_queue'[i] = write_queue[j]
      <3>1. PICK j \in QueuePlaces : write_queue'[i] = write_queue[j]
        BY <2>1
      <3>2. /\ \A v \in PublishingWriters : \A k \in JobPlaces(v) : writer[v].jobs[k] # write_queue[j]
            /\ rec(write_queue[j], "WriteDestinationBlock") = 0
        BY <1>0 DEF OnePlace, FailedOnce, rec
      <3> QED BY <1>1, <1>8, <3>1, <3>2
    <2>2. CASE \E w \in HandlingWorkers : write_queue'[i] = Block(w)
      <3>1. PICK w \in HandlingWorkers : write_queue'[i] = Block(w)
        BY <2>2
      <3>2. /\ \A v \in PublishingWriters : \A k \in JobPlaces(v) : writer[v].jobs[k] # Block(w)
            /\ rec(Block(w), "WriteDestinationBlock") = 0
        BY <1>0 DEF OnePlace, FailedOnce, rec
      <3> QED BY <1>1, <1>8, <3>1, <3>2
    <2> QED BY <2>1, <2>2, JobsBefore
  <1>10. ASSUME NEW v \in PublishingWriters', NEW i \in JobPlaces(v)'
         PROVE  recN(writer'[v].jobs[i], "WriteDestinationBlock") = 0
    <2>1. CASE \E j \in QueuePlaces : writer'[v].jobs[i] = write_queue[j]
      <3>1. PICK j \in QueuePlaces : writer'[v].jobs[i] = write_queue[j]
        BY <2>1
      <3>2. /\ \A u \in PublishingWriters : \A k \in JobPlaces(u) : writer[u].jobs[k] # write_queue[j]
            /\ rec(write_queue[j], "WriteDestinationBlock") = 0
        BY <1>0 DEF OnePlace, FailedOnce, rec
      <3> QED BY <1>1, <1>8, <3>1, <3>2
    <2>2. CASE /\ v \in PublishingWriters /\ i \in JobPlaces(v)
               /\ writer'[v].jobs[i] = writer[v].jobs[i]
               /\ \A good, bad \in SUBSET JobPlaces(v) : ~Completes(v, good, bad)
      <3>1. rec(writer[v].jobs[i], "WriteDestinationBlock") = 0 /\ writer[v].jobs[i] \in Blocks
        BY <1>0, <1>1, <2>2 DEF FailedOnce, rec
      <3>2. ASSUME NEW u \in PublishingWriters, NEW good \in SUBSET JobPlaces(u),
                   NEW bad \in SUBSET JobPlaces(u), Completes(u, good, bad), NEW k \in bad
            PROVE  writer[u].jobs[k] # writer[v].jobs[i]
        BY <1>0, <2>2, <3>2 DEF OnePlace
      <3> QED BY <1>8, <2>2, <3>1, <3>2
    <2> QED BY <2>1, <2>2, JobsBefore
  <1> QED BY <1>6, <1>7, <1>9, <1>10 DEF FailedOnce, TimesRecorded, rec, recN

-----------------------------------------------------------------------------
(* What the copy learns of the graph. *)

\* A worker notes the root of its item.
LEMMA NoteEffect ==
    ASSUME CopyInv, NEW w \in Workers, NoteRoot(w)
    PROVE  \E r, b \in Blocks, roots, starts \in SUBSET Blocks, t2 \in Trackers :
              /\ r = Root(w) /\ b = Block(w) /\ roots = {r} /\ starts = {b} /\ t2 = tracker'
              /\ w \in Holders
              /\ t2.failure_templates = tracker.failure_templates
              /\ t2.discovered_children = tracker.discovered_children
              /\ Spreads(tracker, t2, roots, starts)
  <1>0. WorkInv /\ tracker \in Trackers
    BY DEF CopyInv, OutcomeTypeOK
  <1>1. w \in Holders
    BY DEF NoteRoot, WorkerMoves, Holders, HoldingStages
  <1>2. PICK r, b, t, t2 : r = Root(w) /\ b = Block(w) /\ t = tracker /\ t2 = tracker'
    OBVIOUS
  <1>3. r \in Blocks /\ b \in Blocks /\ t \in Trackers
    BY <1>0, <1>1, <1>2 DEF WorkInv, WorkTypeOK, Items, Root, Block
  <1>4. t2 = NoteBlockRoot(t, r, b)
    BY <1>2 DEF NoteRoot
  <1>5. PICK roots, starts : roots = {r} /\ starts = {b}
    OBVIOUS
  <1>6. roots \in SUBSET Blocks /\ starts \in SUBSET Blocks /\ t2 = AssociateRoots(t, roots, starts)
    BY <1>3, <1>4, <1>5 DEF NoteBlockRoot
  <1>7. /\ t2 \in Trackers
        /\ t2.failure_templates = t.failure_templates
        /\ t2.discovered_children = t.discovered_children
        /\ Spreads(t, t2, roots, starts)
    BY <1>3, <1>6, AssociationSpreads
  <1> USE <1>3, <1>6, <1>7
  <1> WITNESS r \in Blocks, b \in Blocks, roots \in SUBSET Blocks, starts \in SUBSET Blocks,
              t2 \in Trackers
  <1> QED BY <1>1, <1>2, <1>5, <1>7

\* A worker remembers the children of the block it read; none if it could not be
\* decoded, which is recorded.
Learns(w, b, t1, t2, roots, kids) ==
    /\ b \in Blocks /\ t1 \in Trackers /\ t2 \in Trackers
    /\ roots \in SUBSET Blocks /\ kids \in SUBSET Blocks
    /\ b = Block(w) /\ t2 = tracker' /\ w \in HandlingWorkers /\ stage[w] = "read"
    /\ roots = tracker.block_roots[b]
    /\ t1.block_roots = tracker.block_roots
    /\ t1.discovered_children = [tracker.discovered_children EXCEPT ![b] = kids]
    /\ t2.discovered_children = t1.discovered_children
    /\ t2.failure_templates = t1.failure_templates
    /\ Spreads(t1, t2, roots, kids)
    /\ \/ /\ kids = ToSet(Children[b])
          /\ \A x \in Blocks, o \in Operations : TimesRecorded(t1, x, o) = TimesRecorded(tracker, x, o)
          /\ \A r, x \in Blocks, o \in Operations :
                TimesReported(t1, r, x, o) = TimesReported(tracker, r, x, o)
       \/ /\ kids = {}
          /\ \A x \in Blocks, o \in Operations :
                TimesRecorded(t1, x, o) = TimesRecorded(tracker, x, o)
                   + (IF x = b /\ o = "DecodeSourceBlock" THEN 1 ELSE 0)
          /\ \A r, x \in Blocks, o \in Operations :
                TimesReported(t1, r, x, o) = TimesReported(tracker, r, x, o)
                   + (IF x = b /\ o = "DecodeSourceBlock" /\ r \in roots THEN 1 ELSE 0)

\* decode_source_block and remember_children, as Learns says.
LEMMA ReadEffect ==
    ASSUME CopyInv, NEW w \in Workers, ReadAndDecode(w)
    PROVE  \E b, t1, t2, roots, kids : Learns(w, b, t1, t2, roots, kids)
  <1>0. WorkInv /\ WriteInv /\ tracker \in Trackers
    BY DEF CopyInv, OutcomeTypeOK
  <1>1. w \in HandlingWorkers /\ stage[w] = "read"
    BY DEF ReadAndDecode, WorkerMoves, HandlingWorkers, HandlingStages
  <1>2. PICK b, t, t2, kids : b = Block(w) /\ t = tracker /\ t2 = tracker' /\ kids = ToSet(Children[b])
    OBVIOUS
  <1>3. b \in Blocks /\ t \in Trackers
    BY <1>0, <1>1, <1>2, PlacesHoldBlocks
  <1>4. kids \in SUBSET Blocks
    BY <1>2, <1>3, GraphAssumption DEF ToSet
  <1>5. PICK roots : roots = t.block_roots[b]
    OBVIOUS
  <1>6. roots \in SUBSET Blocks
    BY <1>3, <1>5 DEF Trackers
  <1>7. CASE t2 = RememberChildren(t, b, kids)
    <2>1. PICK t1 \in Trackers :
              /\ t1.block_roots = t.block_roots
              /\ t1.failure_templates = t.failure_templates /\ t1.failures = t.failures
              /\ t1.discovered_children = [t.discovered_children EXCEPT ![b] = kids]
              /\ t2 \in Trackers
              /\ t2.failure_templates = t.failure_templates
              /\ t2.discovered_children = t1.discovered_children
              /\ Spreads(t1, t2, t.block_roots[b], kids)
      BY <1>3, <1>4, <1>7, RememberFacts
    <2>2. /\ \A x \in Blocks, o \in Operations : TimesRecorded(t1, x, o) = TimesRecorded(t, x, o)
          /\ \A r, x \in Blocks, o \in Operations : TimesReported(t1, r, x, o) = TimesReported(t, r, x, o)
      BY <2>1 DEF TimesRecorded, TimesReported
    <2>3. Learns(w, b, t1, t2, roots, kids)
      BY <1>1, <1>2, <1>3, <1>4, <1>5, <1>6, <2>1, <2>2 DEF Learns
    <2> QED BY <2>3
  <1>8. CASE t2 = RememberChildren(Record(t, b, "DecodeSourceBlock"), b, {})
    <2>1. PICK u, none, one, op : /\ u = RecordEach(t, one, op)
                                  /\ none = {} /\ one = {b} /\ op = "DecodeSourceBlock"
      OBVIOUS
    <2>2. none \in SUBSET Blocks /\ one \in SUBSET Blocks /\ op \in Operations
      BY <1>3, <2>1 DEF Operations
    <2>3. t2 = RememberChildren(u, b, none)
      BY <1>8, <2>1 DEF Record
    <2>0. u = RecordEach(t, one, op)
      BY <2>1
    <2>4. /\ u \in Trackers
          /\ u.block_roots = t.block_roots
          /\ u.discovered_children = t.discovered_children
      BY <1>3, <2>0, <2>2, RecordEachFacts
    <2>9. u \in Trackers
      BY <2>4
    <2>10. \A x \in Blocks, o \in Operations :
              TimesRecorded(u, x, o) = TimesRecorded(t, x, o) + (IF x \in one /\ o = op THEN 1 ELSE 0)
      BY <1>3, <2>0, <2>2, <2>9, RecordEachFacts
    <2>11. \A r, x \in Blocks, o \in Operations :
              TimesReported(u, r, x, o) = TimesReported(t, r, x, o)
                 + (IF x \in one /\ o = op /\ r \in t.block_roots[x] THEN 1 ELSE 0)
      BY <1>3, <2>0, <2>2, <2>9, RecordEachFacts
    <2>5. PICK t1 \in Trackers :
              /\ t1.block_roots = u.block_roots
              /\ t1.failure_templates = u.failure_templates /\ t1.failures = u.failures
              /\ t1.discovered_children = [u.discovered_children EXCEPT ![b] = none]
              /\ t2 \in Trackers
              /\ t2.failure_templates = u.failure_templates
              /\ t2.discovered_children = t1.discovered_children
              /\ Spreads(t1, t2, u.block_roots[b], none)
      BY <1>3, <2>2, <2>3, <2>4, RememberFacts
    <2>6. /\ \A x \in Blocks, o \in Operations : TimesRecorded(t1, x, o) = TimesRecorded(u, x, o)
          /\ \A r, x \in Blocks, o \in Operations : TimesReported(t1, r, x, o) = TimesReported(u, r, x, o)
      BY <2>5 DEF TimesRecorded, TimesReported
    <2>8. one = {b} /\ none = {} /\ op = "DecodeSourceBlock"
      BY <2>1
    <2>7. /\ \A x \in Blocks, o \in Operations :
                TimesRecorded(t1, x, o) = TimesRecorded(t, x, o)
                   + (IF x = b /\ o = "DecodeSourceBlock" THEN 1 ELSE 0)
          /\ \A r, x \in Blocks, o \in Operations :
                TimesReported(t1, r, x, o) = TimesReported(t, r, x, o)
                   + (IF x = b /\ o = "DecodeSourceBlock" /\ r \in roots THEN 1 ELSE 0)
      BY <1>5, <2>8, <2>10, <2>11, <2>6
    <2>12. Learns(w, b, t1, t2, roots, none)
      BY <1>1, <1>2, <1>3, <1>5, <1>6, <2>2, <2>4, <2>5, <2>7, <2>8 DEF Learns
    <2> QED BY <2>12
  <1> QED BY <1>2, <1>7, <1>8 DEF ReadAndDecode

\* Other steps learn nothing.
LEMMA NothingLearnt ==
    ASSUME CopyInv, [Next]_vars, \A w \in Workers : ~NoteRoot(w) /\ ~ReadAndDecode(w)
    PROVE  /\ tracker'.block_roots = tracker.block_roots
           /\ tracker'.discovered_children = tracker.discovered_children
  <1>0. WorkInv /\ WriteInv /\ tracker \in Trackers
    BY DEF CopyInv, OutcomeTypeOK
  <1>1. PICK t, t2 : t = tracker /\ t2 = tracker'
    OBVIOUS
  <1>2. t \in Trackers
    BY <1>0, <1>1
  <1>3. ASSUME NEW blocks \in SUBSET Blocks, NEW op \in Operations, t2 = RecordEach(t, blocks, op)
        PROVE  /\ t2.block_roots = t.block_roots
               /\ t2.discovered_children = t.discovered_children
    BY <1>2, <1>3, RecordEachKeeps
  <1>4. ASSUME NEW w \in Workers, ReadFails(w) \/ CheckFails(w)
        PROVE  /\ t2.block_roots = t.block_roots
               /\ t2.discovered_children = t.discovered_children
    <2>1. w \in HandlingWorkers
      BY <1>4 DEF ReadFails, CheckFails, WorkerMoves, HandlingWorkers, HandlingStages
    <2>2. {Block(w)} \in SUBSET Blocks
      BY <1>0, <2>1, PlacesHoldBlocks
    <2>3. \E op \in Operations : t2 = RecordEach(t, {Block(w)}, op)
      BY <1>1, <1>4 DEF ReadFails, CheckFails, Record, Operations
    <2> QED BY <1>3, <2>2, <2>3
  <1>5. ASSUME NEW v \in Writers, NEW good \in SUBSET JobPlaces(v), NEW bad \in SUBSET JobPlaces(v),
               Completes(v, good, bad)
        PROVE  /\ t2.block_roots = t.block_roots
               /\ t2.discovered_children = t.discovered_children
    <2>1. PICK blocks : blocks = {writer[v].jobs[i] : i \in bad}
      OBVIOUS
    <2>2. blocks \in SUBSET Blocks
      BY <1>0, <2>1, PlacesHoldBlocks
    <2>3. t2 = RecordEach(t, blocks, "WriteDestinationBlock")
      BY <1>1, <1>5, <2>1 DEF Completes, RecordCompletions
    <2> QED BY <1>3, <2>2, <2>3 DEF Operations
  <1>6. CASE tracker' = RecordStoreFailure(tracker, Roots, "CompactDestinationStore")
    BY <1>1, <1>2, <1>6, StoreFailureFacts
  <1> QED BY <1>0, <1>1, <1>4, <1>5, <1>6, TrackerCases

-----------------------------------------------------------------------------
(* The report and the roots. *)

\* Every step keeps one reported failure per recorded one and root.
LEMMA ReportedStep ==
    ASSUME CopyInv, [Next]_vars
    PROVE  ReportedOnce'
  <1>0. WorkInv /\ WriteInv /\ tracker \in Trackers /\ ReportedOnce
    BY DEF CopyInv, OutcomeTypeOK
  <1>1. PICK t, t2 : t = tracker /\ t2 = tracker'
    OBVIOUS
  <1>2. /\ t \in Trackers
        /\ \A r, b \in Blocks, o \in Operations :
              TimesReported(t, r, b, o) = IF r \in t.block_roots[b] THEN TimesRecorded(t, b, o) ELSE 0
    BY <1>0, <1>1 DEF ReportedOnce
  <1> DEFINE Once(u) == \A r, b \in Blocks, o \in Operations :
              TimesReported(u, r, b, o) = IF r \in u.block_roots[b] THEN TimesRecorded(u, b, o) ELSE 0
  <1>3. \A b \in Blocks : \A o : TimesRecorded(t, b, o) \in Nat
    BY <1>2, CountsType
  <1>4. ASSUME NEW blocks \in SUBSET Blocks, NEW op \in Operations, t2 = RecordEach(t, blocks, op)
        PROVE  Once(t2)
    <2>0. t \in Trackers
      BY <1>2
    <2>1. t2.block_roots = t.block_roots
      BY <1>4, <2>0, RecordEachKeeps
    <2>2. t2 \in Trackers
      BY <1>4, <2>0, RecordEachKeeps
    <2>3. \A b \in Blocks, o \in Operations :
             TimesRecorded(t2, b, o) = TimesRecorded(t, b, o) + (IF b \in blocks /\ o = op THEN 1 ELSE 0)
      BY <1>4, <2>0, <2>2, RecordEachFacts
    <2>4. \A r, b \in Blocks, o \in Operations :
             TimesReported(t2, r, b, o) = TimesReported(t, r, b, o)
                + (IF b \in blocks /\ o = op /\ r \in t.block_roots[b] THEN 1 ELSE 0)
      BY <1>4, <2>0, <2>2, RecordEachFacts
    <2> SUFFICES ASSUME NEW r \in Blocks, NEW b \in Blocks, NEW o \in Operations
                 PROVE  TimesReported(t2, r, b, o) = IF r \in t2.block_roots[b] THEN TimesRecorded(t2, b, o) ELSE 0
      OBVIOUS
    <2>5. TimesReported(t, r, b, o) = IF r \in t.block_roots[b] THEN TimesRecorded(t, b, o) ELSE 0
      BY <1>2
    <2> QED BY <1>3, <2>1, <2>3, <2>4, <2>5
  <1>5. ASSUME NEW w \in Workers, ReadFails(w) \/ CheckFails(w)
        PROVE  Once(t2)
    <2>1. w \in HandlingWorkers
      BY <1>5 DEF ReadFails, CheckFails, WorkerMoves, HandlingWorkers, HandlingStages
    <2>2. {Block(w)} \in SUBSET Blocks
      BY <1>0, <2>1, PlacesHoldBlocks
    <2>3. \E op \in Operations : t2 = RecordEach(t, {Block(w)}, op)
      BY <1>1, <1>5 DEF ReadFails, CheckFails, Record, Operations
    <2> HIDE DEF Once
    <2> QED BY <1>4, <2>2, <2>3
  <1>6. ASSUME NEW v \in Writers, NEW good \in SUBSET JobPlaces(v), NEW bad \in SUBSET JobPlaces(v),
               Completes(v, good, bad)
        PROVE  Once(t2)
    <2>1. PICK blocks : blocks = {writer[v].jobs[i] : i \in bad}
      OBVIOUS
    <2>2. blocks \in SUBSET Blocks
      BY <1>0, <2>1, PlacesHoldBlocks
    <2>3. t2 = RecordEach(t, blocks, "WriteDestinationBlock")
      BY <1>1, <1>6, <2>1 DEF Completes, RecordCompletions
    <2> HIDE DEF Once
    <2> QED BY <1>4, <2>2, <2>3 DEF Operations
  <1>7. ASSUME NEW w \in Workers, NoteRoot(w) PROVE Once(t2)
    <2>1. PICK r, b \in Blocks, roots, starts \in SUBSET Blocks, u \in Trackers :
              /\ u = tracker'
              /\ u.failure_templates = tracker.failure_templates
              /\ Spreads(tracker, u, roots, starts)
      BY <1>7, NoteEffect
    <2>2. Spreads(t, u, roots, starts) /\ u.failure_templates = t.failure_templates /\ u = t2
      BY <1>1, <2>1
    <2>3. Once(u)
      BY <1>2, <2>2, SpreadReports
    <2> HIDE DEF Once
    <2> QED BY <2>2, <2>3
  <1>8. ASSUME NEW w \in Workers, ReadAndDecode(w) PROVE Once(t2)
    <2>1. PICK b, t1, u, roots, kids : Learns(w, b, t1, u, roots, kids)
      BY <1>8, ReadEffect
    <2>2. /\ b \in Blocks /\ t1 \in Trackers /\ u = t2
          /\ u.failure_templates = t1.failure_templates
          /\ Spreads(t1, u, roots, kids)
          /\ t1.block_roots = t.block_roots
          /\ roots = t.block_roots[b]
      BY <1>1, <2>1 DEF Learns
    <2>3. Once(t1)
      <3> SUFFICES ASSUME NEW r \in Blocks, NEW x \in Blocks, NEW o \in Operations
                   PROVE  TimesReported(t1, r, x, o)
                             = IF r \in t1.block_roots[x] THEN TimesRecorded(t1, x, o) ELSE 0
        OBVIOUS
      <3>1. TimesReported(t, r, x, o) = IF r \in t.block_roots[x] THEN TimesRecorded(t, x, o) ELSE 0
        BY <1>2
      <3>2. \/ /\ TimesRecorded(t1, x, o) = TimesRecorded(t, x, o)
               /\ TimesReported(t1, r, x, o) = TimesReported(t, r, x, o)
            \/ /\ TimesRecorded(t1, x, o) = TimesRecorded(t, x, o)
                     + (IF x = b /\ o = "DecodeSourceBlock" THEN 1 ELSE 0)
               /\ TimesReported(t1, r, x, o) = TimesReported(t, r, x, o)
                     + (IF x = b /\ o = "DecodeSourceBlock" /\ r \in roots THEN 1 ELSE 0)
        BY <1>1, <2>1 DEF Learns
      <3> QED BY <1>3, <2>2, <3>1, <3>2
    <2>4. Once(u)
      BY <2>2, <2>3, SpreadReports
    <2> HIDE DEF Once
    <2> QED BY <2>2, <2>4
  <1>9. ASSUME tracker' = RecordStoreFailure(tracker, Roots, "CompactDestinationStore")
        PROVE  Once(t2)
    <2>1. t2 = RecordStoreFailure(t, Roots, "CompactDestinationStore")
      BY <1>1, <1>9
    <2>2. /\ t2 \in Trackers
          /\ t2.block_roots = t.block_roots
          /\ t2.failure_templates = t.failure_templates
          /\ \A r, b \in Blocks, o \in Operations : TimesReported(t2, r, b, o) = TimesReported(t, r, b, o)
      BY <1>2, <2>1, StoreFailureFacts
    <2>3. \A b \in Blocks, o \in Operations : TimesRecorded(t2, b, o) = TimesRecorded(t, b, o)
      BY <2>2 DEF TimesRecorded
    <2>4. Once(t2)
      BY <1>2, <2>2, <2>3
    <2> QED BY <2>4
  <1>10. ASSUME tracker' = tracker PROVE Once(t2)
    BY <1>1, <1>2, <1>10
  <1> HIDE DEF Once
  <1>11. Once(t2)
    BY <1>0, <1>5, <1>6, <1>7, <1>8, <1>9, <1>10, TrackerCases
  <1> QED BY <1>1, <1>11 DEF Once, ReportedOnce, TimesReported, TimesRecorded

\* Where a worker at work has got to.
LEMMA StageCases ==
    ASSUME WorkInv, WriteInv, [Next]_vars, NEW w \in Workers, stage[w] \in BusyStages
    PROVE  \/ stage'[w] = stage[w] /\ item'[w] = item[w]
           \/ WorkerStep(w) \/ WorkerPanic(w)
  <1>0. /\ stage \in [Workers -> HoldingStages \cup FreeStages]
        /\ item \in [Workers -> Items \cup {NoItem}]
    BY DEF WorkInv, WorkTypeOK
  <1>1. ASSUME NEW u \in Workers, u # w, WorkerStep(u)
        PROVE  stage'[w] = stage[w] /\ item'[w] = item[w]
    BY <1>0, <1>1 DEF WorkerStep, WorkerPops, Pop, PopStopped, PopItem, PopExhausted, PopWaits,
           NoteRoot, Visit, ReadFails, ReadAndDecode, CheckStop, PushChildren, EnqueueChildren,
           DestinationStopped, AlreadyPresent, CheckFails, Submit, EnqueueWrite, EnqueueStep,
           WorkerFinishes, FinishItem, WorkerUnwinds, UnwindItem, RequestWorkShutdown,
           WorkerMoves, Moves
  <1>2. CASE \E v \in Writers : WriterStep(v)
    BY <1>2 DEF WriterStep, WriterActs, WriterPublishes, WriterCompletes, WriterCheckpoints,
             WriterUnwinds, RequestWorkShutdown, Quiet, workVars
  <1>3. CASE OtherStep
    <2>1. CASE \E u \in Workers : WorkerPanic(u)
      BY <1>0, <2>1 DEF WorkerPanic, Moves
    <2>2. CASE ~\E u \in Workers : WorkerPanic(u)
      BY <1>3, <2>2 DEF OtherStep, PollerStep, RequestWorkShutdown, MainStep, OperatorInterrupt,
               ThreadPanics, SpuriousWakes, SpuriousPopWake, Stopped, Quiet, vars, workVars
    <2> QED BY <2>1, <2>2
  <1>4. CASE UNCHANGED vars
    BY <1>4 DEF vars, workVars
  <1> QED BY <1>1, <1>2, <1>3, <1>4 DEF Next, OtherStep

\* Reading and decoding failures are recorded by the worker that handles the block.
LEMMA ReadRecords ==
    ASSUME CopyInv, [Next]_vars, NEW b \in Blocks, NEW o \in {"ReadSourceBlock", "DecodeSourceBlock"},
           TimesRecorded(tracker', b, o) # TimesRecorded(tracker, b, o)
    PROVE  \E w \in HandlingWorkers :
              /\ b = Block(w)
              /\ \/ ReadFails(w) /\ o = "ReadSourceBlock"
                 \/ ReadAndDecode(w) /\ o = "DecodeSourceBlock"
  <1>1. o \in Operations /\ TimesRecorded(tracker, b, o) \in Nat
    BY CountsType DEF Operations, CopyInv, OutcomeTypeOK
  <1>2. CASE \E w \in HandlingWorkers, op \in Operations :
                 /\ \/ ReadFails(w) /\ op = "ReadSourceBlock"
                    \/ ReadAndDecode(w) /\ op = "DecodeSourceBlock"
                    \/ CheckFails(w) /\ op = "CheckDestinationBlock"
                 /\ \A x \in Blocks, p \in Operations :
                       TimesRecorded(tracker', x, p) = TimesRecorded(tracker, x, p)
                          + (IF x = Block(w) /\ p = op THEN 1 ELSE 0)
    <2>1. PICK w \in HandlingWorkers, op \in Operations :
                 /\ \/ ReadFails(w) /\ op = "ReadSourceBlock"
                    \/ ReadAndDecode(w) /\ op = "DecodeSourceBlock"
                    \/ CheckFails(w) /\ op = "CheckDestinationBlock"
                 /\ \A x \in Blocks, p \in Operations :
                       TimesRecorded(tracker', x, p) = TimesRecorded(tracker, x, p)
                          + (IF x = Block(w) /\ p = op THEN 1 ELSE 0)
      BY <1>2
    <2>2. b = Block(w) /\ o = op
      BY <1>1, <2>1
    <2> QED BY <2>1, <2>2
  <1> QED BY <1>1, <1>2, RecordedCases

\* The worker that decodes a block learns all of its children, or records a failure.
LEMMA ReadOutcome ==
    ASSUME CopyInv, [Next]_vars, NEW w \in Workers, ReadAndDecode(w)
    PROVE  /\ w \in HandlingWorkers /\ stage[w] = "read" /\ Block(w) \in Blocks
           /\ \A x \in Blocks \ {Block(w)} :
                 tracker'.discovered_children[x] = tracker.discovered_children[x]
           /\ \/ /\ tracker'.discovered_children[Block(w)] = ToSet(Children[Block(w)])
                 /\ TimesRecorded(tracker', Block(w), "DecodeSourceBlock") = 0
              \/ /\ tracker'.discovered_children[Block(w)] = {}
                 /\ TimesRecorded(tracker', Block(w), "DecodeSourceBlock") = 1
  <1>1. PICK b, t1, u, roots, kids : Learns(w, b, t1, u, roots, kids)
    BY ReadEffect
  <1>2. /\ b \in Blocks /\ u \in Trackers /\ u = tracker' /\ b = Block(w)
        /\ w \in HandlingWorkers /\ stage[w] = "read"
        /\ u.discovered_children = [tracker.discovered_children EXCEPT ![b] = kids]
        /\ u.failure_templates = t1.failure_templates
    BY <1>1 DEF Learns
  <1>3. tracker.discovered_children \in [Blocks -> SUBSET Blocks]
    BY DEF CopyInv, OutcomeTypeOK, Trackers
  <1>4. /\ u.discovered_children[b] = kids
        /\ \A x \in Blocks \ {b} : u.discovered_children[x] = tracker.discovered_children[x]
    BY <1>2, <1>3
  <1>5. TimesRecorded(u, b, "DecodeSourceBlock") = TimesRecorded(t1, b, "DecodeSourceBlock")
    BY <1>2 DEF TimesRecorded
  <1>6. TimesRecorded(tracker, b, "DecodeSourceBlock") = 0
    BY <1>2 DEF CopyInv, FailedOnce
  <1>7. \/ kids = ToSet(Children[b]) /\ TimesRecorded(t1, b, "DecodeSourceBlock") = 0
        \/ kids = {} /\ TimesRecorded(t1, b, "DecodeSourceBlock") = 1
    BY <1>1, <1>2, <1>6 DEF Learns, Operations
  <1> QED BY <1>2, <1>4, <1>5, <1>7

\* Only decoding a block changes its known children.
LEMMA ChildrenChange ==
    ASSUME CopyInv, [Next]_vars, NEW b \in Blocks,
           tracker'.discovered_children[b] # tracker.discovered_children[b]
    PROVE  \E w \in HandlingWorkers : Block(w) = b /\ ReadAndDecode(w)
  <1>1. CASE \E w \in Workers : ReadAndDecode(w)
    BY <1>1, ReadOutcome
  <1>2. ASSUME NEW w \in Workers, NoteRoot(w) PROVE FALSE
    <2>1. PICK r, x \in Blocks, roots, starts \in SUBSET Blocks, u \in Trackers :
              /\ u = tracker'
              /\ u.failure_templates = tracker.failure_templates
              /\ u.discovered_children = tracker.discovered_children
              /\ Spreads(tracker, u, roots, starts)
      BY <1>2, NoteEffect
    <2> QED BY <2>1
  <1> QED BY <1>1, <1>2, NothingLearnt

\* The children a worker goes on to queue.
LEMMA DecodedAre ==
    ASSUME OutcomeTypeOK, OutcomeTypeOK', NEW w, Block(w) \in Blocks, item'[w] = item[w]
    PROVE  /\ Block(w)' = Block(w)
           /\ DecodedChildren(w) = IF TimesRecorded(tracker, Block(w), "DecodeSourceBlock") > 0
                                   THEN <<>> ELSE Children[Block(w)]
           /\ DecodedChildren(w)' = IF TimesRecorded(tracker', Block(w), "DecodeSourceBlock") > 0
                                    THEN <<>> ELSE Children[Block(w)]
  <1>1. tracker \in Trackers /\ tracker' \in Trackers
    BY DEF OutcomeTypeOK
  <1>2. Block(w)' = Block(w)
    BY DEF Block
  <1>3. \A o : /\ BagIn(o, tracker.failure_templates[Block(w)]) <=> TimesRecorded(tracker, Block(w), o) > 0
               /\ BagIn(o, tracker'.failure_templates[Block(w)]) <=> TimesRecorded(tracker', Block(w), o) > 0
    BY <1>1, CountsType
  <1> QED BY <1>2, <1>3 DEF DecodedChildren

\* A worker that has decoded its block keeps what it is going to queue.
LEMMA DecodedKept ==
    ASSUME CopyInv, [Next]_vars, NEW w \in Workers, stage[w] \in {"check_stop", "push_children"},
           item'[w] = item[w]
    PROVE  /\ w \in HandlingWorkers /\ Block(w) \in Blocks /\ Block(w)' = Block(w)
           /\ DecodedChildren(w)' = DecodedChildren(w)
           /\ tracker'.discovered_children[Block(w)] = tracker.discovered_children[Block(w)]
  <1>0. OutcomeTypeOK /\ OutcomeTypeOK' /\ WorkInv /\ WriteInv /\ OnePlace
    BY OutcomeTypeStep DEF CopyInv
  <1>1. w \in HandlingWorkers
    BY DEF HandlingWorkers, HandlingStages
  <1>2. Block(w) \in Blocks
    BY <1>0, <1>1, PlacesHoldBlocks
  <1>3. ASSUME NEW u \in HandlingWorkers, Block(u) = Block(w), ReadAndDecode(u) PROVE FALSE
    <2>1. u = w
      BY <1>0, <1>1, <1>3 DEF OnePlace
    <2> QED BY <1>3, <2>1 DEF ReadAndDecode, WorkerMoves
  <1>4. TimesRecorded(tracker', Block(w), "DecodeSourceBlock") = TimesRecorded(tracker, Block(w), "DecodeSourceBlock")
    BY <1>2, <1>3, ReadRecords
  <1>5. tracker'.discovered_children[Block(w)] = tracker.discovered_children[Block(w)]
    BY <1>2, <1>3, ChildrenChange
  <1> QED BY <1>0, <1>1, <1>2, <1>4, <1>5, DecodedAre

\* Every step keeps what is known of children true and complete.
LEMMA ChildrenStep ==
    ASSUME CopyInv, [Next]_vars
    PROVE  ChildrenKnown'
  <1>0. /\ OutcomeTypeOK /\ OutcomeTypeOK' /\ WorkInv /\ WriteInv /\ OnePlace /\ HandledIsUnfinished
        /\ ChildrenKnown /\ FailedOnce
    BY OutcomeTypeStep DEF CopyInv
  <1>1. visited \subseteq visited' /\ visited' \subseteq Blocks
    BY <1>0, VisitedGrows DEF OutcomeTypeOK
  <1>2. {"ReadSourceBlock", "DecodeSourceBlock"} \in SUBSET Operations
    BY DEF Operations
  <1>3. \A b \in Blocks :
           /\ Undecoded(b) <=> \E o \in {"ReadSourceBlock", "DecodeSourceBlock"} : TimesRecorded(tracker, b, o) > 0
           /\ Undecoded(b)' <=> \E o \in {"ReadSourceBlock", "DecodeSourceBlock"} : TimesRecorded(tracker', b, o) > 0
    BY <1>0, <1>2, FailedCounts DEF Undecoded
  <1>4. \A b \in Blocks : Undecoded(b) => Undecoded(b)'
    BY <1>2, FailedStays DEF Undecoded
  <1>5. \A b \in Blocks : tracker'.discovered_children[b] \subseteq ToSet(Children[b])
    <2> SUFFICES ASSUME NEW b \in Blocks PROVE tracker'.discovered_children[b] \subseteq ToSet(Children[b])
      OBVIOUS
    <2>1. CASE tracker'.discovered_children[b] = tracker.discovered_children[b]
      BY <1>0, <2>1 DEF ChildrenKnown
    <2>2. CASE \E w \in HandlingWorkers : Block(w) = b /\ ReadAndDecode(w)
      BY <2>2, ReadOutcome DEF HandlingWorkers
    <2> QED BY <2>1, <2>2, ChildrenChange
  <1>6. ASSUME NEW b \in Blocks, b \notin visited' \/ Undecoded(b)'
        PROVE  tracker'.discovered_children[b] = {}
    <2>1. CASE \E w \in HandlingWorkers : Block(w) = b /\ ReadAndDecode(w)
      <3>1. PICK w \in HandlingWorkers : Block(w) = b /\ ReadAndDecode(w)
        BY <2>1
      <3>2. w \in Workers /\ stage[w] = "read" /\ b \in visited
        BY <1>0, <3>1 DEF HandlingWorkers, ReadAndDecode, WorkerMoves, HandledIsUnfinished, Unfinished
      <3>3. Undecoded(b)'
        BY <1>1, <1>6, <3>2
      <3>4. TimesRecorded(tracker, b, "ReadSourceBlock") = 0
        BY <1>0, <3>1, <3>2 DEF FailedOnce
      <3>5. TimesRecorded(tracker', b, "ReadSourceBlock") = 0
        <4>1. ASSUME NEW u \in HandlingWorkers, Block(u) = b, ReadFails(u) PROVE FALSE
          <5>1. u = w
            BY <1>0, <3>1, <4>1 DEF OnePlace
          <5>2. stage \in [Workers -> HoldingStages \cup FreeStages] /\ u \in Workers
            BY <1>0 DEF WorkInv, WorkTypeOK, HandlingWorkers
          <5>3. stage'[w] = "finish" /\ stage'[w] = "check_stop"
            BY <3>1, <4>1, <5>1, <5>2 DEF ReadFails, ReadAndDecode, WorkerMoves, Moves
          <5> QED BY <5>3
        <4> QED BY <3>4, <4>1, ReadRecords
      <3>6. TimesRecorded(tracker', b, "DecodeSourceBlock") > 0
        BY <1>3, <3>3, <3>5
      <3> QED BY <3>1, <3>2, <3>6, ReadOutcome
    <2>2. CASE ~\E w \in HandlingWorkers : Block(w) = b /\ ReadAndDecode(w)
      <3>1. tracker'.discovered_children[b] = tracker.discovered_children[b]
        BY <2>2, ChildrenChange
      <3>2. CASE b \notin visited \/ Undecoded(b)
        BY <1>0, <3>1, <3>2 DEF ChildrenKnown
      <3>3. CASE b \in visited /\ ~Undecoded(b)
        <4>1. Undecoded(b)'
          BY <1>1, <1>6, <3>3
        <4>2. PICK o \in {"ReadSourceBlock", "DecodeSourceBlock"} :
                 TimesRecorded(tracker', b, o) # TimesRecorded(tracker, b, o)
          BY <1>3, <3>3, <4>1
        <4>3. PICK w \in HandlingWorkers : b = Block(w) /\ ReadFails(w)
          BY <2>2, <4>2, ReadRecords
        <4>4. stage[w] = "read"
          BY <4>3 DEF ReadFails, WorkerMoves
        <4> QED BY <1>0, <3>1, <4>3, <4>4 DEF ChildrenKnown
      <3> QED BY <3>2, <3>3
    <2> QED BY <2>1, <2>2
  <1>7. ASSUME NEW w \in HandlingWorkers', stage'[w] = "read"
        PROVE  tracker'.discovered_children[Block(w)'] = {}
    <2>1. Block(w)' = Block(w) /\ Block(w) \in Blocks
          /\ tracker.discovered_children[Block(w)] = {}
          /\ ~\E u \in HandlingWorkers : Block(u) = Block(w) /\ ReadAndDecode(u)
      <3>1. CASE /\ Block(w) \in Blocks
                 /\ Block(w) \notin visited /\ item'[w] = item[w]
        BY <1>0, <3>1 DEF ChildrenKnown, Block, HandledIsUnfinished, Unfinished
      <3>2. CASE /\ w \in HandlingWorkers /\ item'[w] = item[w]
                 /\ stage[w] = "read" /\ ~ReadAndDecode(w)
        <4>1. Block(w) \in Blocks
          BY <1>0, <3>2, PlacesHoldBlocks
        <4> QED BY <1>0, <3>2, <4>1 DEF ChildrenKnown, Block, OnePlace
      <3> QED BY <1>7, <3>1, <3>2, HandlersBefore
    <2> QED BY <2>1, ChildrenChange
  <1>8. ASSUME NEW w \in HandlingWorkers', stage'[w] \in {"check_stop", "push_children"}
        PROVE  ToSet(DecodedChildren(w)') = tracker'.discovered_children[Block(w)']
    <2>1. /\ w \in HandlingWorkers /\ item'[w] = item[w] /\ w \in Workers
          /\ stage[w] \in {"check_stop", "push_children"} \/ ReadAndDecode(w)
      BY <1>8, HandlersBefore DEF HandlingWorkers
    <2>2. CASE stage[w] \in {"check_stop", "push_children"}
      <3>1. ToSet(DecodedChildren(w)) = tracker.discovered_children[Block(w)]
        BY <1>0, <2>1, <2>2 DEF ChildrenKnown
      <3>2. /\ Block(w)' = Block(w)
            /\ DecodedChildren(w)' = DecodedChildren(w)
            /\ tracker'.discovered_children[Block(w)] = tracker.discovered_children[Block(w)]
        BY <2>1, <2>2, DecodedKept
      <3> QED BY <3>1, <3>2
    <2>3. CASE ReadAndDecode(w)
      <3>1. Block(w) \in Blocks
        BY <1>0, <2>1, PlacesHoldBlocks
      <3>2. /\ Block(w)' = Block(w)
            /\ DecodedChildren(w)' = IF TimesRecorded(tracker', Block(w), "DecodeSourceBlock") > 0
                                     THEN <<>> ELSE Children[Block(w)]
        BY <1>0, <2>1, <3>1, DecodedAre
      <3>3. \/ /\ tracker'.discovered_children[Block(w)] = ToSet(Children[Block(w)])
               /\ TimesRecorded(tracker', Block(w), "DecodeSourceBlock") = 0
            \/ /\ tracker'.discovered_children[Block(w)] = {}
               /\ TimesRecorded(tracker', Block(w), "DecodeSourceBlock") = 1
        BY <2>1, <2>3, ReadOutcome
      <3>4. ToSet(<<>>) = {}
        BY DEF ToSet
      <3>5. CASE /\ tracker'.discovered_children[Block(w)] = ToSet(Children[Block(w)])
                 /\ TimesRecorded(tracker', Block(w), "DecodeSourceBlock") = 0
        <4>1. DecodedChildren(w)' = Children[Block(w)]
          BY <3>2, <3>5
        <4> QED BY <3>2, <3>5, <4>1, Zenon
      <3>6. CASE /\ tracker'.discovered_children[Block(w)] = {}
                 /\ TimesRecorded(tracker', Block(w), "DecodeSourceBlock") = 1
        <4>1. DecodedChildren(w)' = <<>>
          BY <3>2, <3>6
        <4> QED BY <3>2, <3>4, <3>6, <4>1, Zenon
      <3> QED BY <3>3, <3>5, <3>6
    <2> QED BY <2>1, <2>2, <2>3
  <1>9. ASSUME NEW b \in visited', ~Cut', ~Undecoded(b)',
               tracker'.discovered_children[b] # ToSet(Children[b])
        PROVE  \E w \in HandlingWorkers' : stage'[w] = "read" /\ Block(w)' = b
    <2>0. stage \in [Workers -> HoldingStages \cup FreeStages] /\ b \in Blocks /\ StopHasReason'
      BY <1>0, <1>1, StopStep DEF WorkInv, WorkTypeOK
    <2>1. CASE b \in visited
      <3>1. ~\E w \in HandlingWorkers : Block(w) = b /\ ReadAndDecode(w)
        <4> SUFFICES ASSUME NEW w \in HandlingWorkers, Block(w) = b, ReadAndDecode(w) PROVE FALSE
          OBVIOUS
        <4>1. w \in Workers
          BY DEF HandlingWorkers
        <4>2. TimesRecorded(tracker', b, "DecodeSourceBlock") = 1
          BY <1>9, <4>1, ReadOutcome
        <4> QED BY <1>3, <1>9, <2>0, <4>2
      <3>2. tracker.discovered_children[b] # ToSet(Children[b])
        BY <1>9, <2>0, <3>1, ChildrenChange
      <3>3. ~Undecoded(b) /\ ~Cut
        BY <1>0, <1>4, <1>9, <2>0, CutStays
      <3>4. PICK w \in HandlingWorkers : stage[w] = "read" /\ Block(w) = b
        BY <1>0, <2>1, <3>2, <3>3 DEF ChildrenKnown
      <3>5. w \in Workers /\ stage[w] \in BusyStages
        BY <3>4 DEF HandlingWorkers, BusyStages, HoldingStages
      <3>6. ~WorkerPanic(w)
        <4> SUFFICES ASSUME WorkerPanic(w) PROVE FALSE
          OBVIOUS
        <4>1. stage'[w] \in PanicStages
          BY <2>0, <3>5 DEF WorkerPanic, Moves, PanicStages
        <4> QED BY <1>9, <2>0, <3>5, <4>1 DEF StopHasReason
      <3>7. ~ReadFails(w)
        <4> SUFFICES ASSUME ReadFails(w) PROVE FALSE
          OBVIOUS
        <4>1. tracker' = RecordEach(tracker, {b}, "ReadSourceBlock") /\ {b} \in SUBSET Blocks
          BY <2>0, <3>4 DEF ReadFails, Record
        <4>2. Failed(b, {"ReadSourceBlock", "DecodeSourceBlock"})'
          <5>1. PICK one, op, ops : one = {b} /\ op = "ReadSourceBlock"
                                    /\ ops = {"ReadSourceBlock", "DecodeSourceBlock"}
            OBVIOUS
          <5>2. /\ one \in SUBSET Blocks /\ op \in Operations /\ b \in one /\ ops \in SUBSET Operations
                /\ op \in ops /\ tracker' = RecordEach(tracker, one, op)
            BY <1>2, <4>1, <5>1
          <5>3. Failed(b, ops)'
            BY <5>2, RecordedIsFailed
          <5> QED BY <5>1, <5>3 DEF Failed
        <4> QED BY <1>9, <4>2 DEF Undecoded
      <3>8. stage'[w] = stage[w] /\ item'[w] = item[w]
        <4>1. ~ReadAndDecode(w)
          BY <3>1, <3>4
        <4>2. ~WorkerStep(w)
          BY <3>4, <3>7, <4>1 DEF WorkerStep, WorkerPops, Pop, PopStopped, PopItem, PopExhausted,
                 PopWaits, InPop, NoteRoot, Visit, CheckStop, PushChildren, EnqueueChildren,
                 DestinationStopped, AlreadyPresent, CheckFails, Submit, EnqueueWrite, EnqueueStep,
                 WorkerFinishes, FinishItem, WorkerUnwinds, UnwindItem, WorkerMoves
        <4> QED BY <1>0, <3>5, <3>6, <4>2, StageCases
      <3> QED BY <3>4, <3>5, <3>8 DEF HandlingWorkers, HandlingStages, Block
    <2>2. CASE b \notin visited
      <3>1. PICK w \in Workers : Visit(w)
        <4>1. ASSUME NEW w \in Workers, Accepts(w) PROVE visited' = visited
          BY <4>1 DEF Accepts, EnqueueStep
        <4>2. ASSUME NEW v \in Writers, Takes(v) PROVE visited' = visited
          BY <4>2 DEF Takes, WriterActs, reportVars
        <4>3. ASSUME NEW v \in Writers, NEW good \in SUBSET JobPlaces(v),
                     NEW bad \in SUBSET JobPlaces(v), Completes(v, good, bad)
              PROVE  visited' = visited
          BY <4>3 DEF Completes, RecordCompletions
        <4> QED BY <1>0, <2>2, <4>1, <4>2, <4>3, PlaceCases
      <3>2. /\ visited' = visited \cup {Block(w)} /\ item' = item
            /\ stage'[w] = IF Block(w) \in visited THEN "finish" ELSE "read"
        BY <1>0, <3>1, VisitEffect
      <3>3. b = Block(w) /\ stage'[w] = "read"
        BY <2>2, <3>2
      <3> QED BY <3>2, <3>3 DEF HandlingWorkers, HandlingStages, Block
    <2> QED BY <2>1, <2>2
  <1>10. \A b \in Blocks : b \notin visited' \/ Undecoded(b)' => tracker'.discovered_children[b] = {}
    BY <1>6
  <1>11. \A w \in HandlingWorkers' :
          /\ stage'[w] = "read" => tracker'.discovered_children[Block(w)'] = {}
          /\ stage'[w] \in {"check_stop", "push_children"} =>
                ToSet(DecodedChildren(w)') = tracker'.discovered_children[Block(w)']
    BY <1>7, <1>8
  <1>12. \A b \in visited' :
          \/ \E w \in HandlingWorkers' : stage'[w] = "read" /\ Block(w)' = b
          \/ Undecoded(b)' \/ tracker'.discovered_children[b] = ToSet(Children[b]) \/ Cut'
    BY <1>9
  <1>13. \A w : ToSet(DecodedChildren(w))' = ToSet(DecodedChildren(w)')
    BY DEF ToSet
  <1> QED BY <1>5, <1>10, <1>11, <1>12, <1>13 DEF ChildrenKnown, ToSet

\* Every step passes the roots of a block on to its known children.
LEMMA PropagateStep ==
    ASSUME CopyInv, [Next]_vars
    PROVE  RootsPropagate'
  <1>0. tracker \in Trackers /\ RootsPropagate /\ ItemsKnown
    BY DEF CopyInv, OutcomeTypeOK
  <1>1. CASE \A w \in Workers : ~NoteRoot(w) /\ ~ReadAndDecode(w)
    BY <1>0, <1>1, NothingLearnt DEF RootsPropagate
  <1>2. ASSUME NEW w \in Workers, NoteRoot(w) PROVE RootsPropagate'
    <2>1. PICK r, x \in Blocks, roots, starts \in SUBSET Blocks, u \in Trackers :
              /\ u = tracker'
              /\ u.failure_templates = tracker.failure_templates
              /\ u.discovered_children = tracker.discovered_children
              /\ Spreads(tracker, u, roots, starts)
      BY <1>2, NoteEffect
    <2>2. ASSUME NEW b \in Blocks, NEW c \in u.discovered_children[b]
          PROVE  u.block_roots[b] # {} /\ u.block_roots[b] \subseteq u.block_roots[c]
      <3>1. /\ c \in tracker.discovered_children[b] /\ c \in Blocks
            /\ tracker.block_roots[b] # {} /\ tracker.block_roots[b] \subseteq tracker.block_roots[c]
        BY <1>0, <2>1 DEF RootsPropagate, Trackers
      <3>2. /\ tracker.block_roots[b] \subseteq u.block_roots[b]
            /\ tracker.block_roots[c] \subseteq u.block_roots[c]
            /\ \A q \in u.block_roots[b] \ tracker.block_roots[b] : q \in u.block_roots[c]
        BY <2>1, <3>1 DEF Spreads
      <3> QED BY <3>1, <3>2
    <2> QED BY <2>1, <2>2 DEF RootsPropagate
  <1>3. ASSUME NEW w \in Workers, ReadAndDecode(w) PROVE RootsPropagate'
    <2>1. PICK x, t1, u, roots, kids : Learns(w, x, t1, u, roots, kids)
      BY <1>3, ReadEffect
    <2>2. /\ x \in Blocks /\ t1 \in Trackers /\ u \in Trackers /\ u = tracker'
          /\ x = Block(w) /\ w \in HandlingWorkers /\ stage[w] = "read"
          /\ kids \in SUBSET Blocks /\ roots = tracker.block_roots[x]
          /\ t1.block_roots = tracker.block_roots
          /\ t1.discovered_children = [tracker.discovered_children EXCEPT ![x] = kids]
          /\ u.discovered_children = t1.discovered_children
          /\ Spreads(t1, u, roots, kids)
      BY <2>1 DEF Learns
    <2>3. tracker.block_roots[x] # {}
      <3>1. w \in Holders /\ stage[w] \in NotedStages
        BY <2>2 DEF HandlingWorkers, HandlingStages, Holders, HoldingStages, NotedStages
      <3> QED BY <1>0, <2>2, <3>1 DEF ItemsKnown
    <2>4. ASSUME NEW b \in Blocks, NEW c \in u.discovered_children[b]
          PROVE  u.block_roots[b] # {} /\ u.block_roots[b] \subseteq u.block_roots[c]
      <3>0. c \in Blocks
        BY <2>2 DEF Trackers
      <3>1. /\ tracker.block_roots[b] \subseteq u.block_roots[b]
            /\ tracker.block_roots[c] \subseteq u.block_roots[c]
            /\ \A q \in u.block_roots[b] \ tracker.block_roots[b] :
                  \A d \in t1.discovered_children[b] : q \in u.block_roots[d]
            /\ \A y \in kids : roots \subseteq u.block_roots[y]
        BY <2>2, <3>0 DEF Spreads
      <3>2. tracker.discovered_children \in [Blocks -> SUBSET Blocks]
        BY <1>0 DEF Trackers
      <3>3. CASE b = x
        BY <2>2, <2>3, <3>1, <3>2, <3>3
      <3>4. CASE b # x
        <4>1. c \in tracker.discovered_children[b]
          BY <2>2, <3>2, <3>4
        <4>2. tracker.block_roots[b] # {} /\ tracker.block_roots[b] \subseteq tracker.block_roots[c]
          BY <1>0, <4>1 DEF RootsPropagate
        <4> QED BY <2>2, <3>1, <4>2
      <3> QED BY <3>3, <3>4
    <2> QED BY <2>2, <2>4 DEF RootsPropagate
  <1> QED BY <1>1, <1>2, <1>3

-----------------------------------------------------------------------------
(* The items of the traversal. *)

\* Only pop and enqueue_children change the work queue.
LEMMA WorkQueueCases ==
    ASSUME WorkInv, WriteInv, [Next]_vars
    PROVE  \/ work_queue' = work_queue
           \/ \E w \in Workers : PopItem(w) /\ WorkerPops(w)
           \/ \E w \in Workers : PushChildren(w)
  <1>1. CASE UNCHANGED vars
    BY <1>1 DEF vars, workVars
  <1>2. CASE \E w \in Workers : WorkerStep(w)
    BY <1>2 DEF WorkerStep, WorkerPops, Pop, PopStopped, PopExhausted, PopWaits,
           NoteRoot, Visit, ReadFails, ReadAndDecode, CheckStop,
           DestinationStopped, AlreadyPresent, CheckFails, Submit, EnqueueWrite, EnqueueStep,
           WorkerFinishes, FinishItem, WorkerUnwinds, UnwindItem, RequestWorkShutdown,
           WorkerMoves
  <1>3. CASE \E v \in Writers : WriterStep(v)
    BY <1>3 DEF WriterStep, WriterActs, WriterPublishes, WriterCompletes, WriterCheckpoints,
             WriterUnwinds, RequestWorkShutdown, Quiet, workVars
  <1>4. CASE OtherStep
    BY <1>4 DEF OtherStep, PollerStep, RequestWorkShutdown, MainStep, OperatorInterrupt,
               ThreadPanics, WorkerPanic, SpuriousWakes, SpuriousPopWake, Stopped, Quiet, vars, workVars
  <1> QED BY <1>1, <1>2, <1>3, <1>4 DEF Next, OtherStep

\* Where an item that a worker holds came from.
LEMMA HoldersBefore ==
    ASSUME WorkInv, WriteInv, [Next]_vars, NEW w \in Holders'
    PROVE  \/ /\ PopItem(w) /\ WorkerPops(w) /\ w \in Workers
              /\ item'[w] = Head(work_queue) /\ stage'[w] = "note_root"
           \/ /\ w \in Holders /\ item'[w] = item[w]
              /\ stage'[w] \in NotedStages => stage[w] \in NotedStages \/ NoteRoot(w)
  <1>0. /\ stage \in [Workers -> HoldingStages \cup FreeStages]
        /\ item \in [Workers -> Items \cup {NoItem}]
        /\ w \in Workers /\ stage'[w] \in HoldingStages
    BY DEF WorkInv, WorkTypeOK, Holders
  <1>1. CASE stage'[w] = stage[w] /\ item'[w] = item[w]
    BY <1>0, <1>1 DEF Holders
  <1>2. CASE stage[w] \in BusyStages
    <2>1. CASE WorkerPanic(w)
      BY <1>0, <1>2, <2>1 DEF WorkerPanic, Moves, Holders, BusyStages, NotedStages, HandlingStages
    <2>2. CASE WorkerStep(w)
      <3>1. w \in Holders
        BY <1>0, <1>2 DEF Holders, BusyStages
      <3>2. CASE Visit(w)
        BY <1>0, <3>1, <3>2 DEF Visit, WorkerMoves, NotedStages
      <3>3. CASE NoteRoot(w)
        BY <1>0, <3>1, <3>3 DEF NoteRoot, WorkerMoves
      <3>4. CASE \/ ReadFails(w) \/ ReadAndDecode(w) \/ DestinationStopped(w) \/ AlreadyPresent(w)
                 \/ CheckFails(w) \/ Submit(w) \/ CheckStop(w)
        BY <1>0, <3>1, <3>4 DEF ReadFails, ReadAndDecode, DestinationStopped, AlreadyPresent,
               CheckFails, Submit, CheckStop, WorkerMoves, NotedStages, HandlingStages
      <3>5. CASE PushChildren(w)
        BY <1>0, <3>1, <3>5 DEF PushChildren, EnqueueChildren, NotedStages, HandlingStages
      <3>6. CASE EnqueueWrite(w)
        BY <1>0, <3>1, <3>6 DEF EnqueueWrite, EnqueueStep, NotedStages, HandlingStages
      <3>7. ~WorkerPops(w) /\ ~WorkerFinishes(w) /\ ~WorkerUnwinds(w)
        BY <1>0, <1>2 DEF WorkerPops, Pop, PopStopped, PopItem, PopExhausted, PopWaits, InPop,
               WorkerFinishes, FinishItem, WorkerUnwinds, UnwindItem, Moves, BusyStages, HoldingStages
      <3> QED BY <2>2, <3>2, <3>3, <3>4, <3>5, <3>6, <3>7 DEF WorkerStep
    <2> QED BY <1>1, <1>2, <2>1, <2>2, StageCases, <1>0
  <1>3. CASE stage[w] \notin BusyStages
    <2>1. ASSUME NEW u \in Workers, u # w, WorkerStep(u)
          PROVE  stage'[w] = stage[w] /\ item'[w] = item[w]
      BY <1>0, <2>1 DEF WorkerStep, WorkerPops, Pop, PopStopped, PopItem, PopExhausted, PopWaits,
             NoteRoot, Visit, ReadFails, ReadAndDecode, CheckStop, PushChildren, EnqueueChildren,
             DestinationStopped, AlreadyPresent, CheckFails, Submit, EnqueueWrite, EnqueueStep,
             WorkerFinishes, FinishItem, WorkerUnwinds, UnwindItem, RequestWorkShutdown,
             WorkerMoves, Moves
    <2>2. CASE \E v \in Writers : WriterStep(v)
      <3>1. stage' = stage /\ item' = item
        BY <2>2 DEF WriterStep, WriterActs, WriterPublishes, WriterCompletes, WriterCheckpoints,
               WriterUnwinds, RequestWorkShutdown, Quiet, workVars
      <3> QED BY <1>1, <3>1
    <2>3. CASE OtherStep
      <3>1. CASE \E u \in Workers : WorkerPanic(u)
        BY <1>0, <1>1, <1>3, <3>1 DEF WorkerPanic, Moves, BusyStages, HoldingStages
      <3>2. CASE ~\E u \in Workers : WorkerPanic(u)
        <4>1. stage' = stage /\ item' = item
          BY <2>3, <3>2 DEF OtherStep, PollerStep, RequestWorkShutdown, MainStep, OperatorInterrupt,
                 ThreadPanics, SpuriousWakes, SpuriousPopWake, Stopped, Quiet, vars, workVars
        <4> QED BY <1>1, <4>1
      <3> QED BY <3>1, <3>2
    <2>4. CASE UNCHANGED vars
      BY <1>1, <2>4 DEF vars, workVars
    <2>5. CASE WorkerStep(w)
      <3>1. CASE WorkerPops(w)
        <4>1. CASE PopItem(w)
          BY <1>0, <3>1, <4>1 DEF PopItem, Moves
        <4>2. CASE ~PopItem(w)
          BY <1>0, <1>1, <3>1, <4>2 DEF WorkerPops, Pop, PopStopped, PopExhausted, PopWaits, Moves,
                 HoldingStages
        <4> QED BY <4>1, <4>2
      <3>2. ~WorkerUnwinds(w)
        BY <1>0 DEF WorkerUnwinds, UnwindItem, Moves, HoldingStages
      <3> QED
        BY <1>3, <2>5, <3>1, <3>2 DEF WorkerStep, NoteRoot, Visit, ReadFails, ReadAndDecode, CheckStop,
               PushChildren, EnqueueChildren, DestinationStopped, AlreadyPresent, CheckFails, Submit,
               EnqueueWrite, EnqueueStep, WorkerFinishes, FinishItem, WorkerMoves, BusyStages,
               HoldingStages
    <2> QED BY <1>1, <2>1, <2>2, <2>3, <2>4, <2>5 DEF Next, OtherStep
  <1> QED BY <1>2, <1>3

\* The items that PushChildren adds.
LEMMA PushedItems ==
    ASSUME CopyInv, NEW w \in Workers, PushChildren(w)
    PROVE  /\ w \in HandlingWorkers /\ stage[w] = "push_children" /\ Block(w) \in Blocks
           /\ Root(w) \in Blocks /\ Len(work_queue) \in Nat
           /\ \A i \in 1..Len(work_queue) : i \in 1..Len(work_queue') /\ work_queue'[i] = work_queue[i]
           /\ \A i \in 1..Len(work_queue') :
                 \/ i \in 1..Len(work_queue)
                 \/ \E c \in ToSet(DecodedChildren(w)) : work_queue'[i] = <<Root(w), c>>
           /\ ~work_shutdown => \A c \in ToSet(DecodedChildren(w)) :
                 \E i \in 1..Len(work_queue') : work_queue'[i] = <<Root(w), c>>
  <1>0. WorkInv /\ WriteInv /\ work_queue \in Seq(Items)
    BY DEF CopyInv, WorkInv, WorkTypeOK
  <1>1. stage[w] = "push_children" /\ w \in HandlingWorkers
    BY DEF PushChildren, EnqueueChildren, HandlingWorkers, HandlingStages
  <1>2. Root(w) \in Blocks /\ Block(w) \in Blocks
    BY <1>0, <1>1, PlacesHoldBlocks
  <1>3. PICK kids : kids = DecodedChildren(w)
    OBVIOUS
  <1>4. kids \in Seq(Blocks)
    BY <1>2, <1>3, GraphAssumption DEF DecodedChildren
  <1>5. CASE work_shutdown \/ kids = <<>>
    <2>1. work_queue' = work_queue
      BY <1>3, <1>5 DEF PushChildren, EnqueueChildren
    <2>2. ~work_shutdown => ToSet(DecodedChildren(w)) = {}
      BY <1>3, <1>5 DEF ToSet
    <2> QED BY <1>0, <1>1, <1>2, <2>1, <2>2
  <1>6. CASE ~work_shutdown /\ kids # <<>>
    <2>1. PICK more : more = [i \in 1..Len(kids) |-> <<Root(w), kids[i]>>]
      OBVIOUS
    <2>2. work_queue' = work_queue \o more
      BY <1>3, <1>6, <2>1 DEF PushChildren, EnqueueChildren, Root
    <2>3. /\ more \in Seq(Items) /\ Len(more) = Len(kids) /\ Len(kids) \in Nat
          /\ \A i \in 1..Len(kids) : more[i] = <<Root(w), kids[i]>> /\ kids[i] \in Blocks
      BY <1>2, <1>4, <2>1 DEF Items
    <2>4. /\ Len(work_queue) \in Nat
          /\ Len(work_queue') = Len(work_queue) + Len(kids)
          /\ \A i \in 1..Len(work_queue) : work_queue'[i] = work_queue[i]
          /\ \A i \in 1..Len(kids) : work_queue'[Len(work_queue) + i] = more[i]
      <3>1. PICK q, q2 : q = work_queue /\ q2 = work_queue'
        OBVIOUS
      <3>2. q \in Seq(Items) /\ q2 = q \o more
        BY <1>0, <2>2, <3>1
      <3>3. Len(q) \in Nat /\ Len(q2) = Len(q) + Len(more)
        <4>1. more \in Seq(Items)
          BY <2>3
        <4> QED BY <3>2, <4>1
      <3>4. \A i \in 1..Len(q) : q2[i] = q[i]
        BY <2>3, <3>2, <3>3
      <3>5. \A i \in 1..Len(more) : q2[Len(q) + i] = more[i]
        BY <2>3, <3>2, <3>3
      <3> QED BY <2>3, <3>1, <3>3, <3>4, <3>5
    <2>5. ToSet(kids) = {kids[i] : i \in 1..Len(kids)}
      BY <1>4 DEF ToSet
    <2>6. \A i \in 1..Len(work_queue) : i \in 1..Len(work_queue')
      BY <2>3, <2>4
    <2>7. ASSUME NEW i \in 1..Len(work_queue'), i \notin 1..Len(work_queue)
          PROVE  \E c \in ToSet(kids) : work_queue'[i] = <<Root(w), c>>
      <3>1. PICK j \in 1..Len(kids) : i = Len(work_queue) + j
        <4>1. i - Len(work_queue) \in 1..Len(kids) /\ i = Len(work_queue) + (i - Len(work_queue))
          BY <2>3, <2>4, <2>7
        <4> QED BY <4>1
      <3> QED BY <2>3, <2>4, <2>5, <3>1
    <2>8. ASSUME NEW c \in ToSet(kids)
          PROVE  \E i \in 1..Len(work_queue') : work_queue'[i] = <<Root(w), c>>
      <3>1. PICK j \in 1..Len(kids) : c = kids[j]
        BY <2>5
      <3>2. Len(work_queue) + j \in 1..Len(work_queue')
        BY <2>3, <2>4
      <3> QED BY <2>3, <2>4, <3>1, <3>2
    <2> QED BY <1>1, <1>2, <1>3, <2>4, <2>6, <2>7, <2>8
  <1> QED BY <1>5, <1>6

\* The item that a worker pops.
LEMMA PoppedItem ==
    ASSUME WorkInv, NEW w \in Workers, PopItem(w)
    PROVE  /\ Len(work_queue) \in Nat /\ 1 \in 1..Len(work_queue)
           /\ item'[w] = work_queue[1] /\ stage'[w] = "note_root"
           /\ Head(work_queue) = work_queue[1]
           /\ \A i \in 1..Len(work_queue') :
                 i + 1 \in 1..Len(work_queue) /\ work_queue'[i] = work_queue[i + 1]
           /\ \A i \in 1..Len(work_queue) :
                 \/ i = 1
                 \/ \E j \in 1..Len(work_queue') : work_queue'[j] = work_queue[i]
  <1>1. /\ work_queue \in Seq(Items) /\ work_queue # <<>>
        /\ stage \in [Workers -> HoldingStages \cup FreeStages]
        /\ item \in [Workers -> Items \cup {NoItem}]
    BY DEF WorkInv, WorkTypeOK, PopItem
  <1>2. /\ Len(work_queue) \in Nat /\ 1 \in 1..Len(work_queue)
        /\ Head(work_queue) = work_queue[1]
        /\ work_queue' = Tail(work_queue)
    BY <1>1 DEF PopItem
  <1>3. /\ Len(work_queue') = Len(work_queue) - 1
        /\ \A i \in 1..Len(work_queue') : work_queue'[i] = work_queue[i + 1]
    BY <1>1, <1>2
  <1>4. \A i \in 1..Len(work_queue') : i + 1 \in 1..Len(work_queue)
    BY <1>2, <1>3
  <1>5. ASSUME NEW i \in 1..Len(work_queue), i # 1
        PROVE  \E j \in 1..Len(work_queue') : work_queue'[j] = work_queue[i]
    <2>1. i - 1 \in 1..Len(work_queue') /\ (i - 1) + 1 = i
      BY <1>2, <1>3, <1>5
    <2> QED BY <1>3, <2>1
  <1>6. item'[w] = work_queue[1] /\ stage'[w] = "note_root"
    BY <1>1, <1>2 DEF PopItem, Moves
  <1> QED BY <1>2, <1>3, <1>4, <1>5, <1>6

\* Every step keeps the items, and the roots of blocks, to what is reached.
LEMMA ItemsStep ==
    ASSUME CopyInv, [Next]_vars
    PROVE  ItemsKnown'
  <1>0. /\ WorkInv /\ WriteInv /\ OutcomeTypeOK /\ tracker \in Trackers /\ tracker' \in Trackers
        /\ ItemsKnown /\ RootsPropagate /\ ChildrenKnown
    BY OutcomeTypeStep DEF CopyInv, OutcomeTypeOK
  <1>1. \A b \in Blocks : tracker.block_roots[b] \subseteq tracker'.block_roots[b]
    BY <1>0, TrackerGrows
  <1>2. work_queue \in Seq(Items) /\ \A i \in 1..Len(work_queue) : work_queue[i] \in Items
    BY <1>0 DEF WorkInv, WorkTypeOK
  <1>3. \A i \in 1..Len(work_queue) : work_queue[i][1] \in Blocks /\ work_queue[i][2] \in Blocks
    BY <1>2 DEF Items
  <1> DEFINE Good(q) == /\ q[1] \in Roots
                        /\ q[1] = q[2] \/ q[1] \in tracker'.block_roots[q[2]]
  <1>4. \A i \in 1..Len(work_queue) : Good(work_queue[i])
    BY <1>0, <1>1, <1>3 DEF ItemsKnown
  <1>5. \A w \in Holders : Root(w) \in Blocks /\ Block(w) \in Blocks
    BY <1>0 DEF WorkInv, WorkTypeOK, Items, Root, Block
  <1>6. \A i \in 1..Len(work_queue') : Good(work_queue'[i])
    <2>1. CASE work_queue' = work_queue
      BY <1>4, <2>1
    <2>2. ASSUME NEW w \in Workers, PopItem(w), NEW i \in 1..Len(work_queue')
          PROVE  Good(work_queue'[i])
      <3>1. i + 1 \in 1..Len(work_queue) /\ work_queue'[i] = work_queue[i + 1]
        BY <1>0, <2>2, PoppedItem
      <3>2. Good(work_queue[i + 1])
        BY <1>4, <3>1
      <3> QED BY <3>1, <3>2
    <2>3. ASSUME NEW w \in Workers, PushChildren(w), NEW i \in 1..Len(work_queue')
          PROVE  Good(work_queue'[i])
      <3>1. CASE i \in 1..Len(work_queue)
        BY <1>4, <2>3, <3>1, PushedItems
      <3>2. CASE i \notin 1..Len(work_queue)
        <4>1. /\ w \in HandlingWorkers /\ stage[w] = "push_children" /\ Block(w) \in Blocks
          BY <2>3, PushedItems
        <4>2. PICK c \in ToSet(DecodedChildren(w)) : work_queue'[i] = <<Root(w), c>>
          BY <2>3, <3>2, PushedItems
        <4>3. c \in tracker.discovered_children[Block(w)]
          BY <1>0, <4>1, <4>2 DEF ChildrenKnown
        <4>4. w \in Holders /\ stage[w] \in NotedStages
          BY <4>1 DEF HandlingWorkers, Holders, HoldingStages, NotedStages, HandlingStages
        <4>5. Root(w) \in Roots /\ Root(w) \in tracker.block_roots[Block(w)]
          BY <1>0, <4>4 DEF ItemsKnown
        <4>6. Root(w) \in tracker.block_roots[c] /\ c \in Blocks
          BY <1>0, <4>1, <4>3, <4>5 DEF RootsPropagate, Trackers
        <4>7. work_queue'[i][1] = Root(w) /\ work_queue'[i][2] = c
          BY <4>2
        <4> QED BY <1>1, <4>5, <4>6, <4>7
      <3> QED BY <3>1, <3>2
    <2> QED BY <1>0, <2>1, <2>2, <2>3, WorkQueueCases
  <1>7. ASSUME NEW w \in Holders'
        PROVE  /\ Root(w)' \in Roots
               /\ Root(w)' = Block(w)' \/ Root(w)' \in tracker'.block_roots[Block(w)']
               /\ stage'[w] \in NotedStages => Root(w)' \in tracker'.block_roots[Block(w)']
    <2>1. CASE PopItem(w) /\ w \in Workers
      <3>1. item'[w] = work_queue[1] /\ 1 \in 1..Len(work_queue) /\ stage'[w] = "note_root"
        BY <1>0, <2>1, PoppedItem
      <3>2. Good(item'[w]) /\ stage'[w] \notin NotedStages
        BY <1>4, <3>1 DEF NotedStages, HandlingStages
      <3> QED BY <3>2 DEF Root, Block
    <2>2. CASE /\ w \in Holders /\ item'[w] = item[w]
               /\ stage'[w] \in NotedStages => stage[w] \in NotedStages \/ NoteRoot(w)
      <3>1. Root(w)' = Root(w) /\ Block(w)' = Block(w) /\ Block(w) \in Blocks /\ Root(w) \in Blocks
        BY <1>5, <2>2 DEF Root, Block
      <3>2. /\ Root(w) \in Roots
            /\ Root(w) = Block(w) \/ Root(w) \in tracker.block_roots[Block(w)]
            /\ stage[w] \in NotedStages => Root(w) \in tracker.block_roots[Block(w)]
        BY <1>0, <2>2 DEF ItemsKnown
      <3>3. NoteRoot(w) => Root(w) \in tracker'.block_roots[Block(w)]
        <4> SUFFICES ASSUME NoteRoot(w) PROVE Root(w) \in tracker'.block_roots[Block(w)]
          OBVIOUS
        <4>0. w \in Workers
          BY <2>2 DEF Holders
        <4>1. PICK r, b \in Blocks, roots, starts \in SUBSET Blocks, u \in Trackers :
                  /\ r = Root(w) /\ b = Block(w) /\ roots = {r} /\ starts = {b} /\ u = tracker'
                  /\ w \in Holders
                  /\ u.failure_templates = tracker.failure_templates
                  /\ u.discovered_children = tracker.discovered_children
                  /\ Spreads(tracker, u, roots, starts)
          BY <4>0, NoteEffect
        <4>2. \A x \in starts : roots \subseteq u.block_roots[x]
          BY <4>1 DEF Spreads
        <4> QED BY <4>1, <4>2
      <3> QED BY <1>1, <2>2, <3>1, <3>2, <3>3
    <2> QED BY <1>0, <2>1, <2>2, HoldersBefore
  <1>8. ASSUME NEW b \in Blocks, NEW r \in tracker'.block_roots[b],
               NEW S \in SUBSET Blocks, r \in S, \A c \in S : tracker'.discovered_children[c] \subseteq S
        PROVE  r \in Roots /\ b \in S
    <2>0. tracker.discovered_children \in [Blocks -> SUBSET Blocks]
      BY <1>0 DEF Trackers
    <2>1. \A c \in S : tracker.discovered_children[c] \subseteq S
      <3> SUFFICES ASSUME NEW c \in S PROVE tracker.discovered_children[c] \subseteq S
        OBVIOUS
      <3>1. CASE tracker'.discovered_children[c] = tracker.discovered_children[c]
        BY <1>8, <3>1
      <3>2. CASE \E w \in HandlingWorkers : Block(w) = c /\ ReadAndDecode(w)
        BY <1>0, <3>2 DEF ChildrenKnown, ReadAndDecode, WorkerMoves
      <3> QED BY <3>1, <3>2, ChildrenChange
    <2>2. \A x \in Blocks : r \in tracker.block_roots[x] => x \in S /\ r \in Roots
      BY <1>0, <1>8, <2>1 DEF ItemsKnown, KnownFrom
    <2>3. CASE r \in tracker.block_roots[b]
      BY <2>2, <2>3
    <2>4. CASE r \notin tracker.block_roots[b]
      <3>1. CASE \A w \in Workers : ~NoteRoot(w) /\ ~ReadAndDecode(w)
        BY <2>4, <3>1, NothingLearnt
      <3>2. ASSUME NEW w \in Workers, NoteRoot(w) PROVE r \in Roots /\ b \in S
        <4>1. PICK q, x \in Blocks, roots, starts \in SUBSET Blocks, u \in Trackers :
                  /\ q = Root(w) /\ x = Block(w) /\ roots = {q} /\ starts = {x} /\ u = tracker'
                  /\ w \in Holders
                  /\ u.failure_templates = tracker.failure_templates
                  /\ u.discovered_children = tracker.discovered_children
                  /\ Spreads(tracker, u, roots, starts)
          BY <3>2, NoteEffect
        <4>2. r \in u.block_roots[b] \ tracker.block_roots[b]
          BY <2>4, <4>1
        <4>3. r \in roots
          BY <4>1, <4>2 DEF Spreads
        <4>4. r = q /\ q \in Roots /\ (q = x \/ q \in tracker.block_roots[x])
          BY <1>0, <4>1, <4>3 DEF ItemsKnown
        <4>5. starts \subseteq S
          BY <1>8, <2>2, <4>1, <4>4
        <4>6. b \in S
          BY <2>1, <4>1, <4>2, <4>3, <4>5 DEF Spreads
        <4> QED BY <4>4, <4>6
      <3>3. ASSUME NEW w \in Workers, ReadAndDecode(w) PROVE r \in Roots /\ b \in S
        <4>1. PICK x, t1, u, roots, kids : Learns(w, x, t1, u, roots, kids)
          BY <3>3, ReadEffect
        <4>2. /\ x \in Blocks /\ t1 \in Trackers /\ u \in Trackers /\ u = tracker'
              /\ kids \in SUBSET Blocks /\ roots = tracker.block_roots[x]
              /\ t1.block_roots = tracker.block_roots
              /\ t1.discovered_children = [tracker.discovered_children EXCEPT ![x] = kids]
              /\ u.discovered_children = t1.discovered_children
              /\ Spreads(t1, u, roots, kids)
          BY <4>1 DEF Learns
        <4>3. r \in u.block_roots[b] \ t1.block_roots[b]
          BY <2>4, <4>2
        <4>4. r \in roots
          BY <4>2, <4>3 DEF Spreads
        <4>5. x \in S /\ r \in Roots
          BY <2>2, <4>2, <4>4
        <4>6. kids = u.discovered_children[x]
          BY <2>0, <4>2
        <4>7. kids \subseteq S
          BY <1>8, <4>2, <4>5, <4>6
        <4>8. \A c \in S : t1.discovered_children[c] \subseteq S
          BY <1>8, <4>2
        <4>9. b \in S
          BY <4>2, <4>3, <4>4, <4>7, <4>8 DEF Spreads
        <4> QED BY <4>5, <4>9
      <3> QED BY <3>1, <3>2, <3>3
    <2> QED BY <2>3, <2>4
  <1>9. ASSUME NEW b \in Blocks, NEW r \in tracker'.block_roots[b] PROVE r \in Roots /\ KnownFrom(r, b)'
    <2>1. r \in Roots
      <3>1. /\ Blocks \in SUBSET Blocks /\ r \in Blocks
            /\ \A c \in Blocks : tracker'.discovered_children[c] \subseteq Blocks
        BY <1>0 DEF Trackers
      <3> QED BY <1>8, <3>1
    <2>2. KnownFrom(r, b)'
      BY <1>8 DEF KnownFrom
    <2> QED BY <2>1, <2>2
  <1>10. \A w \in Holders' :
          /\ Root(w)' \in Roots
          /\ Root(w)' = Block(w)' \/ Root(w)' \in tracker'.block_roots[Block(w)']
          /\ stage'[w] \in NotedStages => Root(w)' \in tracker'.block_roots[Block(w)']
    BY <1>7
  <1>11. Roots' = Roots
    BY DEF Roots
  <1> QED BY <1>6, <1>9, <1>10, <1>11 DEF ItemsKnown

-----------------------------------------------------------------------------
(* Nothing that a root reaches is forgotten. *)

\* While a worker has not ended, a stop request means that the copy is cut short.
LEMMA StopCuts ==
    ASSUME CopyInv, stop_requested, NEW w \in Workers, stage[w] \notin {"done", "panicked"}
    PROVE  Cut
  <1>1. main \in {"join_workers", "join_writers"}
    BY DEF CopyInv, EndsInOrder, WriteInv, WriteControlTypeOK
  <1> QED BY <1>1 DEF CopyInv, StopHasReason, Cut

\* A worker that holds an item it has not pushed the children of finds the queue
\* open, unless the copy is cut short.
LEMMA OpenWhileHeld ==
    ASSUME CopyInv, ~Cut, NEW w \in Workers, stage[w] \in {"check_stop", "push_children"}
    PROVE  ~stop_requested /\ ~work_shutdown
  <1>1. ~stop_requested
    BY StopCuts
  <1>2. w \in Holders
    BY DEF Holders, HoldingStages
  <1> QED BY <1>1, <1>2 DEF CopyInv, WorkInv, NoEarlyShutdown

\* A block that waits to be visited keeps waiting or is visited.
LEMMA ToVisitStep ==
    ASSUME CopyInv, [Next]_vars, ~Cut', NEW b \in Blocks, ToBeVisited(b)
    PROVE  b \in visited' \/ ToBeVisited(b)'
  <1>0. WorkInv /\ WriteInv /\ OutcomeTypeOK /\ ~Cut
    BY CutStays DEF CopyInv
  <1>1. ASSUME NEW i \in 1..Len(work_queue), work_queue[i][2] = b PROVE ToBeVisited(b)'
    <2>1. CASE work_queue' = work_queue
      BY <1>1, <2>1 DEF ToBeVisited
    <2>2. ASSUME NEW w \in Workers, PopItem(w) PROVE ToBeVisited(b)'
      <3>1. /\ item'[w] = work_queue[1] /\ stage'[w] = "note_root"
            /\ i = 1 \/ \E j \in 1..Len(work_queue') : work_queue'[j] = work_queue[i]
        BY <1>0, <1>1, <2>2, PoppedItem
      <3>2. CASE i = 1
        <4>1. Block(w)' = b
          BY <1>1, <3>1, <3>2 DEF Block
        <4> QED BY <3>1, <4>1 DEF ToBeVisited
      <3>3. CASE \E j \in 1..Len(work_queue') : work_queue'[j] = work_queue[i]
        BY <1>1, <3>3 DEF ToBeVisited
      <3> QED BY <3>1, <3>2, <3>3
    <2>3. ASSUME NEW w \in Workers, PushChildren(w) PROVE ToBeVisited(b)'
      <3>1. i \in 1..Len(work_queue') /\ work_queue'[i] = work_queue[i]
        BY <1>1, <2>3, PushedItems
      <3> QED BY <1>1, <3>1 DEF ToBeVisited
    <2> QED BY <1>0, <2>1, <2>2, <2>3, WorkQueueCases
  <1>2. ASSUME NEW w \in Workers, stage[w] \in {"note_root", "visit"}, Block(w) = b
        PROVE  b \in visited' \/ ToBeVisited(b)'
    <2>0. stage[w] \in BusyStages
      BY <1>2 DEF BusyStages, HoldingStages
    <2>1. CASE stage'[w] \in {"note_root", "visit"} /\ item'[w] = item[w]
      <3>1. Block(w)' = b
        BY <1>2, <2>1 DEF Block
      <3> QED BY <2>1, <3>1 DEF ToBeVisited
    <2>2. CASE WorkerStep(w)
      <3>1. CASE NoteRoot(w)
        <4>1. stage'[w] \in {"note_root", "visit"} /\ item'[w] = item[w]
          BY <1>0, <3>1 DEF NoteRoot, WorkerMoves, Moves, WorkInv, WorkTypeOK
        <4> QED BY <2>1, <4>1
      <3>2. CASE Visit(w)
        BY <1>2, <3>2 DEF Visit
      <3> QED
        BY <1>2, <2>2, <3>1, <3>2 DEF WorkerStep, WorkerPops, Pop, PopStopped, PopItem, PopExhausted,
               PopWaits, InPop, ReadFails, ReadAndDecode, CheckStop, PushChildren, EnqueueChildren,
               DestinationStopped, AlreadyPresent, CheckFails, Submit, EnqueueWrite, EnqueueStep,
               WorkerFinishes, FinishItem, WorkerUnwinds, UnwindItem, WorkerMoves
    <2>3. ~WorkerPanic(w)
      BY <1>2 DEF WorkerPanic
    <2> QED BY <1>0, <1>2, <2>0, <2>1, <2>2, <2>3, StageCases
  <1>3. ASSUME NEW w \in Workers, stage[w] \in {"check_stop", "push_children"},
               b \in ToSet(DecodedChildren(w))
        PROVE  ToBeVisited(b)'
    <2>0. stage[w] \in BusyStages /\ ~stop_requested /\ ~work_shutdown
      BY <1>0, <1>3, OpenWhileHeld DEF BusyStages, HoldingStages
    <2>1. CASE stage'[w] \in {"check_stop", "push_children"} /\ item'[w] = item[w]
      <3>1. DecodedChildren(w)' = DecodedChildren(w)
        BY <1>3, <2>1, DecodedKept
      <3>2. b \in ToSet(DecodedChildren(w))'
        BY <1>3, <3>1, Zenon DEF ToSet
      <3> QED BY <2>1, <3>2 DEF ToBeVisited
    <2>2. CASE WorkerStep(w)
      <3>1. CASE CheckStop(w)
        <4>1. stage'[w] \in {"check_stop", "push_children"} /\ item'[w] = item[w]
          BY <1>0, <2>0, <3>1 DEF CheckStop, WorkerMoves, Moves, WorkInv, WorkTypeOK
        <4> QED BY <2>1, <4>1
      <3>2. CASE PushChildren(w)
        <4>1. PICK i \in 1..Len(work_queue') : work_queue'[i] = <<Root(w), b>>
          BY <1>3, <2>0, <3>2, PushedItems
        <4>2. work_queue'[i][2] = b
          BY <4>1
        <4> QED BY <4>2 DEF ToBeVisited
      <3> QED
        BY <1>3, <2>2, <3>1, <3>2 DEF WorkerStep, WorkerPops, Pop, PopStopped, PopItem, PopExhausted,
               PopWaits, InPop, NoteRoot, Visit, ReadFails, ReadAndDecode,
               DestinationStopped, AlreadyPresent, CheckFails, Submit, EnqueueWrite, EnqueueStep,
               WorkerFinishes, FinishItem, WorkerUnwinds, UnwindItem, WorkerMoves
    <2>3. ~WorkerPanic(w)
      BY <1>3 DEF WorkerPanic
    <2> QED BY <1>0, <1>3, <2>0, <2>1, <2>2, <2>3, StageCases
  <1> QED BY <1>1, <1>2, <1>3 DEF ToBeVisited

\* The blocks that get their first root.
LEMMA FirstRoots ==
    ASSUME CopyInv, [Next]_vars, NEW b \in Blocks,
           tracker.block_roots[b] = {}, tracker'.block_roots[b] # {}
    PROVE  ToBeVisited(b)'
  <1>0. /\ tracker \in Trackers /\ RootsPropagate /\ ChildrenKnown'
        /\ stage \in [Workers -> HoldingStages \cup FreeStages]
    BY ChildrenStep DEF CopyInv, OutcomeTypeOK, WorkInv, WorkTypeOK
  <1>1. PICK r : r \in tracker'.block_roots[b]
    OBVIOUS
  <1>2. PICK S : S = {x \in Blocks : tracker.block_roots[x] # {}}
    OBVIOUS
  <1>3. \A x \in Blocks : tracker.discovered_children[x] \subseteq S
    BY <1>0, <1>2 DEF RootsPropagate, Trackers
  <1>4. b \notin S /\ S \subseteq Blocks
    BY <1>2
  <1>5. ASSUME NEW w \in Workers, NoteRoot(w) PROVE ToBeVisited(b)'
    <2>1. PICK q, x \in Blocks, roots, starts \in SUBSET Blocks, u \in Trackers :
              /\ q = Root(w) /\ x = Block(w) /\ roots = {q} /\ starts = {x} /\ u = tracker'
              /\ w \in Holders
              /\ u.failure_templates = tracker.failure_templates
              /\ u.discovered_children = tracker.discovered_children
              /\ Spreads(tracker, u, roots, starts)
      BY <1>5, NoteEffect
    <2>2. r \in u.block_roots[b] \ tracker.block_roots[b]
      BY <1>1, <2>1
    <2>3. r \in roots
      BY <2>1, <2>2 DEF Spreads
    <2>4. PICK T \in SUBSET Blocks : T = S \cup starts
      BY <1>4, <2>1
    <2>5. starts \subseteq T /\ \A y \in T : tracker.discovered_children[y] \subseteq T
      BY <1>3, <2>1, <2>4
    <2>6. b \in T
      BY <2>1, <2>2, <2>3, <2>5 DEF Spreads
    <2>7. b = Block(w)
      BY <1>4, <2>1, <2>4, <2>6
    <2>8. stage'[w] = "visit" /\ Block(w)' = Block(w)
      BY <1>0, <1>5 DEF NoteRoot, WorkerMoves, Moves, Block
    <2> QED BY <2>7, <2>8 DEF ToBeVisited
  <1>6. ASSUME NEW w \in Workers, ReadAndDecode(w) PROVE ToBeVisited(b)'
    <2>1. PICK x, t1, u, roots, kids : Learns(w, x, t1, u, roots, kids)
      BY <1>6, ReadEffect
    <2>2. /\ x \in Blocks /\ t1 \in Trackers /\ u \in Trackers /\ u = tracker'
          /\ x = Block(w) /\ w \in HandlingWorkers /\ stage[w] = "read"
          /\ kids \in SUBSET Blocks
          /\ t1.block_roots = tracker.block_roots
          /\ t1.discovered_children = [tracker.discovered_children EXCEPT ![x] = kids]
          /\ u.discovered_children = t1.discovered_children
          /\ Spreads(t1, u, roots, kids)
      BY <2>1 DEF Learns
    <2>3. r \in u.block_roots[b] \ t1.block_roots[b]
      BY <1>1, <2>2
    <2>4. r \in roots
      BY <2>2, <2>3 DEF Spreads
    <2>5. PICK T \in SUBSET Blocks : T = S \cup kids
      BY <1>4, <2>2
    <2>6. tracker.discovered_children \in [Blocks -> SUBSET Blocks]
      BY <1>0 DEF Trackers
    <2>7. kids \subseteq T /\ \A y \in T : t1.discovered_children[y] \subseteq T
      BY <1>3, <2>2, <2>5, <2>6
    <2>8. b \in T
      BY <2>2, <2>3, <2>4, <2>7 DEF Spreads
    <2>9. b \in kids
      BY <1>4, <2>5, <2>8
    <2>10. stage'[w] = "check_stop" /\ Block(w)' = Block(w)
      BY <1>0, <1>6 DEF ReadAndDecode, WorkerMoves, Moves, Block
    <2>11. w \in HandlingWorkers'
      BY <1>6, <2>10 DEF HandlingWorkers, HandlingStages
    <2>12. ToSet(DecodedChildren(w))' = tracker'.discovered_children[Block(w)']
      BY <1>0, <2>10, <2>11 DEF ChildrenKnown
    <2>13. tracker'.discovered_children[Block(w)'] = kids
      BY <2>2, <2>6, <2>10
    <2>14. b \in ToSet(DecodedChildren(w))'
      BY <2>9, <2>12, <2>13
    <2> QED BY <2>10, <2>14 DEF ToBeVisited
  <1>7. CASE \A w \in Workers : ~NoteRoot(w) /\ ~ReadAndDecode(w)
    BY <1>1, <1>7, NothingLearnt
  <1> QED BY <1>5, <1>6, <1>7

\* Every step keeps in mind what a root reaches.
LEMMA NothingForgottenStep ==
    ASSUME CopyInv, [Next]_vars
    PROVE  NothingForgotten'
  <1> SUFFICES ASSUME ~Cut' PROVE NothingForgotten'
    BY DEF NothingForgotten
  <1>0. /\ WorkInv /\ WriteInv /\ OutcomeTypeOK /\ ~Cut /\ NothingForgotten
        /\ stage \in [Workers -> HoldingStages \cup FreeStages]
    BY CutStays DEF CopyInv, WorkInv, WorkTypeOK
  <1>1. ASSUME NEW b \in Blocks, tracker'.block_roots[b] # {}
        PROVE  b \in visited' \/ ToBeVisited(b)'
    <2>1. CASE tracker.block_roots[b] = {}
      BY <1>1, <2>1, FirstRoots
    <2>2. CASE tracker.block_roots[b] # {}
      <3>1. b \in visited \/ ToBeVisited(b)
        BY <1>0, <2>2 DEF NothingForgotten
      <3>2. CASE b \in visited
        BY <1>0, <3>2, VisitedGrows
      <3>3. CASE ToBeVisited(b)
        BY <3>3, ToVisitStep
      <3> QED BY <3>1, <3>2, <3>3
    <2> QED BY <2>1, <2>2
  <1>2. ASSUME NEW r \in Roots
        PROVE  \/ r \in tracker'.block_roots[r]
               \/ \E i \in 1..Len(work_queue') : work_queue'[i] = <<r, r>>
               \/ \E w \in Workers : stage'[w] = "note_root" /\ item'[w] = <<r, r>>
    <2>0. r \in Blocks
      BY GraphAssumption DEF Roots
    <2>1. CASE r \in tracker.block_roots[r]
      <3>1. tracker.block_roots[r] \subseteq tracker'.block_roots[r]
        BY <1>0, <2>0, TrackerGrows
      <3> QED BY <2>1, <3>1
    <2>2. ASSUME NEW i \in 1..Len(work_queue), work_queue[i] = <<r, r>>
          PROVE  \/ \E j \in 1..Len(work_queue') : work_queue'[j] = <<r, r>>
                 \/ \E w \in Workers : stage'[w] = "note_root" /\ item'[w] = <<r, r>>
      <3>1. CASE work_queue' = work_queue
        BY <2>2, <3>1
      <3>2. ASSUME NEW w \in Workers, PopItem(w)
            PROVE  \/ \E j \in 1..Len(work_queue') : work_queue'[j] = <<r, r>>
                   \/ \E u \in Workers : stage'[u] = "note_root" /\ item'[u] = <<r, r>>
        <4>1. /\ item'[w] = work_queue[1] /\ stage'[w] = "note_root"
              /\ i = 1 \/ \E j \in 1..Len(work_queue') : work_queue'[j] = work_queue[i]
          BY <1>0, <2>2, <3>2, PoppedItem
        <4> QED BY <2>2, <4>1
      <3>3. ASSUME NEW w \in Workers, PushChildren(w)
            PROVE  \E j \in 1..Len(work_queue') : work_queue'[j] = <<r, r>>
        <4>1. i \in 1..Len(work_queue') /\ work_queue'[i] = work_queue[i]
          BY <2>2, <3>3, PushedItems
        <4> QED BY <2>2, <4>1
      <3> QED BY <1>0, <3>1, <3>2, <3>3, WorkQueueCases
    <2>3. ASSUME NEW w \in Workers, stage[w] = "note_root", item[w] = <<r, r>>
          PROVE  \/ r \in tracker'.block_roots[r]
                 \/ stage'[w] = "note_root" /\ item'[w] = <<r, r>>
      <3>0. stage[w] \in BusyStages
        BY <2>3 DEF BusyStages, HoldingStages
      <3>1. CASE stage'[w] = stage[w] /\ item'[w] = item[w]
        BY <2>3, <3>1
      <3>2. CASE WorkerStep(w)
        <4>1. NoteRoot(w)
          BY <2>3, <3>2 DEF WorkerStep, WorkerPops, Pop, PopStopped, PopItem, PopExhausted,
               PopWaits, InPop, Visit, ReadFails, ReadAndDecode, CheckStop, PushChildren, EnqueueChildren,
               DestinationStopped, AlreadyPresent, CheckFails, Submit, EnqueueWrite, EnqueueStep,
               WorkerFinishes, FinishItem, WorkerUnwinds, UnwindItem, WorkerMoves
        <4>2. PICK q, x \in Blocks, roots, starts \in SUBSET Blocks, u \in Trackers :
                  /\ q = Root(w) /\ x = Block(w) /\ roots = {q} /\ starts = {x} /\ u = tracker'
                  /\ w \in Holders
                  /\ u.failure_templates = tracker.failure_templates
                  /\ u.discovered_children = tracker.discovered_children
                  /\ Spreads(tracker, u, roots, starts)
          BY <4>1, NoteEffect
        <4>3. roots \subseteq u.block_roots[x]
          BY <4>2 DEF Spreads
        <4>4. q = r /\ x = r
          BY <2>3, <4>2 DEF Root, Block
        <4> QED BY <4>2, <4>3, <4>4
      <3>3. ~WorkerPanic(w)
        BY <2>3 DEF WorkerPanic
      <3> QED BY <1>0, <3>0, <3>1, <3>2, <3>3, StageCases
    <2> QED BY <1>0, <2>1, <2>2, <2>3 DEF NothingForgotten
  <1>3. Roots' = Roots
    BY DEF Roots
  <1> QED BY <1>1, <1>2, <1>3 DEF NothingForgotten

-----------------------------------------------------------------------------
(* The counters. *)

\* The steps that count something.
LEMMA CounterCases ==
    ASSUME WorkInv, WriteInv, [Next]_vars
    PROVE  /\ \/ UNCHANGED <<destination, copied_block_count>>
              \/ \E v \in Writers : \E good, bad \in SUBSET JobPlaces(v) : Completes(v, good, bad)
           /\ \/ UNCHANGED skipped_already_present_block_count
              \/ \E w \in Workers : AlreadyPresent(w)
           /\ \/ UNCHANGED attempted_write_block_count
              \/ \E w \in Workers : Accepts(w)
  <1>1. CASE UNCHANGED vars
    BY <1>1 DEF vars, reportVars
  <1>2. CASE \E w \in Workers : WorkerStep(w)
    BY <1>2 DEF WorkerStep, WorkerPops, PushChildren, WorkerFinishes, WorkerUnwinds,
           NoteRoot, Visit, ReadFails, ReadAndDecode, CheckStop,
           DestinationStopped, AlreadyPresent, CheckFails, Submit, EnqueueWrite, EnqueueStep, Accepts,
           reportVars
  <1>3. ASSUME NEW v \in Writers, WriterStep(v)
        PROVE  /\ \/ UNCHANGED <<destination, copied_block_count>>
                  \/ \E good, bad \in SUBSET JobPlaces(v) : Completes(v, good, bad)
               /\ UNCHANGED <<skipped_already_present_block_count, attempted_write_block_count>>
    <2>1. CASE WriterPublishes(v)
      BY <2>1, PublishCases DEF Completes, RecordCompletions, reportVars
    <2>2. CASE ~WriterPublishes(v)
      BY <1>3, <2>2 DEF WriterStep, WriterActs, WriterCompletes, WriterCheckpoints,
             WriterUnwinds, reportVars
    <2> QED BY <2>1, <2>2
  <1>4. CASE OtherStep
    BY <1>4 DEF OtherStep, PollerStep, MainStep, OperatorInterrupt,
               ThreadPanics, SpuriousWakes, Stopped, vars, reportVars
  <1> QED BY <1>1, <1>2, <1>3, <1>4 DEF Next, OtherStep

\* The sets that are counted are finite.
LEMMA FiniteParts ==
    ASSUME OutcomeTypeOK
    PROVE  /\ IsFiniteSet(HandlingWorkers) /\ Cardinality(HandlingWorkers) \in Nat
           /\ IsFiniteSet(HoldersOfStored) /\ Cardinality(HoldersOfStored) \in Nat
           /\ IsFiniteSet(visited) /\ Cardinality(visited) \in Nat
           /\ IsFiniteSet(visited \cap Stored) /\ Cardinality(visited \cap Stored) \in Nat
           /\ IsFiniteSet(destination \ Stored) /\ Cardinality(destination \ Stored) \in Nat
  <1>1. IsFiniteSet(Workers) /\ IsFiniteSet(Blocks)
    BY ThreadsAssumption, EnvironmentAssumption
  <1>2. HandlingWorkers \subseteq Workers /\ HoldersOfStored \subseteq Workers
    BY DEF HandlingWorkers, HoldersOfStored
  <1>3. visited \subseteq Blocks /\ visited \cap Stored \subseteq Blocks /\ destination \ Stored \subseteq Blocks
    BY DEF OutcomeTypeOK
  <1>4. \A S : S \subseteq Workers \/ S \subseteq Blocks => IsFiniteSet(S)
    BY <1>1, FS_Subset
  <1>5. \A S : IsFiniteSet(S) => Cardinality(S) \in Nat
    BY FS_CardinalityType
  <1> QED BY <1>2, <1>3, <1>4, <1>5

\* Apart from claiming a block, no step adds a worker that handles one.
LEMMA NoNewHandler ==
    ASSUME CopyInv, [Next]_vars, \A w \in Workers : ~Visit(w)
    PROVE  /\ HandlingWorkers' \subseteq HandlingWorkers
           /\ \A w \in HandlingWorkers' : Block(w)' = Block(w)
           /\ HoldersOfStored' \subseteq HoldersOfStored
           /\ visited \subseteq visited'
  <1>1. \A w \in HandlingWorkers' : w \in HandlingWorkers /\ item'[w] = item[w]
    BY HandlersBefore
  <1>2. visited \subseteq visited'
    BY VisitedGrows DEF CopyInv
  <1>3. \A w \in HandlingWorkers' : Block(w)' = Block(w)
    BY <1>1 DEF Block
  <1>4. HoldersOfStored' \subseteq HoldersOfStored
    BY <1>1, <1>3 DEF HoldersOfStored
  <1> QED BY <1>1, <1>2, <1>3, <1>4

\* Blind writes: an attempt is counted for a claimed block, once.
LEMMA AttemptsStep ==
    ASSUME CopyInv, [Next]_vars, BlindWrite
    PROVE  attempted_write_block_count' + Cardinality(HandlingWorkers') <= Cardinality(visited')
  <1>0. /\ WorkInv /\ WriteInv /\ OutcomeTypeOK /\ OutcomeTypeOK'
        /\ attempted_write_block_count \in Nat /\ attempted_write_block_count' \in Nat
        /\ attempted_write_block_count + Cardinality(HandlingWorkers) <= Cardinality(visited)
    BY OutcomeTypeStep DEF CopyInv, OutcomeTypeOK, Counted
  <1>1. /\ IsFiniteSet(HandlingWorkers) /\ Cardinality(HandlingWorkers) \in Nat
        /\ IsFiniteSet(visited) /\ Cardinality(visited) \in Nat
    BY <1>0, FiniteParts
  <1>2. IsFiniteSet(visited')
    <2>1. visited' \subseteq Blocks
      BY <1>0 DEF OutcomeTypeOK
    <2> QED BY <2>1, FS_Subset, EnvironmentAssumption
  <1>3. ASSUME NEW w \in Workers, Visit(w)
        PROVE  attempted_write_block_count' + Cardinality(HandlingWorkers') <= Cardinality(visited')
    <2>1. /\ visited' = visited \cup {Block(w)} /\ w \notin HandlingWorkers
          /\ HandlingWorkers' = IF Block(w) \in visited THEN HandlingWorkers
                                                        ELSE HandlingWorkers \cup {w}
      BY <1>0, <1>3, VisitEffect
    <2>2. attempted_write_block_count' = attempted_write_block_count
      BY <1>3 DEF Visit
    <2>3. CASE Block(w) \in visited
      <3>1. visited' = visited /\ HandlingWorkers' = HandlingWorkers
        BY <2>1, <2>3
      <3> QED BY <1>0, <2>2, <3>1
    <2>4. CASE Block(w) \notin visited
      <3>1. Cardinality(visited') = Cardinality(visited) + 1
        BY <1>1, <2>1, <2>4, OneMore
      <3>2. Cardinality(HandlingWorkers') = Cardinality(HandlingWorkers) + 1
        <4>1. HandlingWorkers' = HandlingWorkers \cup {w}
          BY <2>1, <2>4
        <4> QED BY <1>1, <2>1, <4>1, OneMore
      <3> QED BY <1>0, <1>1, <2>2, <3>1, <3>2
    <2> QED BY <2>3, <2>4
  <1>4. ASSUME NEW w \in Workers, Accepts(w)
        PROVE  attempted_write_block_count' + Cardinality(HandlingWorkers') <= Cardinality(visited')
    <2>1. w \in HandlingWorkers /\ HandlingWorkers' = HandlingWorkers \ {w} /\ visited' = visited
      BY <1>0, <1>4, AcceptsEffect
    <2>2. attempted_write_block_count' = attempted_write_block_count + 1
      BY <1>4 DEF Accepts
    <2>3. Cardinality(HandlingWorkers') \in Nat /\ Cardinality(HandlingWorkers) = Cardinality(HandlingWorkers') + 1
      BY <1>1, <2>1, OneLess
    <2> QED BY <1>0, <1>1, <2>1, <2>2, <2>3
  <1>5. CASE \A w \in Workers : ~Visit(w) /\ ~Accepts(w)
    <2>1. HandlingWorkers' \subseteq HandlingWorkers /\ visited \subseteq visited'
      BY <1>5, NoNewHandler
    <2>2. attempted_write_block_count' = attempted_write_block_count
      BY <1>0, <1>5, CounterCases
    <2>3. /\ Cardinality(HandlingWorkers') \in Nat
          /\ Cardinality(HandlingWorkers') <= Cardinality(HandlingWorkers)
      BY <1>1, <2>1, NoMore
    <2>4. Cardinality(visited') \in Nat /\ Cardinality(visited) <= Cardinality(visited')
      BY <1>2, <2>1, NoMore
    <2> QED BY <1>0, <1>1, <2>2, <2>3, <2>4
  <1> QED BY <1>3, <1>4, <1>5

\* Otherwise: a block is counted as present when it was stored before, once.
LEMMA SkippedStep ==
    ASSUME CopyInv, [Next]_vars, ~BlindWrite
    PROVE  skipped_already_present_block_count' + Cardinality(HoldersOfStored')
              <= Cardinality(visited' \cap Stored)
  <1>0. /\ WorkInv /\ WriteInv /\ OutcomeTypeOK /\ OutcomeTypeOK'
        /\ skipped_already_present_block_count \in Nat
        /\ skipped_already_present_block_count' \in Nat
        /\ skipped_already_present_block_count + Cardinality(HoldersOfStored)
              <= Cardinality(visited \cap Stored)
    BY OutcomeTypeStep DEF CopyInv, OutcomeTypeOK, Counted
  <1>1. /\ IsFiniteSet(HoldersOfStored) /\ Cardinality(HoldersOfStored) \in Nat
        /\ IsFiniteSet(visited \cap Stored) /\ Cardinality(visited \cap Stored) \in Nat
    BY <1>0, FiniteParts
  <1>2. IsFiniteSet(visited' \cap Stored)
    <2>1. visited' \cap Stored \subseteq Blocks
      BY <1>0 DEF OutcomeTypeOK
    <2> QED BY <2>1, FS_Subset, EnvironmentAssumption
  <1>3. ASSUME NEW w \in Workers, Visit(w)
        PROVE  skipped_already_present_block_count' + Cardinality(HoldersOfStored')
                  <= Cardinality(visited' \cap Stored)
    <2>1. /\ visited' = visited \cup {Block(w)} /\ w \notin HandlingWorkers /\ item' = item
          /\ HandlingWorkers' = IF Block(w) \in visited THEN HandlingWorkers
                                                        ELSE HandlingWorkers \cup {w}
      BY <1>0, <1>3, VisitEffect
    <2>2. skipped_already_present_block_count' = skipped_already_present_block_count
      BY <1>3 DEF Visit
    <2>3. \A u : Block(u)' = Block(u)
      BY <2>1 DEF Block
    <2>4. CASE Block(w) \in visited \/ Block(w) \notin Stored
      <3>1. visited' \cap Stored = visited \cap Stored
        BY <2>1, <2>4
      <3>2. HoldersOfStored' = HoldersOfStored
        BY <2>1, <2>3, <2>4 DEF HoldersOfStored
      <3> QED BY <1>0, <2>2, <3>1, <3>2
    <2>5. CASE Block(w) \notin visited /\ Block(w) \in Stored
      <3>1. /\ visited' \cap Stored = (visited \cap Stored) \cup {Block(w)}
            /\ Block(w) \notin visited \cap Stored
        BY <2>1, <2>5
      <3>2. HoldersOfStored' = HoldersOfStored \cup {w} /\ w \notin HoldersOfStored
        BY <2>1, <2>3, <2>5 DEF HoldersOfStored
      <3>3. Cardinality(visited' \cap Stored) = Cardinality(visited \cap Stored) + 1
        BY <1>1, <3>1, OneMore
      <3>4. Cardinality(HoldersOfStored') = Cardinality(HoldersOfStored) + 1
        BY <1>1, <3>2, OneMore
      <3> QED BY <1>0, <1>1, <2>2, <3>3, <3>4
    <2> QED BY <2>4, <2>5
  <1>4. ASSUME NEW w \in Workers, AlreadyPresent(w)
        PROVE  skipped_already_present_block_count' + Cardinality(HoldersOfStored')
                  <= Cardinality(visited' \cap Stored)
    <2>1. /\ stage[w] = "destination" /\ Block(w) \in destination /\ visited' = visited
          /\ skipped_already_present_block_count' = skipped_already_present_block_count + 1
          /\ stage' = [stage EXCEPT ![w] = "finish"] /\ item' = item
      BY <1>4 DEF AlreadyPresent, WorkerMoves, Moves
    <2>2. w \in HandlingWorkers
      BY <2>1 DEF HandlingWorkers, HandlingStages
    <2>3. w \in HoldersOfStored
      BY <2>1, <2>2 DEF HoldersOfStored, CopyInv, HandledIsUnfinished, Unfinished
    <2>4. HandlingWorkers' = HandlingWorkers \ {w}
      BY <1>0, <2>1 DEF HandlingWorkers, HandlingStages, WorkInv, WorkTypeOK
    <2>5. HoldersOfStored' = HoldersOfStored \ {w}
      BY <2>1, <2>4 DEF HoldersOfStored, Block
    <2>6. /\ Cardinality(HoldersOfStored') \in Nat
          /\ Cardinality(HoldersOfStored) = Cardinality(HoldersOfStored') + 1
      BY <1>1, <2>3, <2>5, OneLess
    <2> QED BY <1>0, <1>1, <2>1, <2>6
  <1>5. CASE \A w \in Workers : ~Visit(w) /\ ~AlreadyPresent(w)
    <2>1. HoldersOfStored' \subseteq HoldersOfStored /\ visited \cap Stored \subseteq visited' \cap Stored
      BY <1>5, NoNewHandler
    <2>2. skipped_already_present_block_count' = skipped_already_present_block_count
      BY <1>0, <1>5, CounterCases
    <2>3. /\ Cardinality(HoldersOfStored') \in Nat
          /\ Cardinality(HoldersOfStored') <= Cardinality(HoldersOfStored)
      BY <1>1, <2>1, NoMore
    <2>4. /\ Cardinality(visited' \cap Stored) \in Nat
          /\ Cardinality(visited \cap Stored) <= Cardinality(visited' \cap Stored)
      BY <1>2, <2>1, NoMore
    <2> QED BY <1>0, <1>1, <2>2, <2>3, <2>4
  <1> QED BY <1>3, <1>4, <1>5

\* What is on its way to be written is not in the destination yet.
Absent ==
    /\ \A w \in HandlingWorkers : stage[w] = "enqueue_write" => Block(w) \notin destination
    /\ \A i \in QueuePlaces : write_queue[i] \notin destination
    /\ \A v \in PublishingWriters : \A i \in JobPlaces(v) : writer[v].jobs[i] \notin destination

\* Every step keeps what waits to be written out of the destination.
LEMMA AbsentStep ==
    ASSUME CopyInv, [Next]_vars, ~BlindWrite
    PROVE  Absent'
  <1>0. /\ WorkInv /\ WriteInv /\ OutcomeTypeOK /\ OnePlace /\ Absent
        /\ stage \in [Workers -> HoldingStages \cup FreeStages]
    BY DEF CopyInv, Counted, Absent, WorkInv, WorkTypeOK
  <1>1. ASSUME NEW w \in HandlingWorkers', stage'[w] = "enqueue_write"
        PROVE  w \in HandlingWorkers /\ Block(w)' = Block(w) /\ Block(w) \notin destination
    <2>1. w \in HandlingWorkers /\ item'[w] = item[w]
      BY <1>1, HandlersBefore
    <2>2. w \in Workers /\ stage[w] \in BusyStages
      BY <2>1 DEF HandlingWorkers, HandlingStages, BusyStages, HoldingStages
    <2>3. stage[w] = "enqueue_write" \/ Submit(w)
      <3>1. CASE WorkerStep(w)
        BY <1>0, <1>1, <2>2, <3>1 DEF WorkerStep, WorkerPops, Pop, PopStopped, PopItem, PopExhausted,
               PopWaits, InPop, NoteRoot, Visit, ReadFails, ReadAndDecode, CheckStop, PushChildren,
               EnqueueChildren, DestinationStopped, AlreadyPresent, CheckFails, EnqueueWrite,
               EnqueueStep, WorkerFinishes, FinishItem, WorkerUnwinds, UnwindItem, WorkerMoves, Moves,
               BusyStages, HoldingStages
      <3>2. ~WorkerPanic(w)
        BY <1>0, <1>1, <2>2 DEF WorkerPanic, Moves
      <3> QED BY <1>0, <1>1, <2>2, <3>1, <3>2, StageCases
    <2>4. Block(w) \notin destination
      BY <1>0, <2>1, <2>3 DEF Absent, Submit
    <2> QED BY <2>1, <2>4 DEF Block
  <1>2. \A i \in QueuePlaces' : write_queue'[i] \notin destination
    <2>1. ASSUME NEW i \in QueuePlaces' PROVE write_queue'[i] \notin destination
      <3>1. \/ \E j \in QueuePlaces : write_queue'[i] = write_queue[j]
            \/ \E w \in HandlingWorkers : stage[w] = "enqueue_write" /\ write_queue'[i] = Block(w)
        BY <2>1, JobsBefore
      <3> QED BY <1>0, <3>1 DEF Absent
    <2> QED BY <2>1
  <1>3. \A v \in PublishingWriters' : \A i \in JobPlaces(v)' : writer'[v].jobs[i] \notin destination
    <2>1. ASSUME NEW v \in PublishingWriters', NEW i \in JobPlaces(v)'
          PROVE  writer'[v].jobs[i] \notin destination
      <3>1. \/ /\ v \in PublishingWriters /\ i \in JobPlaces(v)
               /\ writer'[v].jobs[i] = writer[v].jobs[i]
            \/ \E j \in QueuePlaces : writer'[v].jobs[i] = write_queue[j]
        BY <2>1, JobsBefore
      <3> QED BY <1>0, <3>1 DEF Absent
    <2> QED BY <2>1
  <1>4. CASE destination' = destination
    BY <1>1, <1>2, <1>3, <1>4 DEF Absent
  <1>5. ASSUME NEW v \in Writers, NEW good \in SUBSET JobPlaces(v), NEW bad \in SUBSET JobPlaces(v),
               Completes(v, good, bad)
        PROVE  Absent'
    <2>1. /\ v \in PublishingWriters /\ PublishingWriters' = PublishingWriters \ {v}
          /\ \A u \in Writers \ {v} : writer'[u] = writer[u]
          /\ QueuePlaces' = QueuePlaces /\ write_queue' = write_queue
          /\ destination' = destination \cup {writer[v].jobs[i] : i \in good}
      BY <1>0, <1>5, CompletesEffect
    <2>2. \A x : x \in destination' => x \in destination \/ \E i \in JobPlaces(v) : x = writer[v].jobs[i]
      BY <2>1
    <2>3. \A w \in HandlingWorkers' : stage'[w] = "enqueue_write" => Block(w)' \notin destination'
      BY <1>0, <1>1, <2>1, <2>2 DEF OnePlace
    <2>4. \A i \in QueuePlaces' : write_queue'[i] \notin destination'
      BY <1>0, <1>2, <2>1, <2>2 DEF OnePlace
    <2>5. ASSUME NEW u \in PublishingWriters', NEW i \in JobPlaces(u)'
          PROVE  writer'[u].jobs[i] \notin destination'
      <3>1. /\ u \in PublishingWriters /\ u # v /\ writer'[u] = writer[u]
        BY <2>1 DEF PublishingWriters
      <3>2. i \in JobPlaces(u)
        BY <3>1 DEF JobPlaces
      <3> QED BY <1>0, <1>3, <2>1, <2>2, <3>1, <3>2 DEF OnePlace
    <2> QED BY <2>3, <2>4, <2>5 DEF Absent
  <1> QED BY <1>0, <1>4, <1>5, CounterCases

\* Otherwise: the blocks counted as copied are the ones the copy published.
LEMMA CopiedStep ==
    ASSUME CopyInv, [Next]_vars, ~BlindWrite
    PROVE  copied_block_count' = Cardinality(destination' \ Stored)
  <1>0. /\ WorkInv /\ WriteInv /\ OutcomeTypeOK /\ OnePlace /\ Absent
        /\ copied_block_count \in Nat
        /\ copied_block_count = Cardinality(destination \ Stored)
    BY DEF CopyInv, Counted, Absent, OutcomeTypeOK
  <1>1. CASE UNCHANGED <<destination, copied_block_count>>
    BY <1>0, <1>1
  <1>2. ASSUME NEW v \in Writers, NEW good \in SUBSET JobPlaces(v), NEW bad \in SUBSET JobPlaces(v),
               Completes(v, good, bad)
        PROVE  copied_block_count' = Cardinality(destination' \ Stored)
    <2>1. /\ v \in PublishingWriters
          /\ destination' = destination \cup {writer[v].jobs[i] : i \in good}
          /\ copied_block_count' = copied_block_count + Cardinality(good)
      BY <1>0, <1>2, CompletesEffect
    <2>2. PICK f, T : f = writer[v].jobs /\ T = {f[i] : i \in good}
      OBVIOUS
    <2>3. \A i, j \in good : f[i] = f[j] => i = j
      BY <1>0, <2>1, <2>2 DEF OnePlace
    <2>4. IsFiniteSet(good)
      <3>1. Len(writer[v].jobs) \in Nat
        BY <1>0 DEF WriteInv, WriteControlTypeOK
      <3>2. IsFiniteSet(1..Len(writer[v].jobs))
        BY <3>1, FS_Interval
      <3> QED BY <3>2, FS_Subset DEF JobPlaces
    <2>5. IsFiniteSet(T) /\ Cardinality(T) = Cardinality(good)
      BY <2>2, <2>3, <2>4, OneToOne
    <2>6. T \cap destination = {} /\ destination' = destination \cup T
      BY <1>0, <2>1, <2>2 DEF Absent
    <2>7. PICK D, E : D = destination \ Stored /\ E = destination' \ Stored
      OBVIOUS
    <2>8. E = D \cup T /\ D \cap T = {}
      BY <1>0, <2>6, <2>7 DEF OutcomeTypeOK
    <2>9. IsFiniteSet(D)
      BY <1>0, <2>7, FiniteParts
    <2>10. Cardinality(E) = Cardinality(D) + Cardinality(T) - Cardinality(D \cap T)
      BY <2>5, <2>8, <2>9, FS_Union
    <2>11. Cardinality(D \cap T) = 0 /\ Cardinality(T) \in Nat
      BY <2>5, <2>8, FS_EmptySet, FS_CardinalityType
    <2> QED BY <1>0, <2>1, <2>5, <2>7, <2>10, <2>11
  <1> QED BY <1>0, <1>1, <1>2, CounterCases

\* Every step keeps the counters true.
LEMMA CountedStep ==
    ASSUME CopyInv, [Next]_vars
    PROVE  Counted'
  <1>1. CASE BlindWrite
    BY <1>1, AttemptsStep DEF Counted
  <1>2. CASE ~BlindWrite
    BY <1>2, SkippedStep, AbsentStep, CopiedStep DEF Counted, Absent
  <1> QED BY <1>1, <1>2

-----------------------------------------------------------------------------
(* Compactions keep pace with the attempted writes. *)

\* The next attempt completes an interval exactly when it is a multiple of it.
LEMMA NextQuotient ==
    ASSUME NEW a \in Nat, NEW k \in Nat \ {0}
    PROVE  (a + 1) \div k = (a \div k) + (IF (a + 1) % k = 0 THEN 1 ELSE 0)
  <1>1. PICK q \in Nat, r \in 0..(k - 1) : q = a \div k /\ r = a % k /\ a = k * q + r
    OBVIOUS
  <1>2. CASE r + 1 = k
    <2>1. a + 1 = k * (q + 1) + 0
      BY <1>1, <1>2
    <2>2. (a + 1) \div k = q + 1 /\ (a + 1) % k = 0
      BY <1>1, <2>1
    <2> QED BY <1>1, <2>2
  <1>3. CASE r + 1 # k
    <2>1. a + 1 = k * q + (r + 1) /\ r + 1 \in 1..(k - 1)
      BY <1>1, <1>3
    <2>2. (a + 1) \div k = q /\ (a + 1) % k = r + 1
      BY <1>1, <2>1
    <2> QED BY <1>1, <2>1, <2>2
  <1> QED BY <1>2, <1>3

\* Only an accepted write and the start of a checkpoint change the pace.
LEMMA CompactionCases ==
    ASSUME WorkInv, WriteInv, OutcomeTypeOK, [Next]_vars
    PROVE  \/ UNCHANGED <<attempted_write_count, checkpoint_pending, compactions>>
           \/ \E w \in Workers : Accepts(w)
           \/ \E v \in Writers : StartCheckpoint(v) /\ compactions' = compactions + 1
  <1>0. /\ writer \in [Writers -> [at : WriterStages, jobs : Seq(Blocks)]]
        /\ compactions \in Nat
    BY DEF WriteInv, WriteControlTypeOK, OutcomeTypeOK
  <1>1. CASE UNCHANGED vars
    BY <1>1 DEF vars, writeVars, countVars, flagVars
  <1>2. CASE \E w \in Workers : WorkerStep(w)
    <2>1. PICK w \in Workers : WorkerStep(w)
      BY <1>2
    <2>2. CASE EnqueueWrite(w)
      BY <2>2 DEF EnqueueWrite, EnqueueStep, EnqueueRejected, EnqueueWaits, Accepts, writeVars,
             countVars, flagVars
    <2>3. CASE WorkerUnwinds(w)
      BY <2>3 DEF WorkerUnwinds, UnwindItem, RequestWriteShutdown, CloseWriteQueue, writeVars,
             countVars, flagVars
    <2>4. CASE ~EnqueueWrite(w) /\ ~WorkerUnwinds(w)
      BY <2>1, <2>4 DEF WorkerStep, WorkerPops, NoteRoot, Visit, ReadFails, ReadAndDecode, CheckStop,
             PushChildren, DestinationStopped, AlreadyPresent, CheckFails, Submit, WorkerFinishes,
             WorkerMoves, writeVars, countVars, flagVars
    <2> QED BY <2>2, <2>3, <2>4
  <1>3. CASE \E v \in Writers : WriterStep(v)
    <2>1. PICK v \in Writers : WriterStep(v)
      BY <1>3
    <2>2. CASE WriterActs(v)
      <3>1. CASE StartCheckpoint(v)
        <4>1. writer'[v].at = "checkpoint"
          BY <1>0, <3>1 DEF StartCheckpoint, WriterMoves
        <4> QED BY <2>2, <3>1, <4>1 DEF WriterActs
      <3>2. CASE TakeBatch(v) \/ WriterShutdown(v) \/ WriterWaits(v)
        <4>1. writer'[v].at # "checkpoint"
          <5>1. CASE TakeBatch(v)
            <6>1. \E jobs : writer' = [writer EXCEPT ![v] = [at |-> "publish", jobs |-> jobs]]
              BY <5>1 DEF TakeBatch
            <6> QED BY <1>0, <6>1
          <5>2. CASE WriterShutdown(v) \/ WriterWaits(v)
            BY <1>0, <5>2 DEF WriterShutdown, WriterWaits, WriterMoves, InNextAction
          <5> QED BY <3>2, <5>1, <5>2
        <4>2. compactions' = compactions
          BY <1>0, <2>2, <4>1 DEF WriterActs
        <4> QED BY <3>2, <4>2 DEF TakeBatch, WriterShutdown, WriterWaits, countVars, flagVars
      <3> QED BY <2>2, <3>1, <3>2 DEF WriterActs, NextAction
    <2>3. CASE WriterPublishes(v)
      BY <2>3 DEF WriterPublishes, PublishSingly, PublishBatch, PublishUnsupported, PublishOneByOne,
             PublishUnchanged, Quiet, countVars, flagVars
    <2>4. CASE WriterCompletes(v)
      BY <2>4 DEF WriterCompletes, CompleteWriteBatch, Quiet, flagVars
    <2>5. CASE WriterCheckpoints(v)
      BY <2>5 DEF WriterCheckpoints, FinishCheckpoint, CheckpointError, FailCheckpoint, Quiet,
             countVars, flagVars
    <2>6. CASE WriterUnwinds(v)
      BY <2>6 DEF WriterUnwinds, UnwindBatch, WriterUnwindStep, RequestWriteShutdown, Quiet,
             countVars, flagVars
    <2> QED BY <2>1, <2>2, <2>3, <2>4, <2>5, <2>6 DEF WriterStep
  <1>4. CASE OtherStep
    <2>1. CASE PollerStep \/ OperatorInterrupt \/ Stopped
      BY <2>1 DEF PollerStep, RequestWriteShutdown, OperatorInterrupt, Stopped, vars, writeVars,
             countVars, flagVars
    <2>2. CASE MainStep
      BY <2>2 DEF MainStep, FinishProducing, WritersJoined, MainEnds, countVars, flagVars
    <2>3. CASE ThreadPanics \/ SpuriousWakes
      BY <2>3 DEF ThreadPanics, WriterPanic, CheckpointPanic, SpuriousWakes, SpuriousWriteWake, Quiet,
             writeVars, countVars, flagVars
    <2> QED BY <1>4, <2>1, <2>2, <2>3 DEF OtherStep
  <1> QED BY <1>1, <1>2, <1>3, <1>4 DEF Next, OtherStep

\* Every step keeps one compaction, done or pending, per interval.
LEMMA CompactionStep ==
    ASSUME CopyInv, [Next]_vars
    PROVE  OneCompactionPerInterval'
  <1> SUFFICES ASSUME CountsAttempts
               PROVE  compactions' + (IF checkpoint_pending' THEN 1 ELSE 0) =
                         attempted_write_count' \div checkpoint_interval
    BY DEF OneCompactionPerInterval, CountsAttempts
  <1>0. /\ WorkInv /\ WriteInv /\ OutcomeTypeOK
        /\ compactions \in Nat /\ attempted_write_count \in Nat /\ checkpoint_pending \in BOOLEAN
        /\ checkpoint_interval \in Nat \ {0}
        /\ compactions + (IF checkpoint_pending THEN 1 ELSE 0) =
              attempted_write_count \div checkpoint_interval
    BY WriteLimitsAssumption DEF CopyInv, WriteInv, WriteControlTypeOK, OutcomeTypeOK,
       OneCompactionPerInterval, CountsAttempts
  <1>1. CASE UNCHANGED <<attempted_write_count, checkpoint_pending, compactions>>
    BY <1>0, <1>1
  <1>2. ASSUME NEW w \in Workers, Accepts(w)
        PROVE  compactions' + (IF checkpoint_pending' THEN 1 ELSE 0) =
                  attempted_write_count' \div checkpoint_interval
    <2>1. /\ ~checkpoint_pending /\ compactions' = compactions
          /\ attempted_write_count' = attempted_write_count + 1
          /\ checkpoint_pending' <=> attempted_write_count' % checkpoint_interval = 0
      BY <1>2 DEF Accepts, EnqueueStep, EnqueueAccepted, AdmissionBlocked
    <2>2. attempted_write_count' \div checkpoint_interval =
             (attempted_write_count \div checkpoint_interval)
                + (IF attempted_write_count' % checkpoint_interval = 0 THEN 1 ELSE 0)
      BY <1>0, <2>1, NextQuotient
    <2>3. compactions = attempted_write_count \div checkpoint_interval
      BY <1>0, <2>1
    <2> QED BY <1>0, <2>1, <2>2, <2>3
  <1>3. ASSUME NEW v \in Writers, StartCheckpoint(v), compactions' = compactions + 1
        PROVE  compactions' + (IF checkpoint_pending' THEN 1 ELSE 0) =
                  attempted_write_count' \div checkpoint_interval
    <2>1. /\ checkpoint_pending /\ ~checkpoint_pending'
          /\ attempted_write_count' = attempted_write_count
      BY <1>3 DEF StartCheckpoint, CheckpointDue, countVars
    <2> QED BY <1>0, <1>3, <2>1
  <1> QED BY <1>0, <1>1, <1>2, <1>3, CompactionCases

-----------------------------------------------------------------------------
(* The invariant holds at the start. *)

\* The invariant holds when the threads start.
LEMMA CopyInvInit ==
    ASSUME Init
    PROVE  CopyInv
  <1>0. WorkInv /\ WriteInv
    BY WorkInvInit, WriteInvInit DEF Init
  <1>1. /\ stage = [w \in Workers |-> "pop"] /\ visited = {} /\ destination = Stored
        /\ writer = [v \in Writers |-> [at |-> "next_action", jobs |-> <<>>]]
        /\ tracker = NewTracker /\ write_queue = <<>> /\ main = "join_workers"
        /\ ~stop_requested /\ ~interrupted /\ poller = "polling" /\ ~work_shutdown
        /\ ~write_shutdown /\ ~producers_finished /\ ~checkpoint_pending
        /\ compactions = 0 /\ attempted_write_count = 0
        /\ copied_block_count = 0 /\ skipped_already_present_block_count = 0
        /\ attempted_write_block_count = 0
        /\ work_queue = [i \in 1..Len(RootIds) |-> <<RootIds[i], RootIds[i]>>]
    BY DEF Init, WorkQueueInit, WriteQueueInit
  <1>2. /\ tracker \in Trackers
        /\ \A b \in Blocks : /\ tracker.block_roots[b] = {} /\ tracker.discovered_children[b] = {}
                             /\ \A o : TimesRecorded(tracker, b, o) = 0
        /\ \A r, b, o : TimesReported(tracker, r, b, o) = 0
    BY <1>1, NewTrackerFacts
  <1>3. HandlingWorkers = {} /\ PublishingWriters = {} /\ QueuePlaces = {} /\ Holders = {}
    BY <1>1 DEF HandlingWorkers, HandlingStages, PublishingWriters, PublishingStages, QueuePlaces,
           Holders, HoldingStages
  <1>4. OutcomeTypeOK
    <2>1. interrupted \in BOOLEAN
      BY DEF Init
    <2>2. Stored \subseteq Blocks
      BY EnvironmentAssumption
    <2> QED BY <1>1, <1>2, <2>1, <2>2 DEF OutcomeTypeOK
  <1>5. StopHasReason
    BY <1>1 DEF StopHasReason, PanicStages, WriterPanicStages
  <1>6. EndsInOrder
    BY <1>1 DEF EndsInOrder
  <1>7. OnePlace /\ HandledIsUnfinished /\ NothingLost
    BY <1>1, <1>3 DEF OnePlace, HandledIsUnfinished, NothingLost
  <1>8. FailedOnce
    BY <1>2, <1>3 DEF FailedOnce
  <1>9. ChildrenKnown /\ RootsPropagate
    BY <1>1, <1>2, <1>3 DEF ChildrenKnown, RootsPropagate
  <1>10. /\ Len(work_queue) = Len(RootIds) /\ Len(RootIds) \in Nat
         /\ \A i \in 1..Len(RootIds) : work_queue[i] = <<RootIds[i], RootIds[i]>>
    BY <1>1, GraphAssumption
  <1>11. ItemsKnown
    BY <1>2, <1>3, <1>10 DEF ItemsKnown, Roots
  <1>12. NothingForgotten
    BY <1>2, <1>10 DEF NothingForgotten, Roots
  <1>13. ReportedOnce
    BY <1>2 DEF ReportedOnce
  <1>14. Counted
    <2>1. HoldersOfStored = {} /\ visited \cap Stored = {} /\ destination \ Stored = {}
      BY <1>1, <1>3 DEF HoldersOfStored
    <2>2. Cardinality({}) = 0
      BY FS_EmptySet
    <2>3. CASE BlindWrite
      BY <1>1, <1>3, <2>2, <2>3 DEF Counted
    <2>4. CASE ~BlindWrite
      <3>1. /\ Cardinality(HoldersOfStored) = 0 /\ Cardinality(visited \cap Stored) = 0
            /\ Cardinality(destination \ Stored) = 0
        BY <2>1, <2>2
      <3>2. copied_block_count = 0 /\ skipped_already_present_block_count = 0
        BY <1>1
      <3> QED BY <1>3, <2>4, <3>1, <3>2 DEF Counted
    <2> QED BY <2>3, <2>4
  <1>15. OneCompactionPerInterval
    <2>1. ASSUME CountsAttempts PROVE 0 \div checkpoint_interval = 0
      BY <2>1, WriteLimitsAssumption DEF CountsAttempts
    <2> QED BY <1>1, <2>1 DEF OneCompactionPerInterval
  <1> QED BY <1>0, <1>4, <1>5, <1>6, <1>7, <1>8, <1>9, <1>11, <1>12, <1>13, <1>14, <1>15 DEF CopyInv

\* Every step keeps the invariant.
LEMMA CopyInvStep ==
    ASSUME CopyInv, [Next]_vars
    PROVE  CopyInv'
  <1>1. WorkInv /\ WriteInv
    BY DEF CopyInv
  <1>2. WorkInv'
    BY <1>1, NextIsWorkStep, WorkInvStep
  <1>3. WriteInv'
    BY <1>1, NextIsWriteStep, WriteInvStep DEF WorkInv
  <1> QED
    BY <1>2, <1>3, OutcomeTypeStep, StopStep, EndsStep, PlacesStep, NothingLostStep, FailedOnceStep,
       ChildrenStep, PropagateStep, ItemsStep, NothingForgottenStep, ReportedStep, CountedStep,
       CompactionStep DEF CopyInv

\* The invariant holds throughout.
LEMMA CopyInvHolds == Spec => []CopyInv
  <1>1. Init => CopyInv
    BY CopyInvInit
  <1>2. CopyInv /\ [Next]_vars => CopyInv'
    BY CopyInvStep
  <1> QED BY <1>1, <1>2, PTL DEF Spec

-----------------------------------------------------------------------------
(* The theorems. *)

\* run_threaded_copy_worker and the two queues: whatever the graph, the limits and
\* the faults, and however many parents discover a block, one thread at a time
\* handles it and none once it is published; a claimed block is not dropped in a
\* hand-over unless a stop was requested.
THEOREM CopyHandlesOnce == Spec => []HandledExactlyOnce
  <1>1. CopyInv => HandledExactlyOnce
    BY InvHandled
  <1> QED BY <1>1, CopyInvHolds, PTL

\* copy_rooted_blocks_multi_worker: a copy that ran to its end left every block that
\* a requested root reaches in the destination, or its report names the failure for
\* that root.
THEOREM CopyComplete == Spec => []CompletedCopyIsComplete
  <1>1. CopyInv => CompletedCopyIsComplete
    BY InvComplete
  <1> QED BY <1>1, CopyInvHolds, PTL

\* CopyFailureTracker and record_threaded_write_completions: whichever worker meets a
\* failure first, the report names it once for each root that reaches it and for no
\* other, and the counters agree with what the destination gained.
THEOREM CopyReportTrue == Spec => []ReportTruthful
  <1>1. CopyInv => ReportTruthful
    BY InvReport
  <1> QED BY <1>1, CopyInvHolds, PTL

\* ThreadedWriteQueue::enqueue and run_threaded_checkpoint_if_needed: every full
\* interval of attempted blind writes has been followed by one compaction, or has
\* one pending.
THEOREM CompactionsKeepPace == Spec => []OneCompactionPerInterval
  <1>1. CopyInv => OneCompactionPerInterval
    BY DEF CopyInv
  <1> QED BY <1>1, CopyInvHolds, PTL

=============================================================================
