-------------------------- MODULE ThreadedBlockCopy --------------------------
(***************************************************************************)
(* copy_rooted_blocks_multi_worker_with_mode_and_limits_and_checkpoint:    *)
(* traversal workers walk the block graph from the requested roots through *)
(* the shared work queue and hand every block they read to the write       *)
(* queue, whose writer threads publish to the destination; an interrupt    *)
(* thread polls the operator interrupt; the calling thread joins them all. *)
(*                                                                         *)
(* A step is one critical section, one access to an atomic, or one call of *)
(* a block store together with the bookkeeping of its outcome (metrics and *)
(* failure records only ever grow and are read when every thread has been  *)
(* joined).  The source store does not change during the copy.  Which      *)
(* calls may fail, and how, is the constant Faulty and the set Faults.     *)
(***************************************************************************)
EXTENDS ThreadedWorkQueue, ThreadedWriteQueue, CopyFailureTracker

CONSTANTS
    Stored,     \* blocks the destination holds at the start
    Faulty,     \* operation -> blocks on which it may fail
    Faults      \* other events that may occur

FaultKinds == {"interrupt", "worker_panic", "writer_panic", "checkpoint_panic",
               "checkpoint_error", "batch_unsupported"}

ASSUME EnvironmentAssumption ==
    /\ IsFiniteSet(Blocks) /\ DestinationStore \notin Blocks
    /\ Stored \subseteq Blocks
    /\ Faulty \in [Operations \ {"CompactDestinationStore"} -> SUBSET Blocks]
    /\ Faults \subseteq FaultKinds

VARIABLES
    visited,            \* blocks some worker claimed
    tracker,            \* the CopyFailureTracker
    destination,        \* blocks the destination holds
    copied_block_count,
    skipped_already_present_block_count,
    attempted_write_block_count,
    interrupted,        \* the process-wide interrupt latch
    poller,             \* stage of the interrupt thread
    compactions         \* checkpoints started (history)

reportVars == <<visited, tracker, destination, copied_block_count,
                skipped_already_present_block_count, attempted_write_block_count>>
signalVars == <<interrupted, poller>>
vars == <<workVars, writeVars, stop_requested, reportVars, signalVars, compactions>>

Roots == {RootIds[i] : i \in 1..Len(RootIds)}

Init ==
    /\ WorkQueueInit
    /\ WriteQueueInit
    /\ visited = {}
    /\ tracker = NewTracker
    /\ destination = Stored
    /\ copied_block_count = 0
    /\ skipped_already_present_block_count = 0
    /\ attempted_write_block_count = 0
    /\ interrupted = FALSE
    /\ poller = "polling"
    /\ compactions = 0

-----------------------------------------------------------------------------
(* run_threaded_copy_worker *)

Root(w)  == item[w][1]
Block(w) == item[w][2]

\* A stage change of worker w that touches neither queue.
WorkerMoves(w, from, to) ==
    /\ stage[w] = from
    /\ Moves(w, to)
    /\ UNCHANGED <<work_queue, active_workers, work_shutdown, work_waiting, item,
                   writeVars, stop_requested, signalVars, compactions>>

WorkerPops(w) == Pop(w) /\ UNCHANGED <<writeVars, reportVars, signalVars, compactions>>

NoteRoot(w) ==
    /\ WorkerMoves(w, "note_root", "visit")
    /\ tracker' = NoteBlockRoot(tracker, Root(w), Block(w))
    /\ UNCHANGED <<visited, destination, copied_block_count,
                   skipped_already_present_block_count, attempted_write_block_count>>

\* Mutant: a block is handled again for every parent.
VisitAlways(w) ==
    /\ WorkerMoves(w, "visit", "read")
    /\ visited' = visited \cup {Block(w)}
    /\ UNCHANGED <<tracker, destination, copied_block_count,
                   skipped_already_present_block_count, attempted_write_block_count>>

Visit(w) ==
    /\ WorkerMoves(w, "visit", IF Block(w) \in visited THEN "finish" ELSE "read")
    /\ visited' = visited \cup {Block(w)}
    /\ UNCHANGED <<tracker, destination, copied_block_count,
                   skipped_already_present_block_count, attempted_write_block_count>>

\* read_source_block_threaded returns None.
ReadFails(w) ==
    /\ WorkerMoves(w, "read", "finish")
    /\ Block(w) \in Faulty["ReadSourceBlock"]
    /\ tracker' = Record(tracker, Block(w), "ReadSourceBlock")
    /\ UNCHANGED <<visited, destination, copied_block_count,
                   skipped_already_present_block_count, attempted_write_block_count>>

\* decode_source_block and remember_children under one lock.
ReadAndDecode(w) ==
    /\ WorkerMoves(w, "read", "check_stop")
    /\ \/ tracker' = RememberChildren(tracker, Block(w), ToSet(Children[Block(w)]))
       \/ /\ Block(w) \in Faulty["DecodeSourceBlock"]
          /\ tracker' = RememberChildren(Record(tracker, Block(w), "DecodeSourceBlock"),
                                         Block(w), {})
    /\ UNCHANGED <<visited, destination, copied_block_count,
                   skipped_already_present_block_count, attempted_write_block_count>>

\* The children decode_source_block returned; none when decoding failed.
DecodedChildren(w) ==
    IF BagIn("DecodeSourceBlock", tracker.failure_templates[Block(w)])
    THEN <<>> ELSE Children[Block(w)]

\* The unlocked read of stop_requested before the children are queued.
CheckStop(w) ==
    /\ WorkerMoves(w, "check_stop", IF stop_requested THEN "destination" ELSE "push_children")
    /\ UNCHANGED reportVars

PushChildren(w) ==
    /\ EnqueueChildren(w, DecodedChildren(w))
    /\ UNCHANGED <<writeVars, reportVars, signalVars, compactions>>

\* ReadBeforeWrite: look the block up in the destination first.
DestinationStopped(w) ==
    /\ WorkerMoves(w, "destination", "finish")
    /\ ~BlindWrite /\ stop_requested
    /\ UNCHANGED reportVars

AlreadyPresent(w) ==
    /\ WorkerMoves(w, "destination", "finish")
    /\ ~BlindWrite /\ ~stop_requested
    /\ Block(w) \in destination
    /\ skipped_already_present_block_count' = skipped_already_present_block_count + 1
    /\ UNCHANGED <<visited, tracker, destination, copied_block_count,
                   attempted_write_block_count>>

CheckFails(w) ==
    /\ WorkerMoves(w, "destination", "finish")
    /\ ~BlindWrite /\ ~stop_requested
    /\ Block(w) \in Faulty["CheckDestinationBlock"]
    /\ tracker' = Record(tracker, Block(w), "CheckDestinationBlock")
    /\ UNCHANGED <<visited, destination, copied_block_count,
                   skipped_already_present_block_count, attempted_write_block_count>>

\* Absent from the destination, or BlindWrite: submit the block.
Submit(w) ==
    /\ WorkerMoves(w, "destination", "enqueue_write")
    /\ \/ BlindWrite
       \/ ~stop_requested /\ Block(w) \notin destination
    /\ UNCHANGED reportVars

\* The worker's side of ThreadedWriteQueue::enqueue.
EnqueueStep(w, to) ==
    /\ stage[w] = "enqueue_write"
    /\ Moves(w, to)
    /\ UNCHANGED <<work_queue, active_workers, work_shutdown, work_waiting, item,
                   visited, tracker, destination, copied_block_count,
                   skipped_already_present_block_count, signalVars, compactions>>

EnqueueWrite(w) ==
    \/ /\ EnqueueStep(w, "finish")
       /\ EnqueueRejected(w)
       /\ UNCHANGED attempted_write_block_count
    \/ /\ EnqueueStep(w, "finish")
       /\ EnqueueAccepted(w, Block(w))
       /\ attempted_write_block_count' =
             attempted_write_block_count + (IF BlindWrite THEN 1 ELSE 0)
    \/ /\ EnqueueStep(w, "enqueue_write")
       /\ EnqueueWaits(w, Block(w))
       /\ UNCHANGED attempted_write_block_count

WorkerFinishes(w) ==
    FinishItem(w) /\ UNCHANGED <<writeVars, reportVars, signalVars, compactions>>

WorkerUnwinds(w) ==
    \/ UnwindItem(w) /\ UNCHANGED <<writeVars, reportVars, signalVars, compactions>>
    \/ /\ stage[w] = "unwind_work"
       /\ RequestWorkShutdown
       /\ Moves(w, "unwind_write")
       /\ UNCHANGED <<writeVars, reportVars, signalVars, compactions>>
    \/ /\ stage[w] = "unwind_write"
       /\ RequestWriteShutdown
       /\ Moves(w, "panicked")
       /\ UNCHANGED <<writer, work_queue, active_workers, work_shutdown, work_waiting, item,
                      reportVars, signalVars, compactions>>

WorkerStep(w) ==
    \/ WorkerPops(w) \/ NoteRoot(w) \/ Visit(w) \/ ReadFails(w) \/ ReadAndDecode(w)
    \/ CheckStop(w) \/ PushChildren(w)
    \/ DestinationStopped(w) \/ AlreadyPresent(w) \/ CheckFails(w) \/ Submit(w)
    \/ EnqueueWrite(w) \/ WorkerFinishes(w) \/ WorkerUnwinds(w)

-----------------------------------------------------------------------------
(* run_threaded_write_worker *)

Quiet == <<workVars, signalVars, compactions>>

WriterActs(v) ==
    /\ NextAction(v)
    /\ compactions' = compactions + (IF writer'[v].at = "checkpoint" THEN 1 ELSE 0)
    /\ UNCHANGED <<workVars, reportVars, signalVars>>

\* record_threaded_write_completions for the jobs at positions good and bad of
\* the batch, which are different blocks (HandledOnce).
RecordCompletions(v, good, bad) ==
    LET jobs == writer[v].jobs
    IN /\ destination' = destination \cup {jobs[i] : i \in good}
       /\ copied_block_count' =
             copied_block_count + (IF BlindWrite THEN 0 ELSE Cardinality(good))
       /\ tracker' = RecordEach(tracker, {jobs[i] : i \in bad}, "WriteDestinationBlock")
       /\ UNCHANGED <<visited, skipped_already_present_block_count,
                      attempted_write_block_count>>

MayFail(v, i) == writer[v].jobs[i] \in Faulty["WriteDestinationBlock"]

WriterPublishes(v) ==
    /\ \/ PublishSingly(v) /\ UNCHANGED reportVars
       \/ /\ PublishBatch(v)
          /\ \/ RecordCompletions(v, 1..Len(writer[v].jobs), {})
             \/ /\ \E i \in 1..Len(writer[v].jobs) : MayFail(v, i)
                /\ RecordCompletions(v, {}, 1..Len(writer[v].jobs))
       \/ /\ "batch_unsupported" \in Faults
          /\ PublishUnsupported(v)
          /\ UNCHANGED reportVars
       \/ /\ PublishOneByOne(v)
          /\ \E bad \in SUBSET {i \in 1..Len(writer[v].jobs) : MayFail(v, i)} :
                RecordCompletions(v, 1..Len(writer[v].jobs) \ bad, bad)
    /\ UNCHANGED Quiet

WriterCompletes(v) == CompleteWriteBatch(v) /\ UNCHANGED <<Quiet, reportVars>>

\* run_threaded_checkpoint_if_needed
WriterCheckpoints(v) ==
    \/ FinishCheckpoint(v) /\ UNCHANGED <<Quiet, reportVars>>
    \/ /\ "checkpoint_error" \in Faults
       /\ CheckpointError(v)
       /\ tracker' = RecordStoreFailure(tracker, Roots, "CompactDestinationStore")
       /\ UNCHANGED <<Quiet, visited, destination, copied_block_count,
                      skipped_already_present_block_count, attempted_write_block_count>>
    \/ FailCheckpoint(v) /\ UNCHANGED <<Quiet, reportVars>>

WriterUnwinds(v) ==
    \/ UnwindBatch(v) /\ UNCHANGED <<Quiet, reportVars>>
    \/ /\ WriterUnwindStep(v)
       /\ IF writer[v].at = "unwind_work"
          THEN RequestWorkShutdown /\ UNCHANGED stage
          ELSE UNCHANGED workVars
       /\ UNCHANGED <<reportVars, signalVars, compactions>>

WriterStep(v) ==
    \/ WriterActs(v) \/ WriterPublishes(v) \/ WriterCompletes(v)
    \/ WriterCheckpoints(v) \/ WriterUnwinds(v)

-----------------------------------------------------------------------------
(* The interrupt thread and the calling thread. *)

PollerStep ==
    \/ /\ poller = "polling" /\ stop_requested
       /\ poller' = "done"
       /\ UNCHANGED <<workVars, writeVars, stop_requested, reportVars, interrupted, compactions>>
    \/ /\ poller = "polling" /\ ~stop_requested /\ interrupted
       /\ stop_requested' = TRUE
       /\ poller' = "close_work"
       /\ UNCHANGED <<workVars, writeVars, reportVars, interrupted, compactions>>
    \/ /\ poller = "close_work"
       /\ RequestWorkShutdown
       /\ poller' = "close_write"
       /\ UNCHANGED <<stage, writeVars, reportVars, interrupted, compactions>>
    \/ /\ poller = "close_write"
       /\ RequestWriteShutdown
       /\ poller' = "done"
       /\ UNCHANGED <<writer, workVars, reportVars, interrupted, compactions>>

AnyPanicked ==
    \/ \E w \in Workers : stage[w] = "panicked"
    \/ \E v \in Writers : writer[v].at = "panicked"

\* A thread that panicked has called request_threaded_shutdown itself before it
\* ended, so the joining thread's repeated call changes nothing.
MainStep ==
    \/ /\ \A w \in Workers : stage[w] \in {"done", "panicked"}
       /\ FinishProducing
       /\ UNCHANGED <<workVars, reportVars, signalVars, compactions>>
    \/ WritersJoined /\ UNCHANGED <<workVars, reportVars, signalVars, compactions>>
    \/ /\ poller = "done"
       /\ MainEnds(IF AnyPanicked THEN "panicked" ELSE "returned")
       /\ UNCHANGED <<workVars, reportVars, signalVars, compactions>>

-----------------------------------------------------------------------------
(* The environment. *)

OperatorInterrupt ==
    /\ "interrupt" \in Faults
    /\ ~interrupted /\ main \notin {"returned", "panicked"}
    /\ interrupted' = TRUE
    /\ UNCHANGED <<workVars, writeVars, stop_requested, reportVars, poller, compactions>>

ThreadPanics ==
    \/ /\ "worker_panic" \in Faults
       /\ \E w \in Workers : WorkerPanic(w)
       /\ UNCHANGED <<writeVars, reportVars, signalVars, compactions>>
    \/ /\ "writer_panic" \in Faults
       /\ \E v \in Writers : WriterPanic(v)
       /\ UNCHANGED <<Quiet, reportVars>>
    \/ /\ "checkpoint_panic" \in Faults
       /\ \E v \in Writers : CheckpointPanic(v)
       /\ UNCHANGED <<Quiet, reportVars>>

SpuriousWakes ==
    \/ /\ \E w \in Workers : SpuriousPopWake(w)
       /\ UNCHANGED <<writeVars, reportVars, signalVars, compactions>>
    \/ /\ \E t \in Workers \cup Writers : SpuriousWriteWake(t)
       /\ UNCHANGED <<Quiet, reportVars>>

Ended == main \in {"returned", "panicked"}

Stopped == Ended /\ UNCHANGED vars

Next ==
    \/ \E w \in Workers : WorkerStep(w)
    \/ \E v \in Writers : WriterStep(v)
    \/ PollerStep \/ MainStep
    \/ OperatorInterrupt \/ ThreadPanics \/ SpuriousWakes
    \/ Stopped

Spec == Init /\ [][Next]_vars

\* Every thread keeps running until it ends; store calls return; critical
\* sections are finite, so a thread that wants a mutex gets it.  Interrupts,
\* panics and spurious wake-ups are never owed.
Fairness ==
    /\ \A w \in Workers : WF_vars(WorkerStep(w))
    /\ \A v \in Writers : WF_vars(WriterStep(v))
    /\ WF_vars(PollerStep)
    /\ WF_vars(MainStep)

FairSpec == Spec /\ Fairness

-----------------------------------------------------------------------------
(* Properties *)

Failed(b, operations) == \E o \in operations : BagIn(o, tracker.failure_templates[b])

\* The operations whose failure means the block did not reach the destination.
LosingOperations == {"ReadSourceBlock", "CheckDestinationBlock", "WriteDestinationBlock"}

\* Where a claimed block is being worked on: each place counts once.
Places(b) ==
    {<<w>> : w \in {u \in Workers :
        /\ stage[u] \in {"read", "check_stop", "push_children", "destination", "enqueue_write"}
        /\ Block(u) = b}}
    \cup {<<i>> : i \in {j \in 1..Len(write_queue) : write_queue[j] = b}}
    \cup UNION {{<<v, i>> : i \in {j \in 1..Len(writer[v].jobs) : writer[v].jobs[j] = b}} :
                v \in {u \in Writers : writer[u].at \in {"publish", "one_by_one"}}}

\* However many parents discover a block, at most one worker, queue entry or
\* batch handles it at a time, and none once it has been published.
HandledOnce ==
    \A b \in Blocks :
       Cardinality(Places(b)) <= IF b \in destination \ Stored THEN 0 ELSE 1

\* A claimed block is in the destination, still being handled, or failed in a
\* way the report shows; it is dropped only after a stop request.
NothingLostUnlessStopped ==
    \A b \in visited :
       b \in destination \/ Failed(b, LosingOperations) \/ Places(b) # {} \/ stop_requested

\* The report's counters never claim an outcome that was not observed.
CountersTruthful ==
    IF BlindWrite
    THEN attempted_write_block_count <= Cardinality(visited)
    ELSE /\ copied_block_count = Cardinality(destination \ Stored)
         /\ skipped_already_present_block_count <= Cardinality(destination \cap Stored)

\* The copy ran to its end: not interrupted, no panic, no failed checkpoint.
Completed ==
    /\ main = "returned"
    /\ ~interrupted
    /\ DestinationStore \notin FailedIds(tracker)

\* The blocks a root reaches over the children of readable, decodable blocks.
ReachableFrom(r) ==
    LET Edges(b) == IF Failed(b, {"ReadSourceBlock", "DecodeSourceBlock"})
                    THEN {} ELSE ToSet(Children[b])
    IN {b \in Blocks : \A S \in SUBSET Blocks :
           r \in S /\ (\A c \in S : Edges(c) \subseteq S) => b \in S}

\* A copy that completed left every block reachable from a requested root in the
\* destination, or reports its failure for that root.
CompletedCopyIsComplete ==
    Completed => \A r \in Roots : \A b \in ReachableFrom(r) :
       b \in destination \/ \E o \in LosingOperations : BagIn(Failure(r, b, o), tracker.failures)

\* A completed copy reports a failure once for each requested root that reaches
\* the failed block, and for no other root, whichever worker found it first.
FailuresReachEveryRoot ==
    Completed => \A r \in Roots, b \in Blocks, o \in Operations :
       Occurrences(Failure(r, b, o), tracker.failures) =
          IF b \in ReachableFrom(r) /\ Failed(b, {o}) THEN 1 ELSE 0

\* At every moment the tracker owes no root a failure it knows of.
FailuresAttributed == Attributed(tracker)

\* One compaction per interval of attempted blind writes, none skipped, none
\* repeated.
OneCompactionPerInterval ==
    CountsAttempts =>
       compactions + (IF checkpoint_pending THEN 1 ELSE 0) =
          attempted_write_count \div checkpoint_interval

\* requirements.md, admission control: once the interrupt has been observed and
\* both queues are shut down, no new unit of work (a compaction) is started.
NoCompactionAfterInterrupt ==
    [][interrupted /\ work_shutdown /\ write_shutdown => compactions' = compactions]_vars

\* A writer panicked inside the checkpoint action and left checkpoint_running set.
CheckpointAbandoned ==
    checkpoint_running /\ \A v \in Writers : writer[v].at # "checkpoint"
                                           /\ writer[v].at # "checkpoint_failed"

\* Whatever is interrupted, fails or panics, the copy ends, unless a panic inside
\* the checkpoint action leaves checkpoint_running set for good.
CopyEnds == <>(Ended \/ CheckpointAbandoned)

\* Each reachable block is handled by one thread at a time, once, and none is
\* dropped in a hand-over between the queues (run_threaded_copy_worker).
HandledExactlyOnce == HandledOnce /\ NothingLostUnlessStopped

\* Whichever worker meets a failure first, and whenever a root is found to reach
\* it, every root is told of its failures once, and the counters tell the rest
\* (CopyFailureTracker::record, record_write_completions).
ReportTruthful == CountersTruthful /\ FailuresReachEveryRoot /\ FailuresAttributed
=============================================================================
