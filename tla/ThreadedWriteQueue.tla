------------------------- MODULE ThreadedWriteQueue -------------------------
(***************************************************************************)
(* ThreadedWriteQueue of block_copy.rs and the writer threads that drain   *)
(* it: bounded admission of write jobs by the traversal workers, batches   *)
(* whose size depends on what is known of the destination's batch support, *)
(* and the checkpoint (destination compaction) after every                 *)
(* checkpoint_interval blind writes, for which all publication pauses.     *)
(*                                                                         *)
(* Every method is one critical section under one mutex, hence one action. *)
(* next_action reads two atomics inside its critical section; both are     *)
(* read at the action's instant, which is exact because the capability     *)
(* only changes while a batch is active and stop_requested never resets.   *)
(* Workers and writers wait on the same condition variable: the set        *)
(* write_waiting, which notify_all empties.                                *)
(*                                                                         *)
(* A write job is the hash of its block; len gives the size of its bytes.  *)
(***************************************************************************)
EXTENDS CopyStopFlag, Sequences, SequencesExt

CONSTANTS
    len,                                    \* block -> bytes
    max_in_flight_destination_writes,
    max_in_flight_destination_write_bytes,  \* 0: no byte limit
    checkpoint_interval,                    \* 0: no checkpoint
    BlindWrite                              \* destination mode

ASSUME WriteLimitsAssumption ==
    /\ len \in [Blocks -> Nat]
    /\ max_in_flight_destination_writes \in Nat \ {0}
    /\ max_in_flight_destination_write_bytes \in Nat
    /\ checkpoint_interval \in Nat
    /\ BlindWrite \in BOOLEAN

VARIABLES
    write_queue,
    queued_write_bytes,
    active_writes,
    active_write_bytes,
    attempted_write_count,
    producers_finished,
    write_shutdown,
    checkpoint_pending,
    checkpoint_running,
    write_waiting,
    batch_write_capability,
    writer,             \* stage of each writer thread and the batch it holds
    main                \* progress of the thread that joins the others

countVars == <<write_queue, queued_write_bytes, active_writes, active_write_bytes,
               attempted_write_count>>
flagVars  == <<producers_finished, write_shutdown, checkpoint_pending, checkpoint_running>>
writeVars == <<countVars, flagVars, write_waiting, batch_write_capability, writer, main>>

Capabilities == {"Unknown", "Probing", "Supported", "Unsupported"}

\* Stages in which a writer holds a batch (its ThreadedActiveWriteGuard lives).
BatchStages  == {"publish", "one_by_one", "complete", "unwind_batch"}
WriterStages == BatchStages \cup {"next_action", "checkpoint", "checkpoint_failed",
                                 "unwind_work", "unwind_write", "done", "panicked"}

\* Stages of a writer inside run_threaded_checkpoint_if_needed.
CheckpointStages == {"checkpoint", "checkpoint_failed"}

BatchHolders == {v \in Writers : writer[v].at \in BatchStages}

Total(jobs) ==
    LET sum[i \in 0..Len(jobs)] == IF i = 0 THEN 0 ELSE sum[i - 1] + len[jobs[i]]
    IN  sum[Len(jobs)]

WriteQueueInit ==
    /\ stop_requested = FALSE
    /\ write_queue = <<>>
    /\ queued_write_bytes = 0
    /\ active_writes = 0
    /\ active_write_bytes = 0
    /\ attempted_write_count = 0
    /\ producers_finished = FALSE
    /\ write_shutdown = FALSE
    /\ checkpoint_pending = FALSE
    /\ checkpoint_running = FALSE
    /\ write_waiting = {}
    /\ batch_write_capability = "Unknown"
    /\ writer = [v \in Writers |-> [at |-> "next_action", jobs |-> <<>>]]
    /\ main = "join_workers"

NotifyWrite == write_waiting' = {}

WriterMoves(v, to) == writer' = [writer EXCEPT ![v].at = to]

-----------------------------------------------------------------------------
(* enqueue: a worker submits the block it has read. *)

InFlight == Len(write_queue) + active_writes

\* Mutant: the jobs writers hold are not counted.
AdmissionCountsQueueOnly(b) ==
    \/ checkpoint_pending \/ checkpoint_running
    \/ Len(write_queue) >= max_in_flight_destination_writes

\* Mutant: the bytes writers hold are not counted.
AdmissionIgnoresActiveBytes(b) ==
    \/ checkpoint_pending \/ checkpoint_running
    \/ InFlight >= max_in_flight_destination_writes
    \/ /\ InFlight > 0
       /\ max_in_flight_destination_write_bytes > 0
       /\ queued_write_bytes + len[b] > max_in_flight_destination_write_bytes

\* Mutant: writes are admitted while a checkpoint is due.
AdmissionDuringPending(b) ==
    checkpoint_running \/ InFlight >= max_in_flight_destination_writes

AdmissionBlocked(b) ==
    \/ checkpoint_pending
    \/ checkpoint_running
    \/ InFlight >= max_in_flight_destination_writes
    \/ /\ InFlight > 0
       /\ max_in_flight_destination_write_bytes > 0
       /\ queued_write_bytes + active_write_bytes + len[b] >
             max_in_flight_destination_write_bytes

CountsAttempts == BlindWrite /\ checkpoint_interval > 0

\* enqueue returns false.
EnqueueRejected(w) ==
    /\ w \notin write_waiting
    /\ write_shutdown \/ stop_requested
    /\ UNCHANGED <<writeVars, stop_requested>>

EnqueueWaits(w, b) ==
    /\ w \notin write_waiting
    /\ ~write_shutdown /\ ~stop_requested
    /\ AdmissionBlocked(b)
    /\ write_waiting' = write_waiting \cup {w}
    /\ UNCHANGED <<countVars, flagVars, batch_write_capability, writer, main, stop_requested>>

\* enqueue returns true.
EnqueueAccepted(w, b) ==
    /\ w \notin write_waiting
    /\ ~write_shutdown /\ ~stop_requested
    /\ ~AdmissionBlocked(b)
    /\ queued_write_bytes' = queued_write_bytes + len[b]
    /\ attempted_write_count' =
          IF CountsAttempts THEN attempted_write_count + 1 ELSE attempted_write_count
    /\ checkpoint_pending' =
          \/ checkpoint_pending
          \/ CountsAttempts /\ attempted_write_count' % checkpoint_interval = 0
    /\ write_queue' = Append(write_queue, b)
    /\ NotifyWrite
    /\ UNCHANGED <<active_writes, active_write_bytes, producers_finished, write_shutdown,
                   checkpoint_running, batch_write_capability, writer, main, stop_requested>>

SpuriousWriteWake(t) ==
    /\ t \in write_waiting
    /\ write_waiting' = write_waiting \ {t}
    /\ UNCHANGED <<countVars, flagVars, batch_write_capability, writer, main, stop_requested>>

-----------------------------------------------------------------------------
(* next_action: what a writer thread does next. *)

InNextAction(v) == writer[v].at = "next_action" /\ v \notin write_waiting

\* Mutant: only the probe itself is waited for.
AwaitsProbeOnly == batch_write_capability = "Probing" /\ active_writes > 0

\* Until the destination is known not to support batches, one batch at a time.
AwaitsActiveBatch == batch_write_capability # "Unsupported" /\ active_writes > 0

\* The probe of two jobs is begun (compare_exchange Unknown -> Probing).
BeginsProbe == batch_write_capability = "Unknown" /\ Len(write_queue) >= 2

TargetBatchLen ==
    CASE batch_write_capability = "Supported" -> max_in_flight_destination_writes
      [] BeginsProbe -> 2
      [] OTHER -> 1

Prefix(n) == SubSeq(write_queue, 1, n)

FitsByteLimit(n) ==
    \/ n = 1
    \/ max_in_flight_destination_write_bytes = 0
    \/ Total(Prefix(n)) <= max_in_flight_destination_write_bytes

\* The batch is the longest prefix of the queue within the target length whose
\* bytes fit; its first job is taken whatever its size.
IsBatchLen(n) ==
    /\ n \in 1..Len(write_queue)
    /\ n <= TargetBatchLen
    /\ FitsByteLimit(n)
    /\ \A m \in (n + 1)..Len(write_queue) : m <= TargetBatchLen => ~FitsByteLimit(m)

TakeBatch(v) ==
    /\ InNextAction(v)
    /\ ~AwaitsActiveBatch
    /\ \E n \in 1..Len(write_queue) :
          /\ IsBatchLen(n)
          /\ writer' = [writer EXCEPT ![v] = [at |-> "publish", jobs |-> Prefix(n)]]
          /\ write_queue' = SubSeq(write_queue, n + 1, Len(write_queue))
          /\ queued_write_bytes' = SaturatingSub(queued_write_bytes, Total(Prefix(n)))
          /\ active_writes' = active_writes + n
          /\ active_write_bytes' = active_write_bytes + Total(Prefix(n))
    /\ batch_write_capability' = IF BeginsProbe THEN "Probing" ELSE batch_write_capability
    /\ UNCHANGED <<attempted_write_count, flagVars, write_waiting, main, stop_requested>>

\* Mutant: batches in the hands of other writers are not waited for.
CheckpointDueEarly == checkpoint_pending /\ ~checkpoint_running

\* Nothing is queued, so nothing of the last interval is left to publish.
CheckpointDue == checkpoint_pending /\ ~checkpoint_running /\ active_writes = 0

StartCheckpoint(v) ==
    /\ InNextAction(v)
    /\ ~AwaitsActiveBatch
    /\ write_queue = <<>>
    /\ CheckpointDue
    /\ checkpoint_pending' = FALSE
    /\ checkpoint_running' = TRUE
    /\ WriterMoves(v, "checkpoint")
    /\ UNCHANGED <<countVars, producers_finished, write_shutdown, write_waiting,
                   batch_write_capability, main, stop_requested>>

MayShutDown ==
    /\ producers_finished \/ write_shutdown \/ stop_requested
    /\ active_writes = 0
    /\ ~checkpoint_running

WriterShutdown(v) ==
    /\ InNextAction(v)
    /\ ~AwaitsActiveBatch
    /\ write_queue = <<>> /\ ~CheckpointDue
    /\ MayShutDown
    /\ write_shutdown' = TRUE
    /\ NotifyWrite
    /\ WriterMoves(v, "done")
    /\ UNCHANGED <<countVars, producers_finished, checkpoint_pending, checkpoint_running,
                   batch_write_capability, main, stop_requested>>

WriterWaits(v) ==
    /\ InNextAction(v)
    /\ AwaitsActiveBatch \/ (write_queue = <<>> /\ ~CheckpointDue /\ ~MayShutDown)
    /\ write_waiting' = write_waiting \cup {v}
    /\ UNCHANGED <<countVars, flagVars, batch_write_capability, writer, main, stop_requested>>

NextAction(v) == TakeBatch(v) \/ StartCheckpoint(v) \/ WriterShutdown(v) \/ WriterWaits(v)

-----------------------------------------------------------------------------
(* publish_destination_write_batch, and the drop of the active-write guard. *)

PublishUnchanged == <<countVars, flagVars, write_waiting, main, stop_requested>>

\* Mutant: a batch call is also made for a destination known to lack batches.
PutsSinglyWhenSupported(v) ==
    Len(writer[v].jobs) = 1 /\ batch_write_capability = "Supported"

\* A batch of one is published through put_block_bytes unless it still serves
\* as the probe.
PutsSingly(v) ==
    Len(writer[v].jobs) = 1 /\ batch_write_capability \notin {"Unknown", "Probing"}

PublishSingly(v) ==
    /\ writer[v].at = "publish"
    /\ PutsSingly(v)
    /\ WriterMoves(v, "one_by_one")
    /\ UNCHANGED <<PublishUnchanged, batch_write_capability>>

\* put_block_bytes_batch succeeds, or fails for a reason other than being
\* unsupported: either way the destination accepts batches.
PublishBatch(v) ==
    /\ writer[v].at = "publish"
    /\ ~PutsSingly(v)
    /\ batch_write_capability' = "Supported"
    /\ WriterMoves(v, "complete")
    /\ UNCHANGED PublishUnchanged

\* put_block_bytes_batch is unsupported: fall back to single puts for good.
PublishUnsupported(v) ==
    /\ writer[v].at = "publish"
    /\ ~PutsSingly(v)
    /\ batch_write_capability' = "Unsupported"
    /\ WriterMoves(v, "one_by_one")
    /\ UNCHANGED PublishUnchanged

PublishOneByOne(v) ==
    /\ writer[v].at = "one_by_one"
    /\ WriterMoves(v, "complete")
    /\ UNCHANGED <<PublishUnchanged, batch_write_capability>>

\* complete_write_batch, on the drop of ThreadedActiveWriteGuard.
ReleaseBatch(v, to) ==
    /\ active_writes' = SaturatingSub(active_writes, Len(writer[v].jobs))
    /\ active_write_bytes' = SaturatingSub(active_write_bytes, Total(writer[v].jobs))
    /\ NotifyWrite
    /\ writer' = [writer EXCEPT ![v] = [at |-> to, jobs |-> <<>>]]

CompleteWriteBatch(v) ==
    /\ writer[v].at = "complete"
    /\ ReleaseBatch(v, "next_action")
    /\ UNCHANGED <<write_queue, queued_write_bytes, attempted_write_count, flagVars,
                   batch_write_capability, main, stop_requested>>

-----------------------------------------------------------------------------
(* Checkpoints and the ways publication ends. *)

FinishCheckpoint(v) ==
    /\ writer[v].at = "checkpoint"
    /\ checkpoint_running' = FALSE
    /\ NotifyWrite
    /\ WriterMoves(v, "next_action")
    /\ UNCHANGED <<countVars, producers_finished, write_shutdown, checkpoint_pending,
                   batch_write_capability, main, stop_requested>>

\* The checkpoint action returned an error: the failure is recorded and
\* stop_requested stored ...
CheckpointError(v) ==
    /\ writer[v].at = "checkpoint"
    /\ stop_requested' = TRUE
    /\ WriterMoves(v, "checkpoint_failed")
    /\ UNCHANGED <<countVars, flagVars, write_waiting, batch_write_capability, main>>

\* Common effect of fail_checkpoint and request_shutdown.
CloseWriteQueue ==
    /\ write_shutdown' = TRUE
    /\ producers_finished' = TRUE
    /\ write_queue' = <<>>
    /\ queued_write_bytes' = 0
    /\ NotifyWrite

\* ... and fail_checkpoint closes the queue.
FailCheckpoint(v) ==
    /\ writer[v].at = "checkpoint_failed"
    /\ checkpoint_running' = FALSE
    /\ CloseWriteQueue
    /\ WriterMoves(v, "next_action")
    /\ UNCHANGED <<active_writes, active_write_bytes, attempted_write_count,
                   checkpoint_pending, batch_write_capability, main, stop_requested>>

\* ThreadedWriteQueue::request_shutdown.
RequestWriteShutdown ==
    /\ stop_requested
    /\ CloseWriteQueue
    /\ UNCHANGED <<active_writes, active_write_bytes, attempted_write_count,
                   checkpoint_pending, checkpoint_running, batch_write_capability,
                   main, stop_requested>>

\* A panic during publication: the guard's drop stores stop_requested ...
WriterPanic(v) ==
    /\ writer[v].at \in {"publish", "one_by_one"}
    /\ stop_requested' = TRUE
    /\ WriterMoves(v, "unwind_batch")
    /\ UNCHANGED <<countVars, flagVars, write_waiting, batch_write_capability, main>>

\* Mutant: the batch of the panicking writer stays counted as active.
UnwindBatchLeaks(v) ==
    /\ writer[v].at = "unwind_batch"
    /\ CloseWriteQueue
    /\ writer' = [writer EXCEPT ![v] = [at |-> "unwind_work", jobs |-> <<>>]]
    /\ UNCHANGED <<active_writes, active_write_bytes, attempted_write_count,
                   checkpoint_pending, checkpoint_running, batch_write_capability,
                   main, stop_requested>>

\* ... closes the queue and completes the batch; the thread then calls
\* request_threaded_shutdown.
UnwindBatch(v) ==
    /\ writer[v].at = "unwind_batch"
    /\ CloseWriteQueue
    /\ ReleaseBatch(v, "unwind_work")
    /\ UNCHANGED <<attempted_write_count, checkpoint_pending, checkpoint_running,
                   batch_write_capability, main, stop_requested>>

\* A panic inside the checkpoint action: no guard resets checkpoint_running.
\* Straight to request_threaded_shutdown.
CheckpointPanic(v) ==
    /\ writer[v].at = "checkpoint"
    /\ stop_requested' = TRUE
    /\ WriterMoves(v, "unwind_work")
    /\ UNCHANGED <<countVars, flagVars, write_waiting, batch_write_capability, main>>

\* finish_producing: every worker has been joined.
FinishProducing ==
    /\ main = "join_workers"
    /\ main' = "join_writers"
    /\ producers_finished' = TRUE
    /\ NotifyWrite
    /\ IF stop_requested
       THEN write_shutdown' = TRUE /\ write_queue' = <<>> /\ queued_write_bytes' = 0
       ELSE UNCHANGED <<write_shutdown, write_queue, queued_write_bytes>>
    /\ UNCHANGED <<active_writes, active_write_bytes, attempted_write_count,
                   checkpoint_pending, checkpoint_running, batch_write_capability,
                   writer, stop_requested>>

\* Every writer has been joined: stop the interrupt thread.
WritersJoined ==
    /\ main = "join_writers"
    /\ \A v \in Writers : writer[v].at \in {"done", "panicked"}
    /\ main' = "join_interrupt"
    /\ stop_requested' = TRUE
    /\ UNCHANGED <<countVars, flagVars, write_waiting, batch_write_capability, writer>>

\* The interrupt thread has been joined too: the report is returned, or the
\* first panic resumed.
MainEnds(how) ==
    /\ main = "join_interrupt"
    /\ main' = how
    /\ UNCHANGED <<countVars, flagVars, write_waiting, batch_write_capability, writer,
                   stop_requested>>

\* The rest of request_threaded_shutdown, as this component sees it: a writer
\* unwinding after a panic, or any other thread.
WriterUnwindStep(v) ==
    \/ /\ writer[v].at = "unwind_work"
       /\ WriterMoves(v, "unwind_write")
       /\ UNCHANGED <<countVars, flagVars, write_waiting, batch_write_capability, main,
                      stop_requested>>
    \/ /\ writer[v].at = "unwind_write"
       /\ RequestWriteShutdown
       /\ WriterMoves(v, "panicked")

WriteStopStored == stop_requested' = TRUE /\ UNCHANGED writeVars

WriteQueueNext ==
    \/ \E w \in Workers, b \in Blocks :
          EnqueueRejected(w) \/ EnqueueWaits(w, b) \/ EnqueueAccepted(w, b)
    \/ \E v \in Writers :
          \/ NextAction(v)
          \/ PublishSingly(v) \/ PublishBatch(v) \/ PublishUnsupported(v)
          \/ PublishOneByOne(v) \/ CompleteWriteBatch(v)
          \/ FinishCheckpoint(v) \/ CheckpointError(v) \/ FailCheckpoint(v)
          \/ WriterPanic(v) \/ CheckpointPanic(v) \/ UnwindBatch(v) \/ WriterUnwindStep(v)
    \/ \E t \in Workers \cup Writers : SpuriousWriteWake(t)
    \/ RequestWriteShutdown /\ UNCHANGED writer
    \/ FinishProducing \/ WritersJoined \/ \E how \in {"returned", "panicked"} : MainEnds(how)
    \/ WriteStopStored

WriteQueueSpec == WriteQueueInit /\ [][WriteQueueNext]_<<writeVars, stop_requested>>

-----------------------------------------------------------------------------
WriteControlTypeOK ==
    /\ stop_requested \in BOOLEAN
    /\ write_queue \in Seq(Blocks)
    /\ active_writes \in Nat
    /\ attempted_write_count \in Nat
    /\ producers_finished \in BOOLEAN
    /\ write_shutdown \in BOOLEAN
    /\ checkpoint_pending \in BOOLEAN
    /\ checkpoint_running \in BOOLEAN
    /\ write_waiting \subseteq Workers \cup Writers
    /\ batch_write_capability \in Capabilities
    /\ writer \in [Writers -> [at : WriterStages, jobs : Seq(Blocks)]]
    /\ main \in {"join_workers", "join_writers", "join_interrupt", "returned", "panicked"}

WriteTypeOK ==
    /\ WriteControlTypeOK
    /\ queued_write_bytes \in Nat
    /\ active_write_bytes \in Nat

\* Accepted but unfinished writes, queued or held by writers, never exceed
\* max_in_flight_destination_writes.
InFlightWithinLimit == InFlight <= max_in_flight_destination_writes

\* Neither do their bytes exceed the byte limit, unless a single oversized block
\* is all that is in flight; the byte counters agree with the jobs they count.
BytesWithinLimit ==
    /\ queued_write_bytes = Total(write_queue)
    /\ max_in_flight_destination_write_bytes > 0 /\ InFlight > 1 =>
          queued_write_bytes + active_write_bytes <= max_in_flight_destination_write_bytes

\* While a writer runs the checkpoint action, no other writer does, nothing is
\* queued, and no writer is between taking a batch and completing it.
CheckpointAlone ==
    \A v \in Writers : writer[v].at \in CheckpointStages =>
       /\ write_queue = <<>>
       /\ BatchHolders = {}
       /\ \A u \in Writers : writer[u].at \in CheckpointStages => u = v

\* As long as the destination is not known to lack batch support, one writer at
\* a time publishes.
OneBatchUntilUnsupported ==
    batch_write_capability # "Unsupported" =>
       \A u, v \in BatchHolders : u = v

\* Once a batch was refused as unsupported, no later completion (of a batch that
\* was in flight at the time) turns batching on again.
UnsupportedIsFinal ==
    [][batch_write_capability = "Unsupported" =>
          batch_write_capability' = "Unsupported"]_writeVars

=============================================================================
