-------------------------- MODULE SingleWorkerCopy --------------------------
(***************************************************************************)
(* copy_rooted_blocks_single_worker_with_mode_and_limits_and_checkpoint:   *)
(* one task walks the block graph breadth first, buffers the blocks it has *)
(* to write, and keeps several publications in flight as futures of a      *)
(* FuturesUnordered.                                                       *)
(*                                                                         *)
(* The futures are lazy: a publication only advances while the task waits  *)
(* in pending_writes.next(), which polls the unstarted ones in the order   *)
(* they were pushed and returns the first that is ready.  A step is what   *)
(* the task does between two awaits, one call of a store, or the part of a *)
(* publication between two of its awaits.  The interrupt latch may be set  *)
(* at any time.  As in ThreadedBlockCopy, Faulty names the calls that may  *)
(* fail, and a destination either supports batches or refuses every one.   *)
(***************************************************************************)
EXTENDS CopyFailureTracker, Sequences, SequencesExt

CONSTANTS
    len,                                    \* the bytes of a block
    max_in_flight_destination_writes,
    max_in_flight_destination_write_bytes,  \* 0: no byte limit
    checkpoint_interval,                    \* 0: no checkpoint
    Stored,                                 \* what the destination holds at the start
    Faulty,                                 \* operation -> blocks it may fail on
    Faults                                  \* other events that may occur

ASSUME SingleCopyAssumption ==
    /\ DestinationStore \notin Blocks
    /\ len \in [Blocks -> Nat]
    /\ {max_in_flight_destination_writes, max_in_flight_destination_write_bytes,
        checkpoint_interval} \subseteq Nat
    /\ Stored \subseteq Blocks
    /\ Faulty \in [Operations \ {"CompactDestinationStore"} -> SUBSET Blocks]
    /\ Faults \subseteq {"interrupt", "checkpoint_error"}

VARIABLES
    blind_write,        \* destination mode
    pc, resume,         \* the task; where flush_buffered_destination_writes returns to
    queue, current,     \* pairs of a requested root and a block; the pair in hand
    children,           \* of the block in hand
    visited, tracker,
    buffered, buffered_write_bytes,
    publication,        \* the jobs a flush has taken and not enqueued yet
    pending,            \* publications in flight, oldest first
    in_flight_count, in_flight_bytes,
    capability,
    copied_block_count, skipped_already_present_block_count, attempted_write_block_count,
    destination, batch_supported, interrupted

walkVars  == <<queue, current, children, visited>>
bufferVars == <<buffered, buffered_write_bytes, publication, resume>>
flightVars == <<pending, in_flight_count, in_flight_bytes, capability>>
countVars == <<copied_block_count, skipped_already_present_block_count,
               attempted_write_block_count>>
storeVars == <<blind_write, destination, batch_supported>>
singleVars == <<pc, walkVars, tracker, bufferVars, flightVars, countVars, storeVars, interrupted>>

SumOf(numbers) ==
    LET sum[i \in 0..Len(numbers)] == IF i = 0 THEN 0 ELSE sum[i - 1] + numbers[i]
    IN  sum[Len(numbers)]
Total(jobs) == SumOf([i \in DOMAIN jobs |-> len[jobs[i]]])
Monus(m, n) == IF m < n THEN 0 ELSE m - n

effective_write_limit ==
    IF max_in_flight_destination_writes = 0 THEN 1 ELSE max_in_flight_destination_writes
ByteLimited == max_in_flight_destination_write_bytes > 0

SingleStart(blind, batches) ==
    /\ blind_write = blind
    /\ pc = "pop" /\ resume = "push"
    /\ queue = [i \in 1..Len(RootIds) |-> <<RootIds[i], RootIds[i]>>]
    /\ current = <<RootIds[1], RootIds[1]>> /\ children = <<>>
    /\ visited = {} /\ tracker = NewTracker
    /\ buffered = <<>> /\ buffered_write_bytes = 0 /\ publication = <<>>
    /\ pending = <<>> /\ in_flight_count = 0 /\ in_flight_bytes = 0
    /\ capability = "Unknown"
    /\ copied_block_count = 0 /\ skipped_already_present_block_count = 0
    /\ attempted_write_block_count = 0
    /\ destination = Stored /\ batch_supported = batches
    /\ interrupted = FALSE

SingleInit == \E blind, batches \in BOOLEAN : SingleStart(blind, batches)

Block == current[2]

-----------------------------------------------------------------------------
(* The walk *)

\* discard_buffered_destination_writes, and the break out of the loop.
BreakDiscarding ==
    /\ buffered' = <<>> /\ buffered_write_bytes' = 0
    /\ pc' = "final_flush"
    /\ UNCHANGED <<publication, resume>>

Pop ==
    /\ pc = "pop" /\ queue # <<>>
    /\ queue' = Tail(queue) /\ current' = Head(queue)
    /\ IF interrupted
       THEN BreakDiscarding /\ UNCHANGED <<visited, tracker>>
       ELSE /\ tracker' = NoteBlockRoot(tracker, Head(queue)[1], Head(queue)[2])
            /\ visited' = visited \cup {Head(queue)[2]}
            /\ pc' = IF Head(queue)[2] \in visited THEN "pop" ELSE "read"
            /\ UNCHANGED bufferVars
    /\ UNCHANGED <<children, flightVars, countVars, storeVars, interrupted>>

\* Mutant: the walk ends as soon as nothing is queued for it.
PopEndsUnflushed ==
    /\ pc = "pop" /\ queue = <<>>
    /\ pc' = "final_drain"
    /\ UNCHANGED <<walkVars, tracker, bufferVars, flightVars, countVars, storeVars, interrupted>>

PopEnds ==
    /\ pc = "pop" /\ queue = <<>>
    /\ pc' = "final_flush"
    /\ UNCHANGED <<walkVars, tracker, bufferVars, flightVars, countVars, storeVars, interrupted>>

\* read_source_block returns None: the children are not looked at.
ReadFails ==
    /\ pc = "read" /\ Block \in Faulty["ReadSourceBlock"]
    /\ tracker' = Record(tracker, Block, "ReadSourceBlock")
    /\ pc' = "pop"
    /\ UNCHANGED <<walkVars, bufferVars, flightVars, countVars, storeVars, interrupted>>

\* The block was read; decode_source_block finds no children if it fails.
ReadAndDecode ==
    /\ pc = "read"
    /\ \/ /\ children' = Children[Block]
          /\ tracker' = RememberChildren(tracker, Block, ToSet(children'))
       \/ /\ Block \in Faulty["DecodeSourceBlock"]
          /\ children' = <<>>
          /\ tracker' = RememberChildren(Record(tracker, Block, "DecodeSourceBlock"), Block, {})
    /\ pc' = IF blind_write THEN "buffer" ELSE "destination"
    /\ attempted_write_block_count' =
          attempted_write_block_count + (IF blind_write THEN 1 ELSE 0)
    /\ UNCHANGED <<queue, current, visited, bufferVars, flightVars, copied_block_count,
                   skipped_already_present_block_count, storeVars, interrupted>>

CheckDestination ==
    /\ pc = "destination"
    /\ \/ /\ Block \in destination
          /\ skipped_already_present_block_count' = skipped_already_present_block_count + 1
          /\ pc' = "enqueue"
          /\ UNCHANGED tracker
       \/ /\ Block \notin destination
          /\ pc' = "buffer"
          /\ UNCHANGED <<skipped_already_present_block_count, tracker>>
       \/ /\ Block \in Faulty["CheckDestinationBlock"]
          /\ tracker' = Record(tracker, Block, "CheckDestinationBlock")
          /\ pc' = "enqueue"
          /\ UNCHANGED skipped_already_present_block_count
    /\ UNCHANGED <<walkVars, bufferVars, flightVars, copied_block_count,
                   attempted_write_block_count, storeVars, interrupted>>

\* enqueue_children: under the root the block was reached from.
EnqueueChildren ==
    /\ pc = "enqueue"
    /\ queue' = queue \o [i \in 1..Len(children) |-> <<current[1], children[i]>>]
    /\ pc' = "pop"
    /\ UNCHANGED <<current, children, visited, tracker, bufferVars, flightVars, countVars,
                   storeVars, interrupted>>

-----------------------------------------------------------------------------
(* buffer_destination_write_job and flush_buffered_destination_writes *)

destination_write_batch_len ==
    CASE capability = "Supported" -> effective_write_limit
      [] capability = "Unknown"   -> IF effective_write_limit = 1 THEN 1 ELSE 2
      [] OTHER                    -> 1

\* Takes the buffered jobs; two or more of them are the probe for batch support.
Flush(after) ==
    IF buffered = <<>>
    THEN pc' = after /\ UNCHANGED <<bufferVars, flightVars>>
    ELSE /\ publication' = buffered
         /\ buffered' = <<>> /\ buffered_write_bytes' = 0
         /\ capability' = IF Len(buffered) > 1 /\ capability = "Unknown"
                          THEN "Probing" ELSE capability
         /\ pc' = "capacity" /\ resume' = after
         /\ UNCHANGED <<pending, in_flight_count, in_flight_bytes>>

\* The target length is computed once, before the flush that makes room; the
\* flush does not change whether a single job completes a batch.
BufferJob ==
    /\ pc = "buffer"
    /\ LET target == destination_write_batch_len
           after  == IF target = 1 THEN "push_last" ELSE "push"
       IN IF /\ buffered # <<>>
             /\ \/ Len(buffered) >= target
                \/ /\ ByteLimited
                   /\ buffered_write_bytes + len[Block] > max_in_flight_destination_write_bytes
          THEN Flush(after)
          ELSE /\ pc' = IF Len(buffered) + 1 >= target THEN "push_last" ELSE "push"
               /\ UNCHANGED <<bufferVars, flightVars>>
    /\ UNCHANGED <<walkVars, tracker, countVars, storeVars, interrupted>>

PushJob ==
    /\ pc \in {"push", "push_last"}
    /\ buffered' = Append(buffered, Block)
    /\ buffered_write_bytes' = buffered_write_bytes + len[Block]
    /\ pc' = IF \/ pc = "push_last"
                \/ ByteLimited /\ buffered_write_bytes' >= max_in_flight_destination_write_bytes
             THEN "flush_full" ELSE "buffered"
    /\ UNCHANGED <<walkVars, tracker, publication, resume, flightVars, countVars, storeVars,
                   interrupted>>

\* The three callers of flush_buffered_destination_writes besides the one above:
\* a full buffer, a due checkpoint, the end of the walk.
FlushBuffered ==
    /\ \/ pc = "flush_full" /\ Flush("buffered")
       \/ pc = "checkpoint_flush" /\ Flush("checkpoint_drain")
       \/ pc = "final_flush" /\ Flush("final_drain")
    /\ UNCHANGED <<walkVars, tracker, countVars, storeVars, interrupted>>

\* Mutant: the bytes in flight do not count.
OverCapacityByCount == in_flight_count + Len(publication) > effective_write_limit

\* The loop condition of wait_for_write_capacity.
OverCapacity ==
    \/ in_flight_count + Len(publication) > effective_write_limit
    \/ /\ in_flight_count > 0 /\ ByteLimited
       /\ in_flight_bytes + Total(publication) > max_in_flight_destination_write_bytes

\* enqueue_destination_write_batch: the future is pushed, not started.
EnqueueBatch ==
    /\ pc = "capacity" /\ ~OverCapacity
    /\ pending' = Append(pending, [jobs |-> publication, at |-> "new", results |-> <<>>])
    /\ in_flight_count' = in_flight_count + Len(publication)
    /\ in_flight_bytes' = in_flight_bytes + Total(publication)
    /\ publication' = <<>>
    /\ pc' = resume
    /\ UNCHANGED <<walkVars, tracker, buffered, buffered_write_bytes, resume, capability,
                   countVars, storeVars, interrupted>>

-----------------------------------------------------------------------------
(* pending_writes.next() *)

Waiting == \/ pc = "capacity" /\ OverCapacity
           \/ pc \in {"checkpoint_drain", "final_drain"}

\* publish_destination_write_batch up to its first await: a single job goes
\* through put_block_bytes unless it still serves as the probe.
StartPublication ==
    /\ Waiting
    /\ \E i \in 1..Len(pending) :
          /\ pending[i].at = "new" /\ \A j \in 1..(i - 1) : pending[j].at # "new"
          /\ pending' = [pending EXCEPT ![i].at =
                IF Len(pending[i].jobs) = 1 /\ capability \notin {"Unknown", "Probing"}
                THEN "one_by_one" ELSE "batch"]
    /\ UNCHANGED <<pc, walkVars, tracker, bufferVars, in_flight_count, in_flight_bytes,
                   capability, countVars, storeVars, interrupted>>

\* next() returned publication i: record_write_completions.
RecordWriteCompletions(i, results) ==
    LET jobs == pending[i].jobs
    IN /\ pending' = RemoveAt(pending, i)
       /\ in_flight_count' = Monus(in_flight_count, Len(jobs))
       /\ in_flight_bytes' = Monus(in_flight_bytes, Total(jobs))
       /\ copied_block_count' = copied_block_count +
             (IF blind_write THEN 0 ELSE Cardinality({k \in 1..Len(jobs) : results[k]}))
       /\ tracker' = RecordEach(tracker, {jobs[k] : k \in {j \in 1..Len(jobs) : ~results[j]}},
                                "WriteDestinationBlock")
       /\ UNCHANGED <<skipped_already_present_block_count, attempted_write_block_count>>

MayFault(b) == b \in Faulty["WriteDestinationBlock"]

\* put_block_bytes_batch returns.  Every answer but "unsupported" shows support.
BatchReturns ==
    /\ Waiting
    /\ \E i \in 1..Len(pending) :
          /\ pending[i].at = "batch"
          /\ \/ /\ batch_supported
                /\ \E ok \in BOOLEAN :
                      /\ ok \/ \E b \in ToSet(pending[i].jobs) : MayFault(b)
                      /\ RecordWriteCompletions(i, [k \in 1..Len(pending[i].jobs) |-> ok])
                      /\ destination' = destination \cup IF ok THEN ToSet(pending[i].jobs) ELSE {}
                /\ capability' = "Supported"
             \/ /\ ~batch_supported
                /\ pending' = [pending EXCEPT ![i].at = "one_by_one"]
                /\ capability' = "Unsupported"
                /\ UNCHANGED <<in_flight_count, in_flight_bytes, tracker, destination, countVars>>
    /\ UNCHANGED <<pc, walkVars, bufferVars, blind_write, batch_supported, interrupted>>

\* publish_destination_write_jobs_one_by_one: put_block_bytes for the next job
\* returns; after the last one the publication is ready.
PutReturns ==
    /\ Waiting
    /\ \E i \in 1..Len(pending), ok \in BOOLEAN :
          LET p       == pending[i]
              job     == p.jobs[Len(p.results) + 1]
              results == Append(p.results, ok)
          IN /\ p.at = "one_by_one"
             /\ ok \/ MayFault(job)
             /\ destination' = destination \cup IF ok THEN {job} ELSE {}
             /\ IF Len(results) = Len(p.jobs)
                THEN RecordWriteCompletions(i, results)
                ELSE /\ pending' = [pending EXCEPT ![i].results = results]
                     /\ UNCHANGED <<in_flight_count, in_flight_bytes, tracker, countVars>>
    /\ UNCHANGED <<pc, walkVars, bufferVars, capability, blind_write, batch_supported, interrupted>>

-----------------------------------------------------------------------------
(* Checkpoints, and the end *)

\* should_run_blind_write_checkpoint, after every block of a blind copy.
AfterBuffering ==
    /\ pc = "buffered"
    /\ pc' = IF /\ blind_write /\ checkpoint_interval > 0
                /\ attempted_write_block_count % checkpoint_interval = 0
             THEN "checkpoint_flush" ELSE "enqueue"
    /\ UNCHANGED <<walkVars, tracker, bufferVars, flightVars, countVars, storeVars, interrupted>>

\* flush_pending_writes has drained what was in flight; the interrupt is polled.
CheckpointDrained ==
    /\ pc = "checkpoint_drain" /\ pending = <<>>
    /\ IF interrupted THEN BreakDiscarding ELSE pc' = "compact" /\ UNCHANGED bufferVars
    /\ UNCHANGED <<walkVars, tracker, flightVars, countVars, storeVars, interrupted>>

\* The checkpoint action; its error ends the walk before the children are queued.
Compact ==
    /\ pc = "compact"
    /\ \/ pc' = "enqueue" /\ UNCHANGED tracker
       \/ /\ "checkpoint_error" \in Faults
          /\ tracker' = RecordStoreFailure(tracker, ToSet(RootIds), "CompactDestinationStore")
          /\ pc' = "final_flush"
    /\ UNCHANGED <<walkVars, bufferVars, flightVars, countVars, storeVars, interrupted>>

Return ==
    /\ pc = "final_drain" /\ pending = <<>>
    /\ pc' = "returned"
    /\ UNCHANGED <<walkVars, tracker, bufferVars, flightVars, countVars, storeVars, interrupted>>

CopyStep ==
    \/ Pop \/ PopEnds \/ ReadFails \/ ReadAndDecode \/ CheckDestination \/ EnqueueChildren
    \/ BufferJob \/ PushJob \/ FlushBuffered \/ EnqueueBatch
    \/ StartPublication \/ BatchReturns \/ PutReturns
    \/ AfterBuffering \/ CheckpointDrained \/ Compact \/ Return

Ended == pc = "returned"

OperatorInterrupt ==
    /\ "interrupt" \in Faults /\ ~interrupted /\ ~Ended
    /\ interrupted' = TRUE
    /\ UNCHANGED <<pc, walkVars, tracker, bufferVars, flightVars, countVars, storeVars>>

SingleNext == CopyStep \/ OperatorInterrupt \/ (Ended /\ UNCHANGED singleVars)

\* Store calls return, and the task runs while it can.
SingleSpec == SingleInit /\ [][SingleNext]_singleVars /\ WF_singleVars(CopyStep)

-----------------------------------------------------------------------------
(* Properties *)

\* The variables have their types.
SingleTypeOK ==
    /\ pc \in {"pop", "read", "destination", "enqueue", "buffer", "push", "push_last",
               "flush_full", "buffered", "checkpoint_flush", "checkpoint_drain", "compact",
               "capacity", "final_flush", "final_drain", "returned"}
    /\ queue \in Seq(Blocks \X Blocks) /\ visited \subseteq Blocks
    /\ {ToSet(buffered), ToSet(publication), destination} \subseteq SUBSET Blocks
    /\ capability \in {"Unknown", "Probing", "Supported", "Unsupported"}

\* The jobs of the publications in flight, and their bytes.
InFlightJobs  == SumOf([i \in DOMAIN pending |-> Len(pending[i].jobs)])
InFlightBytes == SumOf([i \in DOMAIN pending |-> Total(pending[i].jobs)])

\* However batches of different sizes complete, the in-flight counters are those
\* of the publications that exist: never more writes than the limit, and never
\* more bytes unless a single oversized block is all that is in flight.
WritesWithinLimits ==
    /\ in_flight_count = InFlightJobs /\ in_flight_bytes = InFlightBytes
    /\ buffered_write_bytes = Total(buffered)
    /\ InFlightJobs <= effective_write_limit
    /\ ByteLimited /\ InFlightJobs > 1 => InFlightBytes <= max_in_flight_destination_write_bytes

\* wait_for_write_capacity never waits for a completion when nothing is in
\* flight: expect("pending destination writes should complete") holds, and no
\* batch is larger than the limit.
CapacityIsReachable == pc = "capacity" /\ OverCapacity => pending # <<>>

\* The SAFETY comment of enqueue_destination_write_batch: while the checkpoint
\* action has the store, and once the copy has returned, no publication that
\* borrows the destination exists, and no accepted write is waiting either.
StoreIsUnborrowed ==
    pc \in {"compact", "returned"} =>
       pending = <<>> /\ publication = <<>> /\ buffered = <<>>

Failed(b, operations) == \E o \in operations : BagIn(o, tracker.failure_templates[b])

LosingOperations == {"ReadSourceBlock", "CheckDestinationBlock", "WriteDestinationBlock"}

Completed ==
    pc = "returned" /\ ~interrupted /\ DestinationStore \notin FailedIds(tracker)

\* The blocks a root reaches over the children of readable, decodable blocks.
ReachableFrom(r) ==
    LET Edges(b) == IF Failed(b, {"ReadSourceBlock", "DecodeSourceBlock"})
                    THEN {} ELSE ToSet(Children[b])
    IN {b \in Blocks : \A S \in SUBSET Blocks :
           r \in S /\ (\A c \in S : Edges(c) \subseteq S) => b \in S}

\* A copy that ran to its end left every block a requested root reaches in the
\* destination or reports its failure for that root, also the blocks walked
\* under another root, and the ones whose write was still buffered at the end.
EveryRootAccounted ==
    Completed => \A r \in ToSet(RootIds) : \A b \in ReachableFrom(r) :
       b \in destination \/ \E o \in LosingOperations : BagIn(Failure(r, b, o), tracker.failures)

\* The report's counters tell what happened: in ReadBeforeWrite mode exactly the
\* blocks this copy added are counted as copied, and the report of a completed
\* copy accounts for every visited block once.
ReportIsTruthful ==
    pc = "returned" =>
       /\ ~blind_write => copied_block_count = Cardinality(destination \ Stored)
       /\ Completed =>
             LET lost == {b \in visited : Failed(b, LosingOperations)}
             IN  IF blind_write
                 THEN /\ attempted_write_block_count =
                           Cardinality({b \in visited : ~Failed(b, {"ReadSourceBlock"})})
                      /\ visited \ lost \subseteq destination
                 ELSE Cardinality(visited) =
                         Cardinality(lost) + copied_block_count
                         + skipped_already_present_block_count

\* The copy has begun and not returned.
CopyUnderWay == visited # {} /\ ~Ended

\* The buffer, the futures in flight and the counters agree at every step, so that
\* the limits hold, the task never waits for nothing, and the store is the
\* checkpoint's alone while it is compacted (wait_for_write_capacity,
\* enqueue_destination_write_batch, record_write_completions).
CopyTaskSound == SingleTypeOK /\ WritesWithinLimits /\ CapacityIsReachable /\ StoreIsUnborrowed

\* A returned copy tells every root the truth about every block below it, also
\* about those that were walked under another root or failed in the last flush
\* (copy_rooted_blocks_single_worker_with_mode_and_limits_and_checkpoint).
CopyReportSound == EveryRootAccounted /\ ReportIsTruthful
=============================================================================
