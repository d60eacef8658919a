---------------------------- MODULE ReplayBatches ----------------------------
(***************************************************************************)
(* The replay of stored leaves into the delegated indexer (runtime.rs,     *)
(* ExternalizedReplayState, ExternalizedReplayBatchIterator,               *)
(* ExternalizedStoredLeafEmbeddingProvider and the non-v3 stage that       *)
(* drives them).  A reader hands out the replay order batch by batch; each *)
(* batch is loaded from the block store by a few threads that share an     *)
(* index, checked against the journal's digest, and its embeddings become  *)
(* the ones the indexer can ask for.  The order is read once to plan and   *)
(* once more to finalize, and a third time for the diagnostics of a        *)
(* failure, which all share that one cache.                                *)
(*                                                                         *)
(* The delegated indexer is external: while it works on a batch it may ask *)
(* for the embedding of any item of it, and it may fail.                   *)
(***************************************************************************)
EXTENDS Naturals, FiniteSets, FiniteSetsExt

CONSTANTS
    N,              \* entries of the replay order
    BatchSize,      \* replay_batch_size
    MaxWorkers,     \* materialization_max_concurrency
    Input,          \* the embedding input hash of each entry's content
    DiagnosticLimit,\* EXTERNALIZED_CLUSTERING_DIAGNOSTIC_INPUT_LIMIT
    MaxReadErrors   \* bound: reads of the store that fail

ASSUME ReplayBatchesAssumption ==
    /\ N \in Nat \ {0} /\ BatchSize \in Nat \ {0}
    /\ MaxWorkers \in Nat \ {0}
    /\ DOMAIN Input = 1..N
    /\ DiagnosticLimit \in Nat /\ MaxReadErrors \in Nat

Entries == 1..N
Workers == 1..MaxWorkers
Hashes == {Input[i] : i \in Entries}
NoAnswer == 0

\* A loading thread holds an index of the batch, or it is one of these.
Free == 0
Over == N + 1
Dead == N + 2

VARIABLES
    block,      \* what the store holds for each entry
    phase,      \* which reading of the order this is
    doing,         \* where the stage is
    pos,        \* entries handed out by this reading
    nextIndex,  \* next_index of the loading threads, relative to pos
    worker,     \* each thread: free, over, panicked, or the index it loads
    loaded,     \* completed[index]: none, or how the load ended
    cache,      \* current_batch_embeddings: hash -> the entry it came from
    fallback,   \* fallback_embeddings, none until first needed
    readErrors,
    stageResult      \* how the stage ended

replayVars == <<block, phase, doing, pos, nextIndex, worker, loaded, cache, fallback, readErrors, stageResult>>

\* A block is a replayable leaf of this entry, absent, of another shape or
\* without its metadata, or one whose sort key has another digest.
BlockStates == {"good", "missing", "unreplayable", "mismatch"}
LoadResults == {"ok", "read_error", "missing", "unreplayable", "mismatch"}
NoFallback == [none |-> TRUE]
Empty == [h \in {} |-> NoAnswer]

ReplayStart(stored) ==
    /\ block = stored
    /\ phase = "ingest" /\ doing = "between" /\ pos = 0
    /\ nextIndex = 1
    /\ worker = [w \in Workers |-> Over]
    /\ loaded = <<>>
    /\ cache = Empty
    /\ fallback = NoFallback
    /\ readErrors = 0
    /\ stageResult = "none"

ReplayInit == \E stored \in [Entries -> BlockStates] : ReplayStart(stored)

BatchLen == Min({BatchSize, N - pos})
Batch == {pos + k : k \in 1..BatchLen}

\* replay_batch_materialization_worker_count.
WorkerCount == Min({BatchLen, MaxWorkers})

End(how) == doing' = "ended" /\ stageResult' = how

\* read_next_entries: there is another batch.
NextBatch ==
    /\ doing = "between" /\ pos < N
    /\ doing' = "loading"
    /\ nextIndex' = 1
    /\ worker' = [w \in Workers |-> IF w <= WorkerCount THEN Free ELSE Over]
    /\ loaded' = [k \in 1..BatchLen |-> "none"]
    /\ UNCHANGED <<block, phase, pos, cache, fallback, readErrors, stageResult>>

\* fetch_add: each index is taken by one thread.
TakeEntry(w) ==
    /\ doing = "loading" /\ worker[w] = Free
    /\ worker' = [worker EXCEPT ![w] = IF nextIndex > BatchLen THEN Over ELSE nextIndex]
    /\ nextIndex' = nextIndex + 1
    /\ UNCHANGED <<block, phase, doing, pos, loaded, cache, fallback, readErrors, stageResult>>

\* load_replay_batch_entry: what the store has for the entry.
LoadResult(i) == IF block[i] = "good" THEN "ok" ELSE block[i]

\* The entry is loaded, or the store cannot be read, and the result is sent.
LoadEntry(w) ==
    /\ doing = "loading" /\ worker[w] \in 1..BatchLen
    /\ worker' = [worker EXCEPT ![w] = Free]
    /\ \/ loaded' = [loaded EXCEPT ![worker[w]] = LoadResult(pos + worker[w])] /\ UNCHANGED readErrors
       \/ /\ readErrors < MaxReadErrors
          /\ readErrors' = readErrors + 1
          /\ loaded' = [loaded EXCEPT ![worker[w]] = "read_error"]
    /\ UNCHANGED <<block, phase, doing, pos, nextIndex, cache, fallback, stageResult>>

\* A thread panics before or while it loads: its entry has no result.
WorkerPanics(w) ==
    /\ doing = "loading" /\ WorkerCount > 1
    /\ worker[w] = Free \/ worker[w] \in 1..BatchLen
    /\ readErrors < MaxReadErrors
    /\ readErrors' = readErrors + 1
    /\ worker' = [worker EXCEPT ![w] = Dead]
    /\ UNCHANGED <<block, phase, doing, pos, nextIndex, loaded, cache, fallback, stageResult>>

Joined == \A w \in Workers : worker[w] \in {Over, Dead}
Panicked == \E w \in Workers : worker[w] = Dead
Failures == {k \in DOMAIN loaded : loaded[k] # "ok"}

\* The result of a load, in the order of the entries: a panic, the first entry
\* that failed, or none.
LoadError ==
    IF Panicked THEN "worker_panic"
    ELSE IF Failures = {} THEN "none"
    ELSE loaded[Min(Failures)]

\* Mutant: the cache keeps the embeddings of earlier batches.
PublishKeepsOld ==
    [h \in DOMAIN cache \cup {Input[i] : i \in Batch} |->
        IF h \in DOMAIN cache THEN cache[h] ELSE Max({i \in Batch : Input[i] = h})]

\* publish_batch_embeddings: clear, then extend, the last entry of a hash wins.
PublishedEmbeddings ==
    [h \in {Input[i] : i \in Batch} |-> Max({i \in Batch : Input[i] = h})]

BatchLoaded ==
    /\ doing = "loading" /\ Joined
    /\ LoadError = "none"
    /\ cache' = PublishedEmbeddings
    /\ doing' = "working"
    /\ UNCHANGED <<block, phase, pos, nextIndex, worker, loaded, fallback, readErrors, stageResult>>

\* A batch that cannot be loaded ends the stage with its error, panics in the
\* finalize iterator, and leaves a failure without diagnostics.
BatchFails ==
    /\ doing = "loading" /\ Joined
    /\ LoadError # "none"
    /\ CASE phase = "ingest"   -> End(LoadError)
         [] phase = "finalize" -> End("panic")
         [] phase = "diagnose" -> End("clustering_error")
    /\ UNCHANGED <<block, phase, pos, nextIndex, worker, loaded, cache, fallback, readErrors>>

\* The indexer is done with the batch.
BatchTaken ==
    /\ doing = "working"
    /\ pos' = pos + BatchLen
    /\ doing' = "between"
    /\ UNCHANGED <<block, phase, nextIndex, worker, loaded, cache, fallback, readErrors, stageResult>>

\* The diagnostics are made of the inputs if there are few enough of them: the
\* order is read once more.
Diagnose ==
    IF N > DiagnosticLimit
    THEN End("clustering_error") /\ UNCHANGED <<phase, pos>>
    ELSE phase' = "diagnose" /\ pos' = 0 /\ doing' = "between" /\ UNCHANGED stageResult

\* ingest_batch fails: the error is returned as it is.  finalize fails:
\* diagnostics first.
IndexerFails ==
    /\ doing = "working"
    /\ \/ phase = "ingest" /\ End("clustering_error") /\ UNCHANGED <<phase, pos>>
       \/ phase = "finalize" /\ Diagnose
    /\ UNCHANGED <<block, nextIndex, worker, loaded, cache, fallback, readErrors>>

\* next_batch finds the end and clears the cache.
EndOfOrder ==
    /\ doing = "between" /\ pos = N
    /\ cache' = Empty
    /\ CASE phase = "ingest"   -> doing' = "planning" /\ UNCHANGED stageResult
         [] phase = "finalize" -> End("ok")
         [] phase = "diagnose" -> doing' = "lookups" /\ UNCHANGED stageResult
    /\ UNCHANGED <<block, phase, pos, nextIndex, worker, loaded, fallback, readErrors>>

\* finish_pass and mark_planning_complete, then the second reading.
PlanningDone ==
    /\ doing = "planning"
    /\ phase' = "finalize" /\ pos' = 0 /\ doing' = "between"
    /\ UNCHANGED <<block, nextIndex, worker, loaded, cache, fallback, readErrors, stageResult>>

PlanningFails ==
    /\ doing = "planning"
    /\ Diagnose
    /\ UNCHANGED <<block, nextIndex, worker, loaded, cache, fallback, readErrors>>

\* load_embedding_for_hash for the diagnostics: the cache is empty by then, so
\* every block is read again, and the map is kept.  A lookup that fails is one
\* observation of the diagnostics, and the next one tries again.
FallbackLookup ==
    /\ doing = "lookups"
    /\ fallback = NoFallback
    /\ \/ /\ \A i \in Entries : block[i] # "unreplayable"
          /\ LET readable == {i \in Entries : block[i] # "missing"}
             IN fallback' = [h \in {Input[i] : i \in readable} |->
                                Max({i \in readable : Input[i] = h})]
          /\ UNCHANGED readErrors
       \/ /\ readErrors < MaxReadErrors
          /\ readErrors' = readErrors + 1
          /\ UNCHANGED fallback
    /\ UNCHANGED <<block, phase, doing, pos, nextIndex, worker, loaded, cache, stageResult>>

\* The lookups are over, with the map or without it.
DiagnosticsDone ==
    /\ doing = "lookups"
    /\ End("clustering_failure_with_diagnostics")
    /\ UNCHANGED <<block, phase, pos, nextIndex, worker, loaded, cache, fallback, readErrors>>

WorkerStep(w) == TakeEntry(w) \/ LoadEntry(w) \/ WorkerPanics(w)

ReplayNext ==
    \/ NextBatch \/ BatchLoaded \/ BatchFails \/ BatchTaken \/ IndexerFails \/ EndOfOrder
    \/ PlanningDone \/ PlanningFails \/ FallbackLookup \/ DiagnosticsDone
    \/ \E w \in Workers : WorkerStep(w)

ReplaySpec == ReplayInit /\ [][ReplayNext]_replayVars

----------------------------------------------------------------------------
(* Properties.                                                              *)

\* What load_embedding_for_hash answers while the indexer works.
Answer(h) == IF h \in DOMAIN cache THEN cache[h] ELSE NoAnswer

\* While the indexer works on a batch it gets the embedding of every item of it,
\* from a block of that batch with the same content, and the cache holds nothing
\* else, however often the order has been read and whoever read it before.
IndexerSeesItsBatch ==
    doing = "working" =>
        /\ \A i \in Batch : Answer(Input[i]) \in Batch /\ Input[Answer(Input[i])] = Input[i]
        /\ \A h \in DOMAIN cache : cache[h] \in Batch

\* Loading a batch gives each entry its own result, whichever thread took it: a
\* batch is only handed on when all its blocks are the ones the journal names,
\* and a load without a panic never comes back incomplete.
EveryEntryLoaded ==
    /\ doing = "working" => \A i \in Batch : block[i] = "good"
    /\ doing = "loading" /\ Joined /\ ~Panicked => \A k \in DOMAIN loaded : loaded[k] # "none"

\* The error that ends a stage is the one of the first bad entry, whatever the
\* order the threads came to them in: the same archive gives the same error.
FirstBadEntryReported ==
    \A i \in Entries :
        stageResult \in BlockStates /\ readErrors = 0 /\ block[i] # "good"
        /\ (\A j \in 1..(i - 1) : block[j] = "good") => stageResult = block[i]

\* However the threads share the entries of a batch, it is loaded as a single
\* thread would, and the one cache holds what the indexer is about to ask for
\* (load_replay_batch_entries_in_parallel, publish_batch_embeddings).
ReplayBatchesSound == IndexerSeesItsBatch /\ EveryEntryLoaded /\ FirstBadEntryReported
=============================================================================
