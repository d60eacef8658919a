------------------------------ MODULE IndexRun ------------------------------
(***************************************************************************)
(* Runs of the indexer against one archive (runtime.rs,                    *)
(* run_request_with_progress): ingestion in batches, each of which stores  *)
(* its leaf blocks, appends its records to the replay journal and then     *)
(* moves the mutable refs; and clustering, which replays the journal,      *)
(* stores a tree and publishes its outcome and root the same way.          *)
(*                                                                         *)
(* Runs follow each other; each may fail, be interrupted by Ctrl-C at the  *)
(* points where the code looks, or be killed anywhere.  The block store is *)
(* content addressed: a block is in it or not, and is named by its         *)
(* content.  The embedding provider, the resolver and the delegated        *)
(* streaming indexer are external: they deliver a result or fail.          *)
(***************************************************************************)
EXTENDS MutableRefStore, SequencesExt, FiniteSets

CONSTANTS
    Requests,                       \* possible requests: sequences of items
    replay_sort_key,                \* leaf -> its place in the replay order
    chunk_size,                     \* items per ingestion batch (max_concurrency)
    OutcomeFragments,
    EncodedSize,                    \* leaf -> size of its journal record
    OutcomeSize,                    \* size of an outcome record
    PredecessorSize,                \* what a predecessor hash adds to a block
    REPLAY_JOURNAL_BLOCK_MAX_BYTES,
    MaxRuns,                        \* bound on the number of runs
    MayCrash

Leaves == UNION {ToSet(request) : request \in Requests}

ASSUME IndexRunAssumption ==
    /\ Requests \subseteq Seq(Leaves)
    /\ chunk_size \in Nat \ {0} /\ OutcomeFragments \in Nat \ {0}
    /\ replay_sort_key \in [Leaves -> Nat]
    /\ EncodedSize \in [Leaves -> Nat]
    /\ OutcomeSize \in Nat /\ PredecessorSize \in Nat
    /\ REPLAY_JOURNAL_BLOCK_MAX_BYTES \in Nat /\ MaxRuns \in Nat
    /\ MayCrash \in BOOLEAN

VARIABLES
    leaves,         \* leaf blocks in the block store
    journal,        \* journal blocks in the block store
    trees,          \* roots whose tree is in the block store
    run,            \* the run in progress
    interrupted,    \* Ctrl-C was pressed during it
    runs,           \* runs started
    acknowledged    \* refs written by publications that reported success (history)

storeVars == <<leaves, journal, trees>>
vars == <<refVars, storeVars, run, interrupted, runs, acknowledged>>

Published == INSTANCE PublishedIndex WITH head <- Authoritative.head, root <- Authoritative.root

Stages == {"FullPipeline", "IngestionAndEmbedding", "ClusteringAndBlockAssembly"}

IncludesIngestion(stage)  == stage # "ClusteringAndBlockAssembly"
IncludesClustering(stage) == stage # "IngestionAndEmbedding"

NoRun == [at |-> "idle", stage |-> "FullPipeline", items |-> <<>>, batch |-> <<>>,
          records |-> <<>>, pending |-> <<>>, head |-> NoHead, root |-> NoRoot]

Init ==
    /\ RefStoreInit
    /\ leaves = {} /\ journal = {} /\ trees = {}
    /\ run = NoRun
    /\ interrupted = FALSE
    /\ runs = 0
    /\ acknowledged = {}

At(step) == run.at = step

\* The run returns an error.
RunFails == run' = NoRun

Continue == ~interrupted
InterruptSeen == interrupted /\ RunFails /\ UNCHANGED <<refVars, storeVars>>

-----------------------------------------------------------------------------
(* run_ingestion_only_stage and stream_request_ingestion_to_store *)

\* p names, for each place in the sorted items, the place the item comes from;
\* sort_by_key keeps items with equal keys in their order.
SortsByKey(p, items) ==
    \A i, j \in DOMAIN items : i < j =>
        LET a == replay_sort_key[items[p[i]]]
            b == replay_sort_key[items[p[j]]]
        IN a < b \/ (a = b /\ p[i] < p[j])

\* The outcomes of the sort (there is exactly one).
sort_replay_items(items) ==
    {[i \in DOMAIN items |-> items[p[i]]] :
        p \in {q \in Bijection(DOMAIN items, DOMAIN items) : SortsByKey(q, items)}}

\* The items of a run: an ingestion-only run sorts its request, a full run takes
\* the items as they come, a clustering run has none.
RunItems(stage, request) ==
    CASE stage = "IngestionAndEmbedding" -> sort_replay_items(request)
      [] stage = "FullPipeline" -> {request}
      [] OTHER -> {<<>>}

StartRun(stage, request) ==
    /\ At("idle") /\ runs < MaxRuns
    /\ runs' = runs + 1
    /\ interrupted' = FALSE
    /\ \E items \in RunItems(stage, request) :
          run' = [NoRun EXCEPT !.at = IF IncludesIngestion(stage) THEN "batch" ELSE "replay",
                               !.stage = stage,
                               !.items = items]
    /\ UNCHANGED <<refVars, storeVars, acknowledged>>

Least(a, b) == IF a < b THEN a ELSE b

\* The next batch is built, or the ingestion is over.
NextBatch ==
    /\ At("batch")
    /\ \/ (run.items # <<>> \/ IncludesClustering(run.stage)) /\ InterruptSeen
       \/ /\ Continue /\ run.items # <<>>
          /\ LET n == Least(chunk_size, Len(run.items))
             IN run' = [run EXCEPT !.at = "persist",
                                   !.batch = SubSeq(run.items, 1, n),
                                   !.records = SubSeq(run.items, 1, n),
                                   !.items = SubSeq(run.items, n + 1, Len(run.items))]
          /\ UNCHANGED <<refVars, storeVars>>
       \/ /\ run.items # <<>> /\ "build" \in IoFaults
          /\ RunFails
          /\ UNCHANGED <<refVars, storeVars>>
       \/ /\ run.items = <<>>
          /\ run' = IF IncludesClustering(run.stage) THEN [run EXCEPT !.at = "replay"] ELSE NoRun
          /\ UNCHANGED <<refVars, storeVars>>

\* Mutant: the journal is published before its leaves are stored.
PersistLater ==
    /\ At("persist")
    /\ run' = [run EXCEPT !.at = "publish",
                          !.records = [i \in DOMAIN run.records |->
                                          Published!ReplayInput(run.records[i])]]
    /\ UNCHANGED <<refVars, storeVars>>

\* persist_staged_blocks stores one leaf after the other; then the batch's
\* records are published.
PersistStagedBlocks ==
    /\ At("persist")
    /\ \/ /\ run.batch # <<>>
          /\ leaves' = leaves \cup {Head(run.batch)}
          /\ run' = [run EXCEPT !.batch = Tail(@)]
          /\ UNCHANGED <<refVars, journal, trees>>
       \/ /\ run.batch # <<>> /\ "put_block" \in IoFaults
          /\ RunFails
          /\ UNCHANGED <<refVars, storeVars>>
       \/ /\ run.batch = <<>>
          /\ run' = [run EXCEPT !.at = "publish",
                                !.records = [i \in DOMAIN run.records |->
                                                Published!ReplayInput(run.records[i])]]
          /\ UNCHANGED <<refVars, storeVars>>

-----------------------------------------------------------------------------
(* publish_replay_journal_and_mutable_refs_async *)

\* Mutant: the journal is started anew.
PublishFromScratch ==
    /\ At("publish")
    /\ run' = [run EXCEPT !.at = "append"]
    /\ UNCHANGED <<refVars, storeVars>>

\* The first interrupt check, and the head append_replay_journal_records starts from.
Publish ==
    /\ At("publish")
    /\ \/ InterruptSeen
       \/ /\ LoadFails /\ RunFails
          /\ UNCHANGED <<refVars, storeVars>>
       \/ /\ Continue /\ Loadable
          /\ run' = [run EXCEPT !.at = "append", !.head = LoadedRefs.head]
          /\ UNCHANGED <<refVars, storeVars>>

\* (The last case, 2^32 entries and more, exceeds every block.)
cbor_array_header_size(n) ==
    CASE n < 24 -> 1
      [] n \in 24..255 -> 2
      [] n \in 256..65535 -> 3
      [] OTHER -> 5

RecordSize(record) ==
    IF record.fragment = 0 THEN EncodedSize[CHOOSE l \in record.leaf : TRUE] ELSE OutcomeSize

\* replay_journal_block_body_size
BlockSize(entries, previous) ==
    (IF previous = NoHead THEN 0 ELSE PredecessorSize)
    + cbor_array_header_size(Len(entries))
    + FoldLeft(LAMBDA sum, r : sum + RecordSize(r), 0, entries)

\* store_replay_journal_block measures the block again before it stores it.
StoreJournalBlock(next) ==
    \/ /\ BlockSize(run.pending, run.head) <= REPLAY_JOURNAL_BLOCK_MAX_BYTES
       /\ journal' = journal \cup {Append(run.head, run.pending)}
       /\ run' = [next EXCEPT !.head = Append(run.head, run.pending)]
       /\ UNCHANGED <<refVars, leaves, trees>>
    \/ /\ \/ BlockSize(run.pending, run.head) > REPLAY_JOURNAL_BLOCK_MAX_BYTES
          \/ "put_block" \in IoFaults
       /\ RunFails
       /\ UNCHANGED <<refVars, storeVars>>

\* The next record joins the pending block, or the pending block is full and is
\* stored first; a record that is too large by itself is an error.
AppendRecord ==
    /\ At("append") /\ run.records # <<>>
    /\ LET record == Head(run.records)
           entries == Append(run.pending, record)
           fits    == BlockSize(entries, run.head) <= REPLAY_JOURNAL_BLOCK_MAX_BYTES
           rest    == [run EXCEPT !.records = Tail(@)]
       IN \/ /\ fits
             /\ run' = [rest EXCEPT !.pending = entries]
             /\ UNCHANGED <<refVars, storeVars>>
          \/ /\ ~fits /\ run.pending = <<>>
             /\ RunFails
             /\ UNCHANGED <<refVars, storeVars>>
          \/ /\ ~fits /\ run.pending # <<>>
             /\ StoreJournalBlock([rest EXCEPT !.pending = <<record>>])

\* Mutant: the last pending block is forgotten.
DropPending ==
    /\ At("append") /\ run.records = <<>>
    /\ run' = [run EXCEPT !.at = "commit", !.pending = <<>>]
    /\ UNCHANGED <<refVars, storeVars>>

FlushPending ==
    /\ At("append") /\ run.records = <<>>
    /\ IF run.pending = <<>>
       THEN run' = [run EXCEPT !.at = "commit"] /\ UNCHANGED <<refVars, storeVars>>
       ELSE StoreJournalBlock([run EXCEPT !.at = "commit", !.pending = <<>>])

\* The second interrupt check, and update_mutable_ref_store: load, apply, write.
Commit ==
    /\ At("commit")
    /\ \/ InterruptSeen
       \/ /\ LoadFails /\ RunFails
          /\ UNCHANGED <<refVars, storeVars>>
       \/ /\ Continue /\ Loadable
          /\ BeginWrite(ApplyUpdate(LoadedRefs, [root |-> run.root, head |-> run.head]))
          /\ run' = [run EXCEPT !.at = "writing"]
          /\ UNCHANGED storeVars

WriteRefs == At("writing") /\ WriteStep /\ UNCHANGED <<storeVars, run>>

\* The publication succeeded: the next batch, or the end of the run.
Committed ==
    /\ At("writing") /\ writing.at = "written"
    /\ EndWrite
    /\ acknowledged' = acknowledged \cup {writing.refs}
    /\ run' = IF run.root # NoRoot
              THEN NoRun
              ELSE [run EXCEPT !.at = "batch", !.records = <<>>, !.head = NoHead]
    /\ UNCHANGED storeVars

CommitFails ==
    /\ At("writing") /\ writing.at = "failed"
    /\ EndWrite
    /\ RunFails
    /\ UNCHANGED storeVars

-----------------------------------------------------------------------------
(* externalize_replay_batches_from_journal and run_streaming_stage_externalized *)

\* Every block of the chain that ends in head can be read.
ChainStored(chain) == \A n \in 1..Len(chain) : SubSeq(chain, 1, n) \in journal

\* The journal is walked from its head; every leaf it names is loaded.
Replayable(chain) ==
    /\ chain # NoHead
    /\ ChainStored(chain)
    /\ Published!InputLeaves(chain) # {}
    /\ Published!InputLeaves(chain) \subseteq leaves

Replay ==
    /\ At("replay")
    /\ \/ InterruptSeen
       \/ /\ LoadFails \/ ~Replayable(LoadedRefs.head)
          /\ RunFails
          /\ UNCHANGED <<refVars, storeVars>>
       \/ /\ Continue /\ Loadable /\ Replayable(LoadedRefs.head)
          /\ run' = [run EXCEPT !.at = "finalize",
                                !.root = Published!InputLeaves(LoadedRefs.head)]
          /\ UNCHANGED <<refVars, storeVars>>

\* The delegated indexer stores a tree over the replayed leaves; its outcome
\* records and its root are published.
Finalize ==
    /\ At("finalize")
    /\ \/ InterruptSeen
       \/ /\ "build" \in IoFaults /\ RunFails
          /\ UNCHANGED <<refVars, storeVars>>
       \/ /\ Continue
          /\ trees' = trees \cup {run.root}
          /\ run' = [run EXCEPT !.at = "publish",
                                !.records = Published!OutcomeRecords(run.root)]
          /\ UNCHANGED <<refVars, leaves, journal>>

-----------------------------------------------------------------------------
(* The first Ctrl-C is a request.  The second exits at once, like any other *)
(* end of the process that the run does not see coming.                      *)

Interrupt ==
    /\ ~At("idle") /\ ~interrupted
    /\ interrupted' = TRUE
    /\ UNCHANGED <<refVars, storeVars, run, runs, acknowledged>>

Crash ==
    /\ MayCrash /\ ~At("idle")
    /\ run' = NoRun
    /\ EndWrite
    /\ UNCHANGED <<storeVars, interrupted, runs, acknowledged>>

RunStep ==
    \/ /\ \/ NextBatch \/ PersistStagedBlocks
          \/ Publish \/ AppendRecord \/ FlushPending \/ Commit \/ WriteRefs \/ CommitFails
          \/ Replay \/ Finalize
       /\ UNCHANGED <<interrupted, runs, acknowledged>>
    \/ Committed /\ UNCHANGED <<interrupted, runs>>

Finished == At("idle") /\ runs = MaxRuns /\ UNCHANGED vars

Next ==
    \/ \E stage \in Stages, request \in Requests : StartRun(stage, request)
    \/ RunStep
    \/ Interrupt \/ Crash
    \/ Finished

Spec == Init /\ [][Next]_vars

\* A run that is not killed goes on: no step waits for another process.
FairSpec == Spec /\ WF_vars(RunStep)

-----------------------------------------------------------------------------
(* Properties *)

Chains == {refs.head : refs \in {ref_file.refs, temp_file.refs, backup_file.refs}}
Roots  == {refs.root : refs \in {ref_file.refs, temp_file.refs, backup_file.refs}}

\* Every variable has its type; no half-written object is ever in place of the
\* refs, and only a writing run has a write in progress.
TypeOK ==
    /\ ref_file.kind \in {"none", "json"}
    /\ temp_file.kind \in {"none", "torn", "json"}
    /\ backup_file.kind \in {"none", "json"}
    /\ writing.at \in LocalSteps \cup {"idle", "put", "written", "failed"}
    /\ writing.at = "idle" <=> ~At("writing")
    /\ writing.attempt \in 0..MUTABLE_REF_STORE_HTTP_RETRY_ATTEMPTS
    /\ leaves \subseteq Leaves /\ trees \subseteq SUBSET Leaves
    /\ run.at \in {"idle", "batch", "persist", "publish", "append", "commit", "writing",
                   "replay", "finalize"}
    /\ run.stage \in Stages
    /\ interrupted \in BOOLEAN /\ runs \in 0..MaxRuns

\* Whatever file a run, a failed run or a killed run leaves behind, the refs in it
\* can be followed: the whole journal chain, every leaf it names and the tree of
\* the root are in the block store (the order persist, journal, refs of
\* ingest_replay_batch_to_store and of the finalisation).
RefsNeverDangle ==
    /\ \A chain \in Chains : ChainStored(chain) /\ Published!InputLeaves(chain) \subseteq leaves
    /\ \A root \in Roots : root = NoRoot \/ root \in trees

\* Between runs, what a reported publication committed is still what a load finds:
\* the journal was only extended and the root was only replaced by a larger one,
\* whichever runs failed or were killed since.
AcknowledgedSurvives ==
    At("idle") =>
        \A refs \in acknowledged :
            /\ IsPrefix(refs.head, LoadedRefs.head)
            /\ refs.root \subseteq LoadedRefs.root

\* No journal block in the store is larger than the limit, also when a record
\* overflowed into a block that has a predecessor.
BlocksWithinLimit ==
    \A chain \in journal :
        BlockSize(Last(chain), Front(chain)) <= REPLAY_JOURNAL_BLOCK_MAX_BYTES

\* The mutable refs implement the append-only history of PublishedIndex: a batch
\* or a clustering outcome appears as a whole or not at all.
PublishedRefs == Published!PublishedSpec

\* Every run that is not killed ends, also when the ref store answers no PUT.
RunEnds == ~At("idle") ~> At("idle")

\* What any run leaves behind, finished, failed or killed, can be read by the next:
\* whole files, refs that can be followed, blocks within the limit
\* (write_mutable_ref_store_bytes, persist_staged_blocks).
StoredIndexSound == TypeOK /\ RefsNeverDangle /\ BlocksWithinLimit
=============================================================================
