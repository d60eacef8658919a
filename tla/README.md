# LexonArchiveBuilder in TLA+

A verification development for LexonArchiveBuilder: TLA+ modules that model its
components, TLC configurations that check them on small instances, and TLAPS
proofs of the safety of its core for every value of the parameters. Every
definition is translated from the Rust source; `PROJECT.json` maps each one to its
lines.

Paths below are relative to `src/crates/lexonarchivebuilder-<crate>/src/`.

## 1. The system

The workspace turns mail archives into content-addressed search indexes. Blocks
are named by the hash of their content; one small mutable object per index (the
*mutable refs*) names the current root block and the head of the *replay
journal*, a chain of blocks that records which leaves have been embedded and
which clusterings have been made of them.

| Component | State | Operations | Interaction | What is hard |
|---|---|---|---|---|
| Rooted block copy (`indexer/block_copy.rs`) | work queue, write queue, visited set, failure tracker, counters, stop flag | traverse, read, decode, look up, write, checkpoint (compact), report | worker and writer threads over two mutex/condvar queues; block stores; interrupt latch | who ends the traversal, lost wake-ups, in-flight bounds, exclusive compaction, panics, interrupts |
| Failure tracker (`block_copy.rs`) | roots per block, discovered edges, failures | note root, remember children, record | called by all threads under one lock | failures found before the root that reaches them |
| Mutable ref store (`indexer/runtime.rs`) | file + `.tmp` + `.bak`, blob, or table entity | load, apply update, write | called by the run | replacing a file in several steps, retries, kills |
| Replay journal (`runtime.rs`) | chain of blocks | append with a size limit, walk newest first | block store, ref store | predecessor size, order of publication |
| Indexer run (`runtime.rs`) | request, staged blocks, stage | ingest batches, publish, replay, cluster | resolver, embedding provider, stores, delegated indexer | kill or Ctrl-C between any two steps |
| Replay order (`runtime.rs` 6212-6500) | sorted runs on disk | external merge sort, dedup | journal walk | group boundaries, conflicting digests |
| Leaf construction, replay batch loader (`runtime.rs`) | task set, results by index | build, prefetch | embedding provider | order of results, cancellation |
| Interrupt latch (`indexer/interrupt.rs`) | flag, signal count | arm, first/second Ctrl-C | polled everywhere | second signal exits at once |
| Embedding provider (`indexer/embedding.rs`) | - | embed, embed_batch, retry | HTTP service | retry limits, index of each result |
| Block store overlay, heartbeat (`indexer/block_store.rs`) | stores, heartbeat thread | get, put, bridge to async | all of the above | stopping the heartbeat |
| Resolver, mailbox expansion (`indexer/resolver.rs`, `mailbox.rs`) | - | resolve, chunk | files, block store | chunk boundaries |
| Search, quality (`indexer/search.rs`, `quality.rs`) | walk, sample, neighbours, counters | assess, search, score | block store | shared and cyclic graphs, bounded heaps, denominators |
| Clustering diagnostics (`runtime.rs`) | pass history, telemetry file, embedding observations | project, write, sample | delegated indexer's callback and the task that drives it | failed writes, first write of a run |
| archive-sync journal and snapshot (`archive-sync/lib.rs`, `snapshot.rs`) | workflow journal, manifest | queue, checkpoint, complete, save, acquire, resume | file system, rsync | resume after a kill, durable save |
| HTTP/3 block store client (`block-store-http3/lib.rs`) | cached connection | request, reset, retry | gateway | reset of a fresh connection, retry of served requests |
| Block gateway (`block-gateway/lib.rs`) | semaphores | get block, proxy embeddings | block store, upstream | permits on all exits |
| MCP server (`mcp/`) | caches | search, get email | block store, summary file of a running indexer | resolving the root while it moves, short indexes |
| CLI and configuration (`indexer/main.rs`, `config.rs`) | interrupt arming, stores, exit code | validate, dispatch, report | all commands | Ctrl-C at any moment, what validation promises a run |
| Scripts, infrastructure | - | deploy | - | - |

What makes the core correct, and is stated below as properties: every
reachable block is copied exactly once or its failure is reported for every root
that reaches it; the copy ends; the bounds on in-flight writes hold; compaction
has the destination to itself; the published refs never name what is not stored,
a publication appears as a whole, and what was acknowledged is not lost.

## 2. Modules

| Module | Models |
|---|---|
| `CopyStopFlag` | thread sets, `stop_requested`, `saturating_sub` |
| `ThreadedWorkQueue` | `ThreadedWorkQueue` and its item guard |
| `ThreadedWriteQueue` | `ThreadedWriteQueue`, the batch probe, the writer guard, the joining thread |
| `CopyFailureTracker` | `CopyFailureTracker`, as operators on a value |
| `ThreadedBlockCopy` | composition: `run_threaded_copy_worker`, `run_threaded_write_worker`, interrupt thread, main thread, environment |
| `MCThreadedBlockCopy` | instances of it |
| `BlockGraph` | blocks, roots and children, for both copies |
| `ThreadedBlockCopyProofs`, `CopyTrackerProofs` | theorems about it: the queues and their composition; what a copy achieves and reports; lemmas about the tracker, shared with the single-worker copy |
| `MutableRefStore` | load, update and write of the refs, one file call or PUT per step |
| `PublishedIndex` | abstract specification: what the refs promise |
| `IndexRun` | runs of the indexer, composing the ref store, the journal and the block store |
| `IndexRunProofs` | theorems about the runs and their refs, the keys of replayed items and the text of a mailbox |
| `SingleWorkerCopy` | the copy as one task with lazily polled futures |
| `EmbeddingPool` | concurrent embedding of a batch, retries of both providers |
| `ReplayKeys`, `ReplayOrder`, `ReplayBatches` | the replay: identity of an item, external sort of the journal's inputs, loading of batches and their embeddings |
| `StreamingStage` | the clustering stage as a task that awaits the delegated indexer under Ctrl-C |
| `PlanningTelemetry`, `EmbeddingHealth` | the diagnostics of a clustering |
| `RunRequest`, `CliCommand`, `OperatorHeartbeat` | validation and acceptance of a request, one command of the command line, the progress heartbeat |
| `MailExpansion` | mailbox to items to chunks, and back at resolution |
| `RootedQuality` | the assessment of a stored tree |
| `McpServer` | the MCP tools beside an indexer that publishes |
| `WorkflowJournal`, `SourceSnapshot` | archive-sync: the journal and its durable save; acquisition and resume over that journal |
| `Http3Transport`, `BlockGateway`, `GatewayRead`, `GatewayStart` | the client's connection, the gateway's slots, a read through both ends, the gateway's configuration |
| `TaskProofs`, `SingleCopyProofs` | theorems about the pool, the stage, the heartbeat and the external sort; about the single-worker copy |
| `StoreProofs` | theorems about client and gateway, a read through both, and what is stored |
| `QualityProofs` | theorems about the assessment of a stored tree |
| `InputProofs` | theorems about requests, commands, the gateway's configuration, the telemetry and the loading of batches |
| `MCTasks` | one harness for the parts that wait: `Http3Transport`, `BlockGateway`, `EmbeddingPool`, `ReplayOrder`, `StreamingStage`, `OperatorHeartbeat`, `SingleWorkerCopy` |
| `MCStores` | one for what is stored and read back: `WorkflowJournal`, `SourceSnapshot`, `GatewayRead`, `McpServer` |
| `MCInputs` | one for what is given: `RunRequest`, `CliCommand`, `GatewayStart`, `PlanningTelemetry`, `EmbeddingHealth`, `ReplayBatches` |
| `MCContent` | one for content: `MailExpansion`, `ReplayKeys`, `RootedQuality` |

The four harnesses group modules whose programs share no state. Each behaviour
picks a `part` at the start and runs its next-state relation; the other parts
keep the state they start with, in which their invariants hold trivially. This
is a disjoint union of the modules' state spaces, not an interleaving: nothing a
module can do alone is lost, and nothing is gained by running two that cannot
affect each other. Parts that do interact are composed in a module of their own
(`ThreadedBlockCopy`, `IndexRun`, `SourceSnapshot` over `WorkflowJournal`,
`GatewayRead` over `Http3Transport`). The modules keep their own specifications
(`PoolSpec`, `SingleSpec` and so on), and their names are distinct so that one
harness can extend several.

### Block copy

Variables of the two queue modules are the fields of the two Rust structs;
`work_waiting` and `write_waiting` are the threads asleep on the condition
variables, which `notify_all` empties (spurious wake-ups are allowed). `stage`
and `writer` are the program counters of the threads, `main` that of the calling
thread, `poller` that of the interrupt thread. One critical section, one access
to an atomic, or one block store call is one step. Reading `stop_requested` and
taking the next lock are merged only where a later read covers the earlier one
(`enqueue_children` reads it twice without doing anything in between).

The queue modules each have a specification of their own, in which the steps
that belong to other parts are `BusyStep`, `StopStored` and `WriteStopStored`.
`ThreadedBlockCopy` refines both, which is proved.

Which store calls fail is the constant `Faulty`; interrupts, panics, checkpoint
errors and missing batch support are enabled by `Faults`. A store call that
fails stores nothing, as with the transactional stores of the repository. A
thread may panic in its store calls and in the checkpoint action; a panic while
a mutex is held, which would poison it, is not modelled.

The bytes of a block are its size `len`; the graph is the constant `Children`.
The tracker's lists are bags, and its walk over the known subgraph is the least
set closed under the edges that the walk follows.

### Indexer runs

A journal block is named by a hash over its predecessor's hash and its entries;
the model names it by what the hash determines, the sequence of the entry lists
of its chain. A root is named by the leaves below it. `writing` is the progress
of `write_mutable_ref_store_bytes`. `fs::write` of the temporary file is two
steps because a kill can leave it truncated; an error of any call in `IoFaults`
takes the path the code takes for it. A PUT that gets no answer or a retryable
status may or may not have taken place.

Runs follow each other: `StartRun` picks a stage and a request, `Interrupt` is
the first Ctrl-C, seen where the code checks, `Crash` a kill at any step (the
second Ctrl-C calls `exit`). An ingestion-only run sorts its items first; a full
run takes them as they come. The concurrent construction of the leaves of a
batch, the replay order and the delegated indexer are one step each: they
deliver or fail. A profile without a mutable ref location publishes nothing and
is left out, and so is the metadata map of the refs, which no code reads back.

`PublishedIndex` is the promise: the head only grows, by a batch of inputs or by
all fragments of one outcome, and the root is the outcome of clustering all
inputs recorded before. `PublishedRefs` says that the refs of `IndexRun`
implement it. During the exchange of the local file the refs are the ones the
write falls back to (`Authoritative`).

### The single-worker copy

One task, hence no locks; the concurrency is in the publications, which are
futures that only advance while the task waits in `pending_writes.next()`. The
model starts them in the order they were pushed and lets started ones answer in
any order. `resume` is where `flush_buffered_destination_writes` returns to.

### The replay and the clustering stage

`ReplayKeys` follows two items from the request through block, journal record,
replayed item and journal record again. Four functions build the sort key; the
digest is taken as injective, so a digest is its bytes. A request's metadata are
any pairs: they follow the indexer's own `source_kind` and `source_path` and win
over them when a leaf is read back, while the fields of a mail chunk win over the
request's. The replay takes an item from these fields, and refuses the journal
when the item they name has another digest.
`ReplayOrder` keeps files as sequences and checks every file, and the order in
the end, against the sorted set of the journal's inputs. `ReplayBatches` has the
threads of `load_replay_batch_entries_in_parallel` and the one embedding cache
that all readers of the order share. `StreamingStage` composes awaiting helpers,
interrupt polling, status observer and publication; the v3 `finalize` is a
thread that nobody can stop. `EmbeddingPool` is both
`build_leaf_blocks_concurrently` and `embed_batch`, told apart by its constants.

In `EmbeddingHealth` components are small integers, so that a variance is zero
or not exactly. `PlanningTelemetry` projects a record under one lock and writes
it under another; a write may fail before the first record is claimed, at the
open, or after it. A lookup that fails while a failed clustering is diagnosed
(`ReplayBatches`) is one observation among the others.

### Requests, commands, mail

`RunRequest` is two lists of checks, of a validation and of a run, over a
request and a world that stays the same between them; every combination of the
request's fields that a check reads is an initial state. `CliCommand` is one
process: arming, opening, work, last check, report, exit, with Ctrl-C between
any two. What clap requires of the arguments (`required_if_eq`) it requires for
a profile that was given; for one left to its default it requires nothing, so
that a command without profile and root reaches the `expect` of its
configuration and panics (`defaulted`, `PanicAt`).

`MailExpansion` keeps texts as short character sequences because its properties
are about them: the chunk limit, the joining space, the sentence boundary.
Headers, MIME decoding, HTML entities and the encoding of artifacts are left
out. An empty plain part hides an HTML part, as in the code. A task of the
resolver may fail to read the store (`ReadFails`) or find an artifact that is no
normalized email, in each of the ways `load_email_chunks` tells apart.

### Quality and the MCP server

`RootedQuality` assesses every graph of a family that shares subtrees, misses
blocks, repeats edges and closes cycles (content addressing forbids these; the
full walk handles them all the same, a random walk does not and only starts on
acyclic graphs). A block that cannot be read and a branch whose embeddings do
not decode end the assessment without a report; so does an interrupt, where the
code looks at it (for no query of the fast mode). Distances are integers. Two alike entries of one leaf have one
neighbour id, so their denominator overstates: `RecallIsAFraction` is about
corpora without such twins.

`McpServer` puts calls of the tools beside an indexer that stores a tree and
rewrites the summary in place. A call inside the rewriting gets an error; the
properties are about the answers that are given.

### archive-sync, gateway

The journal crate has no driver: its operations may be called in any order, and
the model calls them so. A save writes a temporary file and persists it, after
a removal on Windows (`windows`); a crash at any step keeps what is on
disk. `SourceSnapshot` extends the journal with the acquisition, over a source
that changes and an rsync that may fail after any file.

`Http3Transport` has concurrent calls over one cached connection that another
call may have replaced; every await may time out. `GatewayRead` composes it with
the overlay of caches above and the gateway's handler below. `BlockGateway` has
the accept loops and their permits; `GatewayStart` what of arguments and
environment counts, and what validation promises to the code that unwraps it.

## 3. Runs

| Run | Instance | Shows |
|---|---|---|
| `copy_blind_write` | 2 workers, 2 writers, 4 blocks in a shared graph, limit 2 writes / 4 bytes, checkpoint every 2 writes, batch support answered either way, checkpoint errors | byte bound, batch probe and checkpoint barrier |
| `copy_read_before_write` | the same graph, one block stored already, one block each on which read, decode, lookup or write may fail, interrupt | in-flight bound (here no checkpoint limits the queue first), each block handled once, nothing lost, truthful counters, failures reported for every root |
| `copy_stopped` | 3 blocks, interrupt, panics of workers, writers and checkpoint, fairness | no early end, no sleeper without waker, guards return what was held, the copy ends |
| `copy_interrupted_compaction` | 3 blocks, interrupt | **violated**: see findings |
| `index_local` | 3 runs, 2 requests, 3 leaves, batches of 2, local file, every call but the restore may fail | atomic append-only publication, nothing acknowledged is lost |
| `index_local_killed` | the same with kills and a failing restore | no dangling refs in any file left behind |
| `index_azure_blob` | the same in a blob, 2 attempts, PUTs may be lost, refused or answered late, kills, fairness | the same, journal block size, every run ends |
| `index_local_head_lost` | local file, kills, no faults | **violated**: see findings |
| `waiting_tasks` | 7 parts, fairness | safety at every interleaving of each, and that what has begun ends |
| `stored_state` | 4 parts, crashes, outages, republication | what was stored is found again and nothing else |
| `inputs_given` | 6 parts, every input of a small instance | what is accepted works, and what is reported is so |
| `content` | 3 parts, fairness of the assessment | texts, keys and trees come through their conversions |

A component states its promise as one or two invariants that are conjunctions of
named parts (`PoolSound`, `AnswersSound`, `ResumeSound` and so on), each part with
its own comment in the module; the runs check the conjunctions. Liveness of all
waiting parts is one formula, `BegunWorkEnds`.

The properties each run checks:

| Run | Properties |
|---|---|
| `copy_blind_write` | `BytesWithinLimit`, `CheckpointAlone`, `OneBatchUntilUnsupported`, `OneCompactionPerInterval`, `UnsupportedIsFinal` |
| `copy_read_before_write` | `InFlightWithinLimit`, `HandledExactlyOnce`, `CompletedCopyIsComplete`, `ReportTruthful` |
| `copy_interrupted_compaction` | `NoCompactionAfterInterrupt` |
| `index_local` | `AcknowledgedSurvives`, `PublishedRefs` |
| `index_local_killed` | `StoredIndexSound` |
| `index_azure_blob` | `PublishedRefs`, `RunEnds` |
| `index_local_head_lost` | `AcknowledgedSurvives` |
| `copy_stopped` | `NoEarlyShutdown`, `SleepersHaveAWaker`, `CopyEnds` |
| `waiting_tasks` | `CallsAreSafeToRetry`, `SlotsAreHeldByTasks`, `PoolSound`, `ReplayOrderSound`, `InterruptedStageSound`, `HeartbeatSound`, `CopyTaskSound`, `CopyReportSound`, `BegunWorkEnds` |
| `stored_state` | `ResumeSound`, `ReadSound`, `AnswersSound`, `SavedStateKept` |
| `inputs_given` | `RequestSound`, `CommandSound`, `GatewayStartSound`, `DiagnosticsSound`, `ReplayBatchesSound` |
| `content` | `MailSound`, `KeysSound`, `TreeReportSound`, `RecallSound`, `AssessmentEnds` |

The parts of the four harness runs:

| Part | Instance | Shows |
|---|---|---|
| HTTP/3 client | a GET and a POST at once, 2 outages, an idle close, timeouts anywhere | a POST is sent once, address and connection go together, a lone call recovers, every call returns |
| gateway server | 3 connections for 2 slots, 3 requests with 1 slot per connection, none or one that never ends | slots are held by tasks, everyone else is served |
| embedding pool | 4 items, 2 at a time, 1 retry; leaves and batch, local and gateway provider | results by item, pool kept full, only retryable failures retried, attempts reported as made, the pool ends |
| replay order | every journal of up to 3 records and every one of 5 inputs, runs of 2, merges of 2, read and write errors | order, deduplication and conflicts over every run and group boundary; the sort ends |
| clustering stage | 2 batches, both indexers, interrupt at any point | nothing runs or is published after an early interrupt, the run ends |
| heartbeat | a reporter, 2 messages, 4 lines | quiet after the return, no repeated line, no lost unpark, stopping returns |
| single-worker copy | 7 blocks, limit 3 writes / 4 bytes with one block of 5, checkpoint every 3, both modes, with and without batches, every operation may fail, interrupt | limits, capacity reachable, store not borrowed during compaction or after the return, truthful report, every root accounted for, the copy returns |
| workflow journal | all operations, 2 unsaved calls, crashes, Windows and others | a saved checkpoint, outcome and committed work survive |
| source snapshot | 2 paths, a changing source, 2 attempts, crashes | a snapshot is fixed, its manifest readable, every mailbox accounted for |
| read through the gateway | 2 reads through both caches, an outage, a store fault, an eviction | caches hold what was stored, a stored block is read |
| MCP server | 2 calls beside 4 runs, one of ingestion only, one whose root is a leaf | answers are of the root that was named, fresh, and short indexes are answered |
| request | all requests over the fields checked | a validated request is accepted by the run but for what only a run can find (refs, provider, items, embedding, replay), what is unwrapped is there, no batch is empty |
| command | every command, profile and side, the profile given or defaulted, Ctrl-C at any moment | no success for abandoned work, stores closed, codes match reports, only a defaulted profile panics |
| gateway configuration | all arguments, environments, profiles | what validates can be built, arguments win |
| planning telemetry | 3 events, a write that fails in each of its places | waiting state, verdict and file are this run's |
| embedding health | all lists of up to 5 inputs over 3 vectors and the ways to be unusable | counts, sample and groups are those of the inputs |
| replay batches | 4 entries, batches of 3, 2 threads, a read error | order of loading, first error, the indexer finds its batch's embeddings |
| mail | all bodies of up to two lines out of eight, a few of three, multipart and broken messages, chunks of 3 characters, 2 resolving tasks, reads that fail, foreign artifacts of 6 kinds | items resolve to the text they were cut from or fail by a failed read, nothing lost, limits |
| keys | 5 paths and 3 references with the escape, the terminator and their neighbours, 8 sets of metadata, 4 of which name fields of the indexer, one more replay round | a journal is refused exactly for items whose request overrides what they are, different items have different digests, identity survives replay |
| quality | 21 graphs of 4 blocks, as above, samples of 0 and 2, Ctrl-C | findings, counts, sample, neighbours, recall; the assessment ends |

Two threads of each kind are the least that give a race for an item, for the
probe and for the checkpoint; with the byte limit 4 and blocks of 1, 2 and 3
bytes both limits bind, and the 3-byte block is one that no other fits beside.
The graph has two roots that share a child at different depths, so that a root
is associated after a failure and before it. Four blocks at an interval of two
give two checkpoints. Thread symmetry is used in the two runs without liveness.
Three runs are the least in which an effect of a failed or killed run is met by
a second and published over by a third; the record sizes make one record fit
only a first block and two share one.

The other bounds are the least at which the interesting case occurs: two runs of
a merge group and a third group (5 inputs at a flush limit and fan-in of 2); a
third batch entry per thread pair; fewer connection slots than connections; a
sample smaller than the corpus; a chunk limit that the joining space alone can
exceed; a block larger than the byte limit; an index that shrinks, grows and
becomes a single leaf between two queries. Every passing run finishes within
three minutes. The harness runs do not check for deadlock: most of their parts
are programs that end. That the ones which wait do not wait for ever is what
their liveness properties say.

Fairness: each thread of the copy is weakly fair (it runs, its store calls
return, critical sections are finite, and no thread waits for a mutex that is
held for ever); interrupts, panics and spurious wake-ups are never owed. A run
of the indexer is weakly fair as one process; kills are not. `TasksFairness`
asks less than the modules' own specifications do, which have one condition per
task (`ServerFairness` with a strong one for the semaphore, a queue in tokio):
some step of the running part is taken as long as one is possible. Operator,
clients, outages and telemetry are not part of it, and so may stay away for
ever. This is enough because every step of a part but the heartbeat's uses up
something finite: a call's attempts, a future, an entry, a permit's holder. An
awaited call returns or times out: a call to the gateway ends because each of
its awaits is under the timeout; a request that hangs behind the gateway
(`stuck`) is not assumed to answer. Stopping the heartbeat is fair separately,
since the heartbeat itself could beat for ever. The assessment of a tree is one
thread and weakly fair.

### Findings

* `copy_interrupted_compaction`: `request_shutdown` leaves `checkpoint_pending`
  set and `next_action` tests it before `shutdown`, so a writer starts a
  compaction of the destination after the interrupt has closed both queues; the
  requirements ask that no additional unit of work be admitted.
* `index_local_head_lost`: killed between the rename of the ref file to `.bak`
  and the rename of `.tmp` into its place, the run leaves no ref file; a load
  reads the default state and never the backup. The design says that the
  previous head stays authoritative.

### Divergences met while modelling

The models contain these behaviours as the code has them, and the properties
above are stated so that they allow exactly these; no run is kept for them.

* On Windows the workflow journal is removed before the new one is persisted
  (`archive-sync/lib.rs` 779-810); a crash in between leaves none. The design
  calls it durable. `JournalNeverLost` is about the other platforms.
* `queue_work` changes the inventory after the work set was frozen; the design
  sends late arrivals to a later generation.
* The gateway answers a failed lookup with 404 (`block-gateway/lib.rs` 425),
  which the client reads as an absent block; the client's design rules that out.
  `StoredBlockIsRead` is about a store without faults.
* The gateway embedding provider reports the attempts allowed when it made one
  only (`indexer/embedding.rs` 192); the message says "after {attempts}
  attempts". `AttemptsReported` is about the local provider.
* Finalization unwraps a read of files and block store as "in-memory replay
  state"; a read error is a panic (`runtime.rs` 1265-1283).
* Ctrl-C after the last check lets the refs be moved although the command ends
  as interrupted; the validation plan wants them unmoved.
  `EarlyInterruptPublishesNothing` is about an earlier one.
* The flag that selects truncation of the telemetry file is claimed before the
  file is opened; if that fails, the prior run's lines stay, which
  `FileIsThisRuns` excepts.
* Every block-store profile has a default (`main.rs` 188, 234, 280, 326), and
  clap's `required_if_eq` looks at given values only: `quality --root-id X`
  without profile and root passes the parser and panics at an `expect` whose text
  says "is required by clap" (`main.rs` 378, 383). `OnlyADefaultPanics` says that
  nothing else does, and that no work is lost by it.
* Request metadata are not checked for the fields the indexer adds
  (`config.rs` 593-607). An item whose request sets `source_kind`, or for a
  document `source_path`, to something else is ingested, and every replay of its
  journal is then refused; `JournalIsAccepted` says that these are the only ones.
* A validate-only run opens the local-redb store without arming the interrupt
  handler that the requirements demand for any such command
  (`OneInterruptClosesStores` excepts it).

### Uncovered

* A panic in the checkpoint action leaves `checkpoint_running` set
  (`block_copy.rs` 1134), and the copy is never joined. `CopyEnds` names that
  case (`CheckpointAbandoned`) and excludes nothing else.
* Two runs that write one mutable ref at once: load, change and write have no
  condition (`runtime.rs` 4710), and the docs promise nothing.
* `max_retries + 1` overflows for the largest value of its type
  (`embedding.rs` 137), which no configuration makes sense of.
* The request file is read a second time to decide about the interrupt handler
  (`main.rs` 799): a file that changes in between is judged differently.
* The gateway waits for the body of a request to `/embeddings` without a limit
  (`block-gateway/lib.rs` 438): a client that never sends it keeps its request
  slot. `Answers` is about clients that do.
* `reset_connection` may discard a connection that another call has just opened
  (`block-store-http3/lib.rs` 404). The model lets it; `LoneCallHeals` is about a
  call that no other disturbs, and what a discarded one costs is its one retry.


## 4. Proofs

What TLC shows on a small instance, TLAPS proves for every value of the
constants: any graph, any number of threads, calls, items or runs, any limits,
any pattern of faults. Of the 40 properties that passing runs check, 34 are also
theorems. Hardly one is inductive as it stands; each proof has an invariant of its
own, defined in the proof module as a conjunction of named parts with a comment each.

### The multi-worker copy

`ThreadedBlockCopyProofs`: each queue by itself, the copy that composes them, then
what the copy leaves behind.

* `WorkQueueSafe`: `ActiveCountsHolders`, `NoEarlyShutdown` and
  `SleepersHaveAWaker` of the work queue. The inductive invariant `WorkInv` adds
  the types. `NoEarlyShutdown` is preserved by `finish_item` only because
  `active_workers` counts exactly the holders, and by `enqueue_children` only
  because its caller holds an item; sleepers are sound because a worker sleeps
  only at a nonzero count.
* `WriteQueueSafe`: `InFlightWithinLimit`, `CheckpointAlone` and
  `OneBatchUntilUnsupported`. The counter `active_writes` has to be related to
  the batches in the writers' hands: `WriteInv` says that it is the number of
  (writer, position) slots, that a holder's batch is not empty, that a batch
  still to be published has one job once batching is known to be unsupported,
  and that `checkpoint_running` is a lock: while it is set, nothing is queued or
  held and one writer at most is in the checkpoint.
* `CapabilityMonotone`: `UnsupportedIsFinal`, from the same invariant: a batch
  call made after the capability became `Unsupported` would need two jobs.
* `WriteBytesSafe`: `BytesWithinLimit`. `in_flight_bytes` is the sum of the sizes
  of what is queued and held. Sums over the queue and the batches are a recursive
  function; what it does under append, removal and splitting is proved from an
  induction principle on sets of numbers (`SetInduction`), which is first-order
  and so within the provers' reach.
* `CopyImplementsWorkQueue`, `CopyImplementsWriteQueue`: every step of
  `ThreadedBlockCopy` is a step of each queue's specification or leaves it alone.
* `CopySafe`, `CopySleepersWoken`, `CopyBatchesAlone`, `CopyBytesSafe`: hence the
  queues' invariants hold of the whole copy.
* `CopyHandlesOnce`, `CopyComplete`, `CopyReportTrue`, `CompactionsKeepPace`:
  `HandledExactlyOnce`, `CompletedCopyIsComplete`, `ReportTruthful` and
  `OneCompactionPerInterval`. `CopyInv` puts on the queues' invariants what the
  traversal knows: a claimed block has one place or an outcome (`OnePlace`,
  `NothingLost`, `FailedOnce`); what was discovered and not cut off by a stop is
  queued, held or done (`NothingForgotten`, `ItemsKnown`); the tracker has the
  edges of every decoded block and has carried every root over every edge it
  knows (`ChildrenKnown`, `RootsPropagate`); a failure is reported once per root
  of its block (`ReportedOnce`). When a copy completes nothing is under way, so
  the edges known are all edges, and the blocks a root was carried to are those
  it reaches (`RootsAreReach`): no induction over paths is needed, because
  reachability is the least closed set and the tracker's sets are closed.

### The indexer's runs

`IndexRunProofs`.

* `IndexStoreSafe`: `StoredIndexSound`, with kills and every I/O fault. `StoreInv`
  says of each file, of the write in progress and of the run's own state that
  what it names is stored, the whole chain of the journal included.
* `AcknowledgedRefsSafe` and `RefsRefinePublishedIndex`: `AcknowledgedSurvives` and
  the refinement of `PublishedIndex`. `HistoryInv` adds what the run is about to
  publish at each of its steps (`RunProgress`: loaded journal, appended records,
  pending block and records to come make up one publication), how far the
  exchange of files has come (`WriteOrder`), and that acknowledged refs are a
  prefix of the current ones. Both assume `ExchangeIsSafe`: a location other than
  the local file, or no kill and no failed restore. That is not a convenience:
  without it the property is false, which is the finding `index_local_head_lost`.

### Client, gateway, waiting tasks

`StoreProofs` and `TaskProofs`.

* `ServerSlotsSafe`: `SlotsAreHeldByTasks`, any number of connections and slots.
* `TransportSafe`: `CallsAreSafeToRetry`. `TransportInv` says which fields a call
  has at each place, that one not yet sent has no answer, that a call in which
  nothing was disturbed is alone (`CleanIsAlone`), and hence that its second
  attempt uses the connection it opened (`SecondAttemptIsFresh`).
* `ReadSafe`: `ReadSound`, over the same invariant: every step of a read is a step of
  the transport or leaves it alone (`ReadIsTransportStep`).
* `PoolSafe`: `PoolSound`. That the pool is full is inductive only as an exact
  count while items are left and an upper bound after (`TasksCounted`).
* `InterruptedStageSafe`: `InterruptedStageSound`, any sequence of failures.
* `HeartbeatSafe`: `HeartbeatSound`. That no unpark is lost needs that the flag is
  down before it (`StopInv`); that no line repeats is shown when one thread delivers the telemetry: two may
  project one after the other and print in the other order (the lock is released
  in between), so that lines repeat; how many do is up to the database library.

### The single-worker copy

`SingleCopyProofs`, with the tracker's lemmas of `CopyTrackerProofs`.

* `CopyTaskSafe`: `CopyTaskSound`. The counters are related to the publications as
  sums over a sequence that grows at one end and loses elements anywhere. What
  makes it inductive (`CopyTaskInv`): a publication in flight still has a job
  without a result, so that no job in flight means no publication (`JobsRemain`);
  what is buffered or taken may be in flight alone (`Fits`), which is why a wait
  for capacity always has something to wait for; a block about to be pushed was
  given room before the await in `buffer_destination_write_job` (`RoomForBlock`);
  and where the buffer, the publication taken and the futures are empty
  (`EmptiedAt`). The saturating subtractions of `record_write_completions` are
  shown to be exact.
* `CopyReportSafe`: `CopyReportSound`, the report of a copy that returned. `ReportInv`,
  on top of `CopyTaskInv`, says that no block is in two places of the pipeline
  (`EachOnce`, `PlacesApart`), that every visited block is in one of them, counted as
  done or recorded as failed (`EveryBlockPlaced`, `BlocksCounted`), and that roots
  and children are queued unless the walk was cut off (`RootsQueued`,
  `ChildrenQueued`); of the tracker it knows what the multi-worker copy's invariant does.

### The replay

`TaskProofs` (the order), `InputProofs` (the batches), `IndexRunProofs` (the keys).

* `ReplayOrderSafe`: `ReplayOrderSound`, for any journal, flush limit and fan-in.
  `NothingLost` says that the entries held in all places together are the
  inputs, no more and no less; `MergeOrder` that what a merge has written comes
  before the entry it holds, and that one no later than the heads of its files;
  `ReadsPrefix` that the reader has handed out a prefix of the one merged file.
  Files that are ordered sets then leave a merge as an ordered set, and two
  records that conflict meet in a run or in a merge. The recursive functions
  (`Dedup`, flattening, sums) are unfolded with one lemma on functions defined by
  recursion on a number (`StepsExist`, `StepsAgree`), itself proved from the least
  counterexample.
* `ReplayBatchesSafe`: `ReplayBatchesSound`, any number of entries and threads.
  Besides types, `ReplayInv` says that results are those of their entries, that
  an index below the shared counter is loaded or in a thread's hands, unless
  one panicked (`TakenAreLoaded`), that all entries before the batch were good,
  and what the cache holds while the indexer has the batch (`WorksOnBatch`).
  The first error of the batch is then the first bad entry of the whole order.
* `KeysSafe`: `KeysSound`, for any metadata and any number of rounds. That the digest
  tells items apart is unique readability: an escaped word ends at the first
  terminator that no escape precedes, a padded number has its fixed width and its
  digits tell it, so a concatenation of both can be read back in one way only. Metadata are written in
  the order of their ranks; that the ranks of a finite set of fields are the numbers
  from one up is a pigeonhole argument. `KeysInv` then says that an item is, at
  every place, what was asked or the record of it. A leaf's item has the digest of
  the record exactly when its metadata name the item asked for (`NamedComesBack`,
  `AcceptedIsAsked`), so that overridden metadata are refused and nothing else.

### The text of a mailbox

`IndexRunProofs`.

* `MailSafe`: `MailSound`, for any file of any messages, any chunk length and any
  number of tasks. Every operator on text is a fold. A fold is shown to be a step
  function applied to one element after the other (`IterationIsFold`), so that a
  fact about it follows by induction on sequences (`SeqInduction`), stated over sets
  and hence first-order. The lemmas say of each stage what happens to the letters,
  the text without white space: dropping quotes and signatures, joining lines
  (`CoreKeeps`), splitting sentences (`UnitsKeep`) and cutting chunks (`ChunksKeep`)
  keep all of them in their order; no chunk is empty, and one too long is a single unit. `MailInv` says
  how far the expansion is (`ExpansionAt`), that stored emails have text
  (`StoreFine`), that items name chunks of them (`ItemsFine`), and that cache and
  tasks hold the chunks of the artifact they are about (`CacheFine`, `TasksFine`); a
  read that fails ends its own task and leaves the cache alone.

### The assessment of a tree

`QualityProofs`.

* `TreeReportSafe`: `TreeReportSound`, for any stored graph and any answers of the
  search. `Ledger` relates the traversal's record to the edges that the frames of
  the recursion have come past (`Handled`): the blocks entered are the root and the
  stored ends of those edges (`Entered`), there is a finding exactly when one of
  them is bad (`Judged`), and each was counted as the one that entered its child or
  as a defect (`Counted`). When no frame is left all edges out of the blocks entered
  are handled, so these blocks are a closed set, and the least one: what the root
  reaches, which is defined by iteration and shown to be that set because a step
  that adds nothing closes it and there are not more blocks than steps
  (`ReachableIs`). Sums are folds over functions; that they do not depend on an
  order, that zeros may be left out and that double sums may be swapped is proved
  once (`TotalIs`, `TotalZeros`, `TotalSwap`), from an induction over finite sets
  stated with sets of sets (`SetGrows`).
* `RecallSafe`: `RecallSound`, for any stored graph, sample size, hash and answers of
  the search. Both heaps, the sample and the exact neighbours of a query, are the one
  step `Push` under an order that may have ties (`Orders`). `Best` says what a heap is
  worth for the entries it was offered: it is full or has them all, its elements are
  among them, and one it has not is not before any it has. A push keeps that
  (`BestPush`), also when the last element has to go, and so does a leaf whose
  entries are pushed one after another (`BestRun`, `LeafKept`); folds are unrolled
  into runs of steps by one lemma (`IterationRuns`). `RecallInv`, kept together with
  `QualityInv`, says that the sample and the corpus count are about the blocks
  entered (`Collected`), that a block with another spec than the root's has left a
  finding (`OneSpec`), that the second walk's blocks read and blocks to read are
  reached and closed together (`Walked`), and that each query's heap is the best of
  the other entries of the blocks read (`Scored`). When nothing is left to read both
  walks have met the least closed set (`LeastIs`), so heaps and denominators are
  about the same entries (`RowsAre`).

### What is given

`InputProofs`.

* `RequestSafe`: `RequestSound`, for any request. `RequestInv` says that a check
  which is no longer on the list of an invocation held (`MadeHeld`), and that all
  checks of a validation that passed do (`PassedHeld`); the run's list is then
  shown to ask nothing more of a validated request.
* `CommandSafe`: `CommandSound`. `CliInv` relates signals, handler and flag
  (`SignalsHandled`), and work, report and exit code (`WorkBeforeReport`). A panic
  comes from a configuration without root, which clap lets through only for a
  defaulted profile.
* `GatewayStartSafe`: `GatewayStartSound`. `StartInv` says that the configuration is the
  one the arguments and the environment give, and that the store's layers are built
  from one that was found valid.
* `TelemetrySafe`: the telemetry half of `DiagnosticsSound`, any number of events and
  failed writes. `TelemetryInv` says what a thread holds between its two locks
  (`InFlight`), that before the first write all projected records are still in the
  threads' hands (`NothingWritten`), and when the blocking reason is forgotten
  (`Blocked`).

### What is stored

`StoreProofs`.

* `ResumeSafe`, `SavedStateSafe`: `ResumeSound` and the four action properties of
  `SavedStateKept`. Each operation of the journal makes a `Successor`, which keeps
  committed work, outcome and checkpoints (`Keeps`, a preorder). `KeptInv` says
  that the journal in memory is reached from the one in the file that way, that
  only validated journals reach the file, and that an acquisition stores payloads,
  manifest and record in this order. With it a load after a kill at any point
  finds all that was saved. Journal alone and journal under an acquisition are two
  parts of the harness, and one lemma about the journal's operations, with the set
  of items as a parameter, serves both.
* `AnswersSafe`: `AnswersSound`, any number of calls and runs. `McpInv` says of each
  call what it holds at its place: a root that was named by the summary since it
  began, and stored; it is kept by the indexer's steps because blocks are stored
  before a summary names them and are never removed.

### Assumptions

In the modules that declare the constants; TLC evaluates them in the runs.
Thread sets, blocks and calls are finite, thread sets disjoint; the write limit
and the checkpoint interval are positive; the name that stands for the
destination store in the report is none of the blocks; requests are sequences of
leaves, leaf entries of kinds; the value for "nothing to report" is no message;
files have some content; runs of the indexer are numbered from one; a journal is
a sequence of records, runs have room for an entry and merges take at least two
files; a batch has room for an entry and at least one thread to load it. For the
keys: texts and the names and values of metadata are sequences of numbers, and a chunk
number has no more digits than its place in a key (20, as many as the largest
`usize`). For mail: the white characters are characters, a file is a
sequence of separators and messages, a message that parses and has no parts has a
body, the chunk length is positive, the text for an empty body begins with a letter,
and what else is in the store is of another kind. For the assessment: block sizes
and levels are numbers, a graph gives each block its entries, and the window for the
estimate of round trips is positive; block ids and the keys of the sample are
compared, so they are numbers (hashes, in the code), and the recall is asked for at
positive numbers up to the limit of exact neighbours, the limit included. None restricts a limit, a graph or
a choice of faults.

### Only model-checked

* All liveness (`CopyEnds`, `RunEnds`, `BegunWorkEnds`, `AssessmentEnds`) and what
  else rests on ENABLED: out of the prover's reach.
* The health half of `DiagnosticsSound`: mean, variance and sampling by folds over
  vectors, with facts of real arithmetic (a variance is zero only if all are equal)
  that are not linear and so beyond the solver.

## 5. Not modelled

* `run_streaming_stage` (in memory) and `load_replay_batches_from_journal` are
  `#[allow(dead_code)]`, `expand_batch_items` and the v2 telemetry family are
  reached from tests only. About half of the source lines are tests.
* The delegated indexer, the block store libraries, QUIC, rsync, the embedding
  service and clap are outside the repository; they appear as the outcomes the
  code tells apart.
* Documents other than mail (`resolve_file`), MIME and HTML decoding, custom
  blocks, CBOR and JSON encoding: conversions of data without a control that the
  properties would need.
* Floating-point statistics (spread, principal components, quantiles, norms) and
  the ranking of scores: TLC has no floats, and integers would say nothing about
  rounding.
* The text of reports, progress lines and logs; tool schemas of the MCP server.
* Shell scripts and Bicep files around the binaries: pure I/O.

## 6. Plan

1. Proofs: the health half of `DiagnosticsSound`.
2. An abstract `RootedCopy` that both copies implement.
3. The rest of the journal's decoding checks, the resolution of documents, and
   the configuration of the MCP server.
