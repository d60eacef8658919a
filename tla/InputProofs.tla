---------------------------- MODULE InputProofs ----------------------------
(***************************************************************************)
(* What is given to the programs, in every form: the replay of stored      *)
(* leaves for every replay order, batch size and number of loading threads;*)
(* the start of the gateway for all arguments and environment variables;   *)
(* a command of the indexer with Ctrl-C at any of its steps; a request     *)
(* that is validated and then run; and the planning telemetry of a         *)
(* clustering that reports from two threads.                               *)
(***************************************************************************)
EXTENDS ReplayBatches, RunRequest, CliCommand, GatewayStart, PlanningTelemetry,
        SequenceTheorems, NaturalsInduction, WellFoundedInduction, TLAPS

-----------------------------------------------------------------------------
(* Least and greatest numbers. *)

\* A set of natural numbers that is not empty has a least one.
LEMMA MinIs ==
    ASSUME NEW S \in SUBSET Nat, S # {}
    PROVE  Min(S) \in S /\ \A y \in S : Min(S) <= y
  <1>1. PICK R : R = OpToRel(<, Nat)
    OBVIOUS
  <1>2. IsWellFoundedOn(R, Nat)
    BY <1>1, NatLessThanWellFounded
  <1>3. PICK x \in S : \A y \in S : ~(<<y, x>> \in R)
    BY <1>2, WFMin
  <1>4. \A y \in Nat : y < x => <<y, x>> \in R
    BY <1>1 DEF OpToRel
  <1>5. ASSUME NEW y \in S PROVE x <= y
    <2>1. y \in Nat /\ x \in Nat
      OBVIOUS
    <2>2. ~(y < x)
      BY <1>3, <1>4, <2>1
    <2> QED BY <2>1, <2>2
  <1> QED BY <1>5 DEF Min

\* One that is bounded has a greatest one: its least upper bound.
LEMMA MaxIs ==
    ASSUME NEW S \in SUBSET Nat, S # {}, NEW n \in Nat, \A y \in S : y <= n
    PROVE  Max(S) \in S /\ \A y \in S : y <= Max(S)
  <1>1. PICK U : U = {u \in Nat : \A y \in S : y <= u}
    OBVIOUS
  <1>2. n \in U
    BY <1>1
  <1>3. PICK u : u \in U /\ \A v \in U : u <= v
    BY <1>1, <1>2, MinIs
  <1>4. u \in S
    <2> SUFFICES ASSUME u \notin S PROVE FALSE
      OBVIOUS
    <2>1. \A y \in S : y < u
      BY <1>1, <1>3
    <2>2. PICK y : y \in S
      OBVIOUS
    <2>3. u - 1 \in Nat /\ \A z \in S : z <= u - 1
      BY <1>1, <1>3, <2>1, <2>2
    <2> QED BY <1>1, <1>3, <2>3
  <1>5. \A y \in S : u >= y
    BY <1>1, <1>3
  <1> QED BY <1>4, <1>5 DEF Max

-----------------------------------------------------------------------------
(* The batches of a replay. *)

ReplaySteps == {"between", "loading", "working", "planning", "lookups", "ended"}

ReplayTypes ==
    /\ block \in [Entries -> BlockStates]
    /\ phase \in {"ingest", "finalize", "diagnose"}
    /\ doing \in ReplaySteps
    /\ pos \in 0..N
    /\ nextIndex \in Nat \ {0}
    /\ worker \in [Workers -> 0..(N + 2)]
    /\ readErrors \in Nat
    /\ doing = "ended" <=> stageResult # "none"

\* What was handed out before was good.
GoodSoFar == \A j \in 1..pos : block[j] = "good"

\* The results there are: of the entry itself, or of a read that failed.
ResultsOfEntries ==
    doing = "loading" =>
        /\ pos < N /\ DOMAIN loaded = 1..BatchLen
        /\ \A k \in 1..BatchLen : \/ loaded[k] \in {"none", LoadResult(pos + k)}
                                  \/ loaded[k] = "read_error" /\ readErrors > 0
        /\ Panicked => readErrors > 0

\* Every index taken has a result or a thread that loads it, unless one panicked;
\* the first thread, which always runs, is over only when all were taken.
TakenAreLoaded ==
    doing = "loading" =>
        /\ \A w \in Workers : worker[w] \in {Free, Over, Dead} \cup 1..BatchLen
        /\ \A k \in 1..BatchLen :
              k < nextIndex => loaded[k] # "none" \/ Panicked \/ \E w \in Workers : worker[w] = k
        /\ worker[1] = Over => nextIndex > BatchLen

\* The batch the indexer works on, and its embeddings.
WorksOnBatch ==
    doing = "working" => /\ pos < N
                         /\ \A i \in Batch : block[i] = "good"
                         /\ cache = PublishedEmbeddings

ReplayInv ==
    /\ ReplayTypes /\ GoodSoFar /\ ResultsOfEntries /\ TakenAreLoaded /\ WorksOnBatch
    /\ FirstBadEntryReported

\* A batch is a part of the order that is not empty, and the first thread is one
\* of those that load it.
LEMMA BatchIs ==
    ASSUME pos \in 0..N, pos < N
    PROVE  /\ BatchLen \in 1..(N - pos) /\ Batch \subseteq Entries
           /\ Batch = (pos + 1)..(pos + BatchLen)
           /\ WorkerCount \in 1..MaxWorkers /\ 1 \in Workers
  <1> USE ReplayBatchesAssumption
  <1>1. BatchLen \in {BatchSize, N - pos} /\ BatchLen <= N - pos
    <2>1. {BatchSize, N - pos} \in SUBSET Nat
      OBVIOUS
    <2> QED BY <2>1, MinIs DEF BatchLen
  <1>2. BatchLen \in 1..(N - pos)
    BY <1>1
  <1>3. WorkerCount \in {BatchLen, MaxWorkers} /\ WorkerCount <= MaxWorkers
    <2>1. {BatchLen, MaxWorkers} \in SUBSET Nat
      BY <1>2
    <2> QED BY <2>1, MinIs DEF WorkerCount
  <1>4. Batch = (pos + 1)..(pos + BatchLen)
    <2>1. \A i \in (pos + 1)..(pos + BatchLen) : i - pos \in 1..BatchLen /\ i = pos + (i - pos)
      BY <1>2
    <2>2. \A k \in 1..BatchLen : pos + k \in (pos + 1)..(pos + BatchLen)
      BY <1>2
    <2> QED BY <2>1, <2>2 DEF Batch
  <1> QED BY <1>2, <1>3, <1>4 DEF Entries, Workers

\* Nothing is loaded at the start.
LEMMA ReplayInitInv ==
    ASSUME ReplayInit
    PROVE  ReplayInv
  BY ReplayBatchesAssumption
  DEF ReplayInit, ReplayStart, ReplayInv, ReplayTypes, GoodSoFar, ResultsOfEntries, TakenAreLoaded,
      WorksOnBatch, FirstBadEntryReported, ReplaySteps, Over, BlockStates

\* The published embeddings are of entries of the batch with that content.
LEMMA PublishedIs ==
    ASSUME pos \in 0..N, pos < N
    PROVE  /\ DOMAIN PublishedEmbeddings = {Input[i] : i \in Batch}
           /\ \A i \in Batch : /\ PublishedEmbeddings[Input[i]] \in Batch
                               /\ Input[PublishedEmbeddings[Input[i]]] = Input[i]
  <1> SUFFICES ASSUME NEW i \in Batch
               PROVE  /\ PublishedEmbeddings[Input[i]] \in Batch
                      /\ Input[PublishedEmbeddings[Input[i]]] = Input[i]
    BY DEF PublishedEmbeddings
  <1>1. PICK S : S = {j \in Batch : Input[j] = Input[i]}
    OBVIOUS
  <1>2. S \in SUBSET Nat /\ i \in S /\ \A y \in S : y <= N
    BY <1>1, BatchIs, ReplayBatchesAssumption DEF Entries
  <1>3. Max(S) \in S
    BY <1>2, MaxIs, ReplayBatchesAssumption
  <1>4. PublishedEmbeddings[Input[i]] = Max(S)
    BY <1>1 DEF PublishedEmbeddings
  <1> QED BY <1>1, <1>3, <1>4

\* What the invariant says of the replay.
LEMMA ReplayInvSound ==
    ASSUME ReplayInv
    PROVE  ReplayBatchesSound
  <1>1. IndexerSeesItsBatch
    BY PublishedIs DEF ReplayInv, ReplayTypes, WorksOnBatch, IndexerSeesItsBatch, Answer
  <1>2. doing = "loading" /\ Joined /\ ~Panicked => \A k \in DOMAIN loaded : loaded[k] # "none"
    <2> SUFFICES ASSUME doing = "loading", Joined, ~Panicked, NEW k \in DOMAIN loaded
                 PROVE  loaded[k] # "none"
      OBVIOUS
    <2>1. pos \in 0..N /\ pos < N /\ DOMAIN loaded = 1..BatchLen
      BY DEF ReplayInv, ReplayTypes, ResultsOfEntries
    <2>2. BatchLen \in 1..(N - pos) /\ 1 \in Workers
      BY <2>1, BatchIs
    <2>3. \A w \in Workers : worker[w] = Over
      BY DEF Joined, Panicked
    <2>4. k < nextIndex
      BY <2>1, <2>2, <2>3, ReplayBatchesAssumption DEF ReplayInv, ReplayTypes, TakenAreLoaded
    <2> QED BY <2>1, <2>2, <2>3, <2>4, ReplayBatchesAssumption DEF ReplayInv, TakenAreLoaded, Over
  <1> QED
    BY <1>1, <1>2
    DEF ReplayInv, WorksOnBatch, ReplayBatchesSound, EveryEntryLoaded

\* When the stage is not with a batch after a step, the other parts say little.
LEMMA ElsewhereKeeps ==
    ASSUME ReplayInv, ReplayTypes', GoodSoFar', block' = block,
           doing' \notin {"loading", "working"},
           UNCHANGED <<readErrors, stageResult>> \/ stageResult' \notin BlockStates
    PROVE  ReplayInv'
  BY DEF ReplayInv, ResultsOfEntries, TakenAreLoaded, WorksOnBatch, FirstBadEntryReported

\* A batch begins with no results and the first thread free.
LEMMA NextBatchKeeps ==
    ASSUME ReplayInv, NextBatch
    PROVE  ReplayInv'
  <1> USE ReplayBatchesAssumption
  <1>1. pos \in 0..N /\ pos < N /\ pos' = pos /\ block' = block
    BY DEF ReplayInv, ReplayTypes, NextBatch
  <1>2. /\ BatchLen \in 1..(N - pos) /\ WorkerCount \in 1..MaxWorkers /\ 1 \in Workers
        /\ BatchLen' = BatchLen
    BY <1>1, BatchIs DEF BatchLen
  <1>3. \A w \in Workers : worker'[w] \in {Free, Over}
    BY DEF NextBatch
  <1>4. worker'[1] = Free
    BY <1>2 DEF NextBatch
  <1>5. ReplayTypes' /\ GoodSoFar'
    BY <1>1 DEF ReplayInv, ReplayTypes, GoodSoFar, NextBatch, ReplaySteps, Free, Over
  <1>6. ResultsOfEntries'
    <2>1. DOMAIN loaded' = 1..BatchLen /\ \A k \in 1..BatchLen : loaded'[k] = "none"
      BY DEF NextBatch
    <2>2. ~Panicked'
      BY <1>3 DEF Panicked, Free, Over, Dead
    <2> QED BY <1>1, <1>2, <2>1, <2>2 DEF ResultsOfEntries
  <1>7. TakenAreLoaded'
    BY <1>2, <1>3, <1>4 DEF TakenAreLoaded, NextBatch, Free, Over
  <1> QED
    BY <1>1, <1>5, <1>6, <1>7
    DEF ReplayInv, WorksOnBatch, NextBatch, FirstBadEntryReported

\* What the loading threads change and leave alone.
LoadingGoesOn ==
    /\ doing = "loading"
    /\ UNCHANGED <<block, phase, doing, pos, cache, fallback, stageResult>>

\* A step of a loading thread keeps the invariant if it keeps what is said of them.
LEMMA LoadingKeeps ==
    ASSUME ReplayInv, LoadingGoesOn, nextIndex' \in Nat \ {0},
           worker' \in [Workers -> 0..(N + 2)], readErrors' \in Nat, readErrors <= readErrors',
           ResultsOfEntries', TakenAreLoaded'
    PROVE  ReplayInv'
  BY DEF ReplayInv, ReplayTypes, GoodSoFar, WorksOnBatch, FirstBadEntryReported, LoadingGoesOn

\* A thread that takes an index holds it.
LEMMA TakeKeeps ==
    ASSUME ReplayInv, NEW w \in Workers, TakeEntry(w)
    PROVE  ReplayInv'
  <1> USE ReplayBatchesAssumption
  <1>0. /\ LoadingGoesOn /\ pos \in 0..N /\ pos < N /\ pos' = pos /\ nextIndex \in Nat \ {0}
        /\ worker \in [Workers -> 0..(N + 2)] /\ worker[w] = Free /\ doing = "loading"
        /\ readErrors \in Nat /\ readErrors' = readErrors /\ loaded' = loaded /\ block' = block
        /\ nextIndex' = nextIndex + 1 /\ doing' = doing
    BY DEF TakeEntry, LoadingGoesOn, ReplayInv, ReplayTypes, ResultsOfEntries
  <1>1. BatchLen \in 1..(N - pos) /\ BatchLen' = BatchLen /\ 1 \in Workers
    BY <1>0, BatchIs DEF BatchLen
  <1>2. PICK to : to = IF nextIndex > BatchLen THEN Over ELSE nextIndex
    OBVIOUS
  <1>3. worker' = [worker EXCEPT ![w] = to] /\ to \in {Over} \cup 1..BatchLen
    BY <1>0, <1>1, <1>2 DEF TakeEntry
  <1>4. worker' \in [Workers -> 0..(N + 2)]
    BY <1>0, <1>1, <1>3 DEF Over
  <1>5. Panicked' = Panicked
    <2>1. to # Dead /\ worker[w] # Dead
      BY <1>0, <1>1, <1>3 DEF Over, Dead, Free
    <2> QED BY <1>0, <1>3, <2>1 DEF Panicked
  <1>6. ResultsOfEntries'
    BY <1>0, <1>1, <1>5 DEF ReplayInv, ResultsOfEntries, LoadResult
  <1>7. TakenAreLoaded'
    <2>1. \A v \in Workers : worker'[v] \in {Free, Over, Dead} \cup 1..BatchLen
      BY <1>0, <1>3 DEF ReplayInv, TakenAreLoaded
    <2>2. ASSUME NEW k \in 1..BatchLen, k < nextIndex'
          PROVE  loaded'[k] # "none" \/ Panicked' \/ \E v \in Workers : worker'[v] = k
      <3>1. CASE k = nextIndex
        <4>1. worker'[w] = k
          BY <1>0, <1>1, <1>2, <1>3, <3>1
        <4> QED BY <4>1
      <3>2. CASE k # nextIndex
        <4>1. loaded[k] # "none" \/ Panicked \/ \E v \in Workers : worker[v] = k
          BY <1>0, <1>1, <2>2, <3>2 DEF ReplayInv, TakenAreLoaded
        <4>2. \A v \in Workers : worker[v] = k => worker'[v] = k
          BY <1>0, <1>1, <1>3 DEF Free
        <4> QED BY <1>0, <1>5, <4>1, <4>2
      <3> QED BY <3>1, <3>2
    <2>3. worker'[1] = Over => nextIndex' > BatchLen
      <3>1. CASE w = 1
        BY <1>0, <1>1, <1>2, <1>3, <3>1 DEF Over
      <3>2. CASE w # 1
        BY <1>0, <1>1, <1>3, <3>2 DEF ReplayInv, TakenAreLoaded
      <3> QED BY <3>1, <3>2
    <2> QED BY <1>1, <2>1, <2>2, <2>3 DEF TakenAreLoaded
  <1> QED BY <1>0, <1>4, <1>6, <1>7, LoadingKeeps

\* A thread that has loaded its entry leaves the result.
LEMMA LoadKeeps ==
    ASSUME ReplayInv, NEW w \in Workers, LoadEntry(w)
    PROVE  ReplayInv'
  <1> USE ReplayBatchesAssumption
  <1>0. /\ LoadingGoesOn /\ pos \in 0..N /\ pos < N /\ pos' = pos /\ nextIndex \in Nat \ {0}
        /\ worker \in [Workers -> 0..(N + 2)] /\ worker[w] \in 1..BatchLen /\ doing = "loading"
        /\ readErrors \in Nat /\ block' = block /\ nextIndex' = nextIndex /\ doing' = doing
        /\ DOMAIN loaded = 1..BatchLen
    BY DEF LoadEntry, LoadingGoesOn, ReplayInv, ReplayTypes, ResultsOfEntries
  <1>1. BatchLen \in 1..(N - pos) /\ BatchLen' = BatchLen /\ 1 \in Workers
    BY <1>0, BatchIs DEF BatchLen
  <1>2. PICK r : /\ loaded' = [loaded EXCEPT ![worker[w]] = r]
                 /\ \/ r = LoadResult(pos + worker[w]) /\ readErrors' = readErrors
                    \/ r = "read_error" /\ readErrors' = readErrors + 1
    BY DEF LoadEntry
  <1>3. r # "none"
    BY <1>0, <1>1, <1>2 DEF LoadResult, ReplayInv, ReplayTypes, BlockStates, Entries
  <1>4. worker' = [worker EXCEPT ![w] = Free]
    BY DEF LoadEntry
  <1>5. worker' \in [Workers -> 0..(N + 2)] /\ readErrors' \in Nat /\ readErrors <= readErrors'
    BY <1>0, <1>2, <1>4 DEF Free
  <1>6. Panicked' = Panicked
    <2>1. Free # Dead /\ worker[w] # Dead
      BY <1>0, <1>1 DEF Dead, Free
    <2> QED BY <1>0, <1>4, <2>1 DEF Panicked
  <1>7. ResultsOfEntries'
    <2>1. DOMAIN loaded' = 1..BatchLen
      BY <1>0, <1>2
    <2>2. ASSUME NEW k \in 1..BatchLen
          PROVE  \/ loaded'[k] \in {"none", LoadResult(pos + k)}
                 \/ loaded'[k] = "read_error" /\ readErrors' > 0
      <3>1. CASE k = worker[w]
        BY <1>0, <1>2, <3>1
      <3>2. CASE k # worker[w]
        BY <1>0, <1>2, <1>5, <3>2 DEF ReplayInv, ResultsOfEntries
      <3> QED BY <3>1, <3>2
    <2>3. Panicked' => readErrors' > 0
      BY <1>0, <1>5, <1>6 DEF ReplayInv, ResultsOfEntries
    <2>4. \A k : LoadResult(pos + k)' = LoadResult(pos + k)
      BY <1>0 DEF LoadResult
    <2> QED BY <1>0, <1>1, <2>1, <2>2, <2>3, <2>4 DEF ResultsOfEntries
  <1>8. TakenAreLoaded'
    <2>1. \A v \in Workers : worker'[v] \in {Free, Over, Dead} \cup 1..BatchLen
      BY <1>0, <1>4 DEF ReplayInv, TakenAreLoaded
    <2>2. ASSUME NEW k \in 1..BatchLen, k < nextIndex
          PROVE  loaded'[k] # "none" \/ Panicked' \/ \E v \in Workers : worker'[v] = k
      <3>1. CASE k = worker[w]
        BY <1>0, <1>2, <1>3, <3>1
      <3>2. CASE k # worker[w]
        <4>1. loaded[k] # "none" \/ Panicked \/ \E v \in Workers : worker[v] = k
          BY <1>0, <2>2 DEF ReplayInv, TakenAreLoaded
        <4>2. \A v \in Workers : worker[v] = k => worker'[v] = k
          BY <1>0, <1>4, <3>2
        <4>3. loaded'[k] = loaded[k]
          BY <1>0, <1>2, <3>2
        <4> QED BY <1>6, <4>1, <4>2, <4>3
      <3> QED BY <3>1, <3>2
    <2>3. worker'[1] = Over => nextIndex > BatchLen
      <3>1. Free # Over
        BY DEF Free, Over
      <3> QED BY <1>0, <1>1, <1>4, <3>1 DEF ReplayInv, TakenAreLoaded
    <2> QED BY <1>0, <1>1, <2>1, <2>2, <2>3 DEF TakenAreLoaded
  <1> QED BY <1>0, <1>5, <1>7, <1>8, LoadingKeeps

\* A thread that panics is remembered until the batch is given up.
LEMMA PanicKeeps ==
    ASSUME ReplayInv, NEW w \in Workers, WorkerPanics(w)
    PROVE  ReplayInv'
  <1> USE ReplayBatchesAssumption
  <1>0. /\ LoadingGoesOn /\ pos \in 0..N /\ pos < N /\ pos' = pos /\ nextIndex \in Nat \ {0}
        /\ worker \in [Workers -> 0..(N + 2)] /\ doing = "loading"
        /\ readErrors \in Nat /\ block' = block /\ nextIndex' = nextIndex /\ doing' = doing
        /\ loaded' = loaded /\ readErrors' = readErrors + 1
        /\ worker' = [worker EXCEPT ![w] = Dead]
    BY DEF WorkerPanics, LoadingGoesOn, ReplayInv, ReplayTypes, ResultsOfEntries
  <1>1. BatchLen \in 1..(N - pos) /\ BatchLen' = BatchLen /\ 1 \in Workers
    BY <1>0, BatchIs DEF BatchLen
  <1>2. Panicked' /\ worker' \in [Workers -> 0..(N + 2)]
    BY <1>0 DEF Panicked, Dead
  <1>3. ResultsOfEntries'
    BY <1>0, <1>1 DEF ReplayInv, ResultsOfEntries, LoadResult
  <1>4. TakenAreLoaded'
    <2>1. Dead # Over
      BY DEF Dead, Over
    <2> QED BY <1>0, <1>1, <1>2, <2>1 DEF ReplayInv, TakenAreLoaded
  <1> QED BY <1>0, <1>2, <1>3, <1>4, LoadingKeeps

\* A load without an error has read the blocks the journal names.
LEMMA LoadedIsGood ==
    ASSUME ReplayInv, doing = "loading", Joined, LoadError = "none"
    PROVE  \A i \in Batch : block[i] = "good"
  <1> USE ReplayBatchesAssumption
  <1>1. pos \in 0..N /\ pos < N /\ DOMAIN loaded = 1..BatchLen
    BY DEF ReplayInv, ReplayTypes, ResultsOfEntries
  <1>2. BatchLen \in 1..(N - pos) /\ Batch = {pos + k : k \in 1..BatchLen}
    BY <1>1, BatchIs DEF Batch
  <1>3. ~Panicked
    BY DEF LoadError
  <1>4. \A k \in 1..BatchLen : loaded[k] # "none"
    BY <1>1, <1>3, ReplayInvSound DEF ReplayBatchesSound, EveryEntryLoaded
  <1>5. Failures = {}
    <2> SUFFICES ASSUME Failures # {} PROVE FALSE
      OBVIOUS
    <2>1. Failures \in SUBSET Nat
      BY <1>1 DEF Failures
    <2>2. Min(Failures) \in Failures
      BY <2>1, MinIs
    <2> QED BY <1>1, <1>3, <1>4, <2>2 DEF LoadError, Failures
  <1>6. \A k \in 1..BatchLen : loaded[k] = "ok"
    BY <1>1, <1>5 DEF Failures
  <1>7. ASSUME NEW k \in 1..BatchLen PROVE block[pos + k] = "good"
    <2>1. pos + k \in Entries
      BY <1>1, <1>2 DEF Entries
    <2>2. loaded[k] = LoadResult(pos + k)
      BY <1>6 DEF ReplayInv, ResultsOfEntries
    <2> QED BY <1>6, <2>1, <2>2 DEF LoadResult, ReplayInv, ReplayTypes, BlockStates
  <1> QED BY <1>2, <1>7

\* The batch the indexer is given is good, and its embeddings are published with it.
LEMMA BatchLoadedKeeps ==
    ASSUME ReplayInv, BatchLoaded
    PROVE  ReplayInv'
  <1>1. pos \in 0..N /\ pos < N /\ pos' = pos /\ block' = block
    BY DEF ReplayInv, ReplayTypes, ResultsOfEntries, BatchLoaded
  <1>2. Batch' = Batch /\ PublishedEmbeddings' = PublishedEmbeddings
    BY <1>1 DEF Batch, BatchLen, PublishedEmbeddings
  <1>3. WorksOnBatch'
    BY <1>1, <1>2, LoadedIsGood DEF BatchLoaded, WorksOnBatch
  <1> QED
    BY <1>1, <1>3
    DEF BatchLoaded, ReplayInv, ReplayTypes, GoodSoFar, ResultsOfEntries, TakenAreLoaded,
        FirstBadEntryReported, ReplaySteps

\* The error of a load in which no read failed is that of the first bad entry of
\* the whole order.
LEMMA FirstErrorIs ==
    ASSUME ReplayInv, doing = "loading", Joined, LoadError # "none", readErrors = 0,
           NEW i \in Entries, block[i] # "good", \A j \in 1..(i - 1) : block[j] = "good"
    PROVE  LoadError = block[i]
  <1> USE ReplayBatchesAssumption
  <1>1. pos \in 0..N /\ pos < N /\ DOMAIN loaded = 1..BatchLen
    BY DEF ReplayInv, ReplayTypes, ResultsOfEntries
  <1>2. BatchLen \in 1..(N - pos)
    BY <1>1, BatchIs
  <1>3. ~Panicked
    BY DEF ReplayInv, ResultsOfEntries
  <1>4. \A k \in 1..BatchLen : loaded[k] # "none"
    BY <1>1, <1>3, ReplayInvSound DEF ReplayBatchesSound, EveryEntryLoaded
  <1>5. \A k \in 1..BatchLen : loaded[k] = LoadResult(pos + k)
    BY <1>4 DEF ReplayInv, ResultsOfEntries
  <1>6. Failures \in SUBSET Nat /\ Failures # {} /\ LoadError = loaded[Min(Failures)]
    BY <1>1, <1>3 DEF LoadError, Failures
  <1>7. PICK m : m = Min(Failures)
    OBVIOUS
  <1>8. m \in Failures /\ \A k \in Failures : m <= k
    BY <1>6, <1>7, MinIs
  <1>9. m \in 1..BatchLen /\ loaded[m] # "ok" /\ \A k \in 1..(m - 1) : loaded[k] = "ok"
    <2>1. m \in 1..BatchLen /\ loaded[m] # "ok"
      BY <1>1, <1>8 DEF Failures
    <2>2. ASSUME NEW k \in 1..(m - 1) PROVE loaded[k] = "ok"
      <3>1. k \in 1..BatchLen /\ ~(m <= k)
        BY <1>2, <2>1
      <3> QED BY <1>1, <1>8, <3>1 DEF Failures
    <2> QED BY <2>1, <2>2
  <1>10. \A k \in 1..BatchLen : pos + k \in Entries /\ (loaded[k] = "ok" <=> block[pos + k] = "good")
    <2> SUFFICES ASSUME NEW k \in 1..BatchLen
                 PROVE  pos + k \in Entries /\ (loaded[k] = "ok" <=> block[pos + k] = "good")
      OBVIOUS
    <2>1. pos + k \in Entries
      BY <1>1, <1>2 DEF Entries
    <2> QED BY <1>5, <2>1 DEF LoadResult, ReplayInv, ReplayTypes, BlockStates
  <1>11. \A j \in 1..pos : block[j] = "good"
    BY DEF ReplayInv, GoodSoFar
  <1>12. block[pos + m] # "good"
    BY <1>9, <1>10
  <1>13. \A j \in 1..(pos + m - 1) : block[j] = "good"
    <2> SUFFICES ASSUME NEW j \in 1..(pos + m - 1), ~(j <= pos) PROVE block[j] = "good"
      BY <1>1, <1>9, <1>11
    <2>1. j - pos \in 1..(m - 1) /\ j - pos \in 1..BatchLen /\ pos + (j - pos) = j
      BY <1>1, <1>2, <1>9
    <2> QED BY <1>9, <1>10, <2>1
  <1>14. i = pos + m
    <2>1. ~(i < pos + m)
      BY <1>1, <1>9, <1>13 DEF Entries
    <2>2. ~(pos + m < i)
      BY <1>1, <1>9, <1>12 DEF Entries
    <2> QED BY <1>1, <1>9, <2>1, <2>2 DEF Entries
  <1> QED BY <1>5, <1>6, <1>7, <1>9, <1>12, <1>14 DEF LoadResult

\* A stage that ends with a load's error has reported the first bad entry.
LEMMA BatchFailsKeeps ==
    ASSUME ReplayInv, BatchFails
    PROVE  ReplayInv'
  <1>1. /\ doing = "loading" /\ Joined /\ LoadError # "none" /\ doing' = "ended"
        /\ UNCHANGED <<block, phase, pos, nextIndex, worker, readErrors>>
        /\ stageResult' = LoadError \/ stageResult' \in {"panic", "clustering_error"}
    BY DEF BatchFails, End, ReplayInv, ReplayTypes
  <1>2. FirstBadEntryReported'
    <2> SUFFICES ASSUME NEW i \in Entries, stageResult' \in BlockStates, readErrors = 0,
                        block[i] # "good", \A j \in 1..(i - 1) : block[j] = "good"
                 PROVE  stageResult' = block[i]
      BY <1>1 DEF FirstBadEntryReported
    <2>1. stageResult' = LoadError
      BY <1>1 DEF BlockStates
    <2> QED BY <1>1, <2>1, FirstErrorIs
  <1>3. stageResult' # "none"
    BY <1>1
  <1> QED
    BY <1>1, <1>2, <1>3
    DEF ReplayInv, ReplayTypes, GoodSoFar, ResultsOfEntries, TakenAreLoaded, WorksOnBatch, ReplaySteps

\* A batch that was worked on is good and done.
LEMMA BatchTakenKeeps ==
    ASSUME ReplayInv, BatchTaken
    PROVE  ReplayInv'
  <1> USE ReplayBatchesAssumption
  <1>1. pos \in 0..N /\ pos < N /\ \A i \in Batch : block[i] = "good"
    BY DEF ReplayInv, ReplayTypes, WorksOnBatch, BatchTaken
  <1>2. BatchLen \in 1..(N - pos) /\ Batch = (pos + 1)..(pos + BatchLen)
    BY <1>1, BatchIs
  <1>3. pos' = pos + BatchLen /\ pos' \in 0..N
    BY <1>1, <1>2 DEF BatchTaken
  <1>4. GoodSoFar'
    <2> SUFFICES ASSUME NEW j \in 1..pos' PROVE block[j] = "good"
      BY DEF GoodSoFar, BatchTaken
    <2>1. j \in 1..pos \/ j \in Batch
      BY <1>1, <1>2, <1>3
    <2> QED BY <1>1, <2>1 DEF ReplayInv, GoodSoFar
  <1>5. ReplayTypes'
    BY <1>3 DEF ReplayInv, ReplayTypes, BatchTaken, ReplaySteps
  <1> QED BY <1>4, <1>5, ElsewhereKeeps DEF BatchTaken

\* Everything else happens between the batches.
LEMMA BetweenKeeps ==
    ASSUME ReplayInv,
           \/ IndexerFails \/ EndOfOrder \/ PlanningDone \/ PlanningFails \/ FallbackLookup
           \/ DiagnosticsDone
    PROVE  ReplayInv'
  <1> USE ReplayBatchesAssumption
  <1>1. /\ UNCHANGED <<block, nextIndex, worker>> /\ phase' \in {"ingest", "finalize", "diagnose"}
        /\ pos' = pos \/ pos' = 0
    BY DEF ReplayInv, ReplayTypes, IndexerFails, EndOfOrder, PlanningDone, PlanningFails,
           FallbackLookup, DiagnosticsDone, Diagnose
  <1>2. doing' \in ReplaySteps \ {"loading", "working"} /\ readErrors' \in Nat
    <2>1. readErrors \in Nat
      BY DEF ReplayInv, ReplayTypes
    <2>2. CASE IndexerFails \/ PlanningFails
      BY <2>1, <2>2 DEF IndexerFails, PlanningFails, Diagnose, End, ReplaySteps
    <2>3. CASE EndOfOrder \/ PlanningDone
      BY <2>1, <2>3 DEF ReplayInv, ReplayTypes, EndOfOrder, PlanningDone, End, ReplaySteps
    <2>4. CASE FallbackLookup \/ DiagnosticsDone
      BY <2>1, <2>4 DEF FallbackLookup, DiagnosticsDone, End, ReplaySteps
    <2> QED BY <2>2, <2>3, <2>4
  <1>3. /\ doing' = "ended" <=> stageResult' # "none"
        /\ UNCHANGED <<readErrors, stageResult>> \/ stageResult' \notin BlockStates
    BY DEF ReplayInv, ReplayTypes, IndexerFails, EndOfOrder, PlanningDone, PlanningFails,
           FallbackLookup, DiagnosticsDone, Diagnose, End, BlockStates
  <1>4. ReplayTypes'
    BY <1>1, <1>2, <1>3 DEF ReplayInv, ReplayTypes
  <1>5. GoodSoFar'
    BY <1>1 DEF ReplayInv, GoodSoFar
  <1> QED BY <1>1, <1>2, <1>3, <1>4, <1>5, ElsewhereKeeps

\* ReplayBatchesSound for every replay order, batch size and number of threads, and
\* whatever blocks are missing, wrong or cannot be read: a batch is handed on only
\* when every block is the one the journal names, the indexer finds the embeddings
\* of its batch and no others, and the first bad entry is the one reported
\* (load_replay_batch_entries_in_parallel, publish_batch_embeddings).
THEOREM ReplayBatchesSafe == ReplaySpec => []ReplayBatchesSound
  <1>1. ReplayInit => ReplayInv
    BY ReplayInitInv
  <1>2. ReplayInv /\ [ReplayNext]_replayVars => ReplayInv'
    <2> SUFFICES ASSUME ReplayInv, [ReplayNext]_replayVars PROVE ReplayInv'
      OBVIOUS
    <2>1. CASE \E w \in Workers : WorkerStep(w)
      BY <2>1, TakeKeeps, LoadKeeps, PanicKeeps DEF WorkerStep
    <2>2. CASE UNCHANGED replayVars
      <3>1. BatchLen' = BatchLen /\ Batch' = Batch /\ PublishedEmbeddings' = PublishedEmbeddings
        BY <2>2 DEF replayVars, BatchLen, Batch, PublishedEmbeddings
      <3>2. (ReplayTypes /\ GoodSoFar /\ FirstBadEntryReported)'
        BY <2>2 DEF replayVars, ReplayInv, ReplayTypes, GoodSoFar, FirstBadEntryReported
      <3>3. (ResultsOfEntries /\ TakenAreLoaded)'
        BY <2>2, <3>1
        DEF replayVars, ReplayInv, ResultsOfEntries, TakenAreLoaded, Panicked, LoadResult
      <3>4. WorksOnBatch'
        BY <2>2, <3>1 DEF replayVars, ReplayInv, WorksOnBatch
      <3> QED BY <3>2, <3>3, <3>4 DEF ReplayInv
    <2> QED
      BY <2>1, <2>2, NextBatchKeeps, BatchLoadedKeeps, BatchFailsKeeps, BatchTakenKeeps,
         BetweenKeeps
      DEF ReplayNext
  <1>3. ReplayInv => ReplayBatchesSound
    BY ReplayInvSound
  <1> QED BY <1>1, <1>2, <1>3, PTL DEF ReplaySpec

-----------------------------------------------------------------------------
(* The start of the gateway. *)

\* Once the arguments are read the configuration is the one they and the environment
\* give; a store is only built from a configuration that was found valid.
StartInv ==
    /\ args \in Args /\ env \in EnvVariables
    /\ stage \in {"arguments", "configured", "validated", "built", "serving", "rejected"}
    /\ stage = "arguments" => config = NoConfig /\ layers = <<>>
    /\ stage # "arguments" => config = ConfigFromArgs
    /\ stage \in {"validated", "built", "serving"} => ValidStorageProfile(config)
    /\ layers # <<>> => stage # "arguments" /\ ValidStorageProfile(config) /\ layers = LayersOf(config)

\* What a profile's builder unwraps was found present by the validation.
LEMMA UnwrappedIsThere ==
    ASSUME args \in Args, env \in EnvVariables, ValidStorageProfile(ConfigFromArgs)
    PROVE  \A i \in DOMAIN Unwrapped(ConfigFromArgs) : Unwrapped(ConfigFromArgs)[i] \in {"set", "positive"}
  <1>1. args.profile \in Profiles /\ args.sas \in Texts /\ env.sas \in Texts
    BY DEF Args, EnvVariables
  <1>2. ConfigFromArgs.profile = args.profile
    BY DEF ConfigFromArgs
  <1>3. args.profile \in Remote => ConfigFromArgs.sas = "set"
    BY <1>1, <1>2 DEF ConfigFromArgs, ValidStorageProfile, UnwrapOrDefault, OrElse, Texts
  <1>4. CASE args.profile = "local-redb"
    <2>1. Unwrapped(ConfigFromArgs) = <<ConfigFromArgs.root>>
      BY <1>2, <1>4 DEF Unwrapped
    <2>2. ConfigFromArgs.root = "set"
      BY <1>2, <1>4 DEF ValidStorageProfile
    <2> QED BY <2>1, <2>2
  <1>5. CASE args.profile = "production"
    <2>1. Unwrapped(ConfigFromArgs) = <<ConfigFromArgs.sas, ConfigFromArgs.memory, ConfigFromArgs.cache>>
      BY <1>2, <1>5 DEF Unwrapped
    <2>2. ConfigFromArgs.cache = "set" /\ ConfigFromArgs.memory = "positive"
      BY <1>2, <1>5 DEF ValidStorageProfile
    <2> QED BY <1>3, <1>5, <2>1, <2>2 DEF Remote
  <1>6. CASE args.profile = "production-v2"
    <2>1. Unwrapped(ConfigFromArgs) = <<ConfigFromArgs.sas>>
      BY <1>2, <1>6 DEF Unwrapped
    <2> QED BY <1>3, <1>6, <2>1 DEF Remote
  <1> QED BY <1>1, <1>4, <1>5, <1>6 DEF Profiles

\* Whatever the arguments and the environment are, the gateway that comes up is the one
\* they describe, and what validates is built without a failing unwrap
\* (gateway_config_from_args_with_env, validate_storage_profile_config, build_store).
THEOREM GatewayStartSafe == StartSpec => []GatewayStartSound
  <1>1. StartInit => StartInv
    <2> SUFFICES ASSUME StartInit PROVE StartInv
      OBVIOUS
    <2> QED BY DEF StartInit, StartWith, StartInv
  <1>2. StartInv /\ [StartNext]_startVars => StartInv'
    <2> SUFFICES ASSUME StartInv, [StartNext]_startVars PROVE StartInv'
      OBVIOUS
    <2> USE DEF StartInv
    <2>1. CASE ReadArguments
      <3>1. config' = ConfigFromArgs /\ UNCHANGED <<args, env, layers>> /\ layers = <<>>
        BY <2>1 DEF ReadArguments, Reject
      <3>2. stage' \in {"rejected", "configured"}
        BY <2>1 DEF ReadArguments, Reject
      <3>3. ConfigFromArgs' = ConfigFromArgs
        BY <3>1 DEF ConfigFromArgs
      <3> QED BY <3>1, <3>2, <3>3
    <2>2. CASE ValidateConfig
      <3>1. UNCHANGED <<args, env, layers, config>> /\ stage = "configured"
        BY <2>2 DEF ValidateConfig, Reject
      <3>2. stage' = "rejected" \/ (stage' = "validated" /\ ValidStorageProfile(config))
        BY <2>2 DEF ValidateConfig, Reject
      <3>3. ConfigFromArgs' = ConfigFromArgs /\ ValidStorageProfile(config)' = ValidStorageProfile(config)
            /\ LayersOf(config)' = LayersOf(config)
        BY <3>1 DEF ConfigFromArgs, ValidStorageProfile, LayersOf
      <3> QED BY <3>1, <3>2, <3>3
    <2>3. CASE BuildStore
      <3>1. UNCHANGED <<args, env, config>> /\ stage = "validated" /\ config = ConfigFromArgs
        BY <2>3 DEF BuildStore
      <3>2. ~\E i \in DOMAIN Unwrapped(config) : Unwrapped(config)[i] = "absent"
        BY <3>1, UnwrappedIsThere
      <3>3. stage' \in {"built", "rejected"} /\ layers' \in {layers, LayersOf(config)}
        BY <2>3, <3>2 DEF BuildStore
      <3>4. ConfigFromArgs' = ConfigFromArgs /\ ValidStorageProfile(config)' = ValidStorageProfile(config)
            /\ LayersOf(config)' = LayersOf(config)
        BY <3>1 DEF ConfigFromArgs, ValidStorageProfile, LayersOf
      <3> QED BY <3>1, <3>3, <3>4
    <2>4. CASE Bind
      <3>1. UNCHANGED <<args, env, config, layers>> /\ stage = "built" /\ stage' \in {"serving", "rejected"}
        BY <2>4 DEF Bind
      <3>2. ConfigFromArgs' = ConfigFromArgs /\ ValidStorageProfile(config)' = ValidStorageProfile(config)
            /\ LayersOf(config)' = LayersOf(config)
        BY <3>1 DEF ConfigFromArgs, ValidStorageProfile, LayersOf
      <3> QED BY <3>1, <3>2
    <2>5. CASE UNCHANGED startVars
      BY <2>5 DEF startVars, ConfigFromArgs, ValidStorageProfile, LayersOf
    <2> QED BY <2>1, <2>2, <2>3, <2>4, <2>5 DEF StartNext
  <1>3. StartInv => GatewayStartSound
    <2> SUFFICES ASSUME StartInv PROVE GatewayStartSound
      OBVIOUS
    <2>1. ValidatedIsBuildable
      <3>1. stage # "panicked"
        BY DEF StartInv
      <3>2. layers # <<>> => config = ConfigFromArgs /\ ValidStorageProfile(ConfigFromArgs)
        BY DEF StartInv
      <3> QED BY <3>1, <3>2, UnwrappedIsThere DEF ValidatedIsBuildable, StartInv
    <2>2. LocalIgnoresEnvironment
      <3>1. CASE stage = "arguments"
        BY <3>1 DEF StartInv, LocalIgnoresEnvironment, NoConfig
      <3>2. CASE stage # "arguments"
        BY <3>2 DEF StartInv, LocalIgnoresEnvironment, ConfigFromArgs, Remote, UnwrapOrDefault, OrElse
      <3> QED BY <3>1, <3>2
    <2>3. config # NoConfig => \A f \in {"sas", "cache", "memory", "prefix"} :
                                  args[f] # "absent" => config[f] = args[f]
      <3> SUFFICES ASSUME config # NoConfig
                   PROVE  /\ args.sas # "absent" => config.sas = args.sas
                          /\ args.cache # "absent" => config.cache = args.cache
                          /\ args.memory # "absent" => config.memory = args.memory
                          /\ args.prefix # "absent" => config.prefix = args.prefix
        OBVIOUS
      <3>1. config = ConfigFromArgs
        BY DEF StartInv
      <3> QED BY <3>1 DEF ConfigFromArgs, UnwrapOrDefault, OrElse
    <2>4. \A i \in DOMAIN layers : layers[i] = "azure_table" => i = Len(layers)
      <3>1. CASE layers = <<>>
        BY <3>1
      <3>2. CASE layers # <<>>
        <4>1. config.profile = args.profile /\ args.profile \in Profiles /\ layers = LayersOf(config)
          BY <3>2 DEF StartInv, ConfigFromArgs, Args
        <4>2. layers \in {<<"redb">>, <<"memory", "filesystem", "azure_table">>, <<"azure_table">>}
          BY <4>1 DEF LayersOf, Profiles
        <4>3. CASE layers = <<"redb">>
          BY <4>3
        <4>4. CASE layers = <<"memory", "filesystem", "azure_table">>
          BY <4>4
        <4>5. CASE layers = <<"azure_table">>
          BY <4>5
        <4> QED BY <4>2, <4>3, <4>4, <4>5
      <3> QED BY <3>1, <3>2
    <2> QED BY <2>1, <2>2, <2>3, <2>4 DEF GatewayStartSound, ArgumentsWin
  <1> QED BY <1>1, <1>2, <1>3, PTL DEF StartSpec

-----------------------------------------------------------------------------
(* A command and Ctrl-C. *)

Steps == {"start", "configure", "configure-dest", "provider", "operate", "check", "write", "ended"}
Exits == {"none", "error", "success", "findings", "failures", "forced", "killed",
          "panic-source", "panic-dest"}

CliTypes ==
    /\ command \in Commands /\ step \in Steps /\ exit \in Exits
    /\ armed \in BOOLEAN /\ flag \in BOOLEAN /\ signals \in Nat
    /\ (exit = "none") <=> (step # "ended")
    /\ step = "configure-dest" => command.name = "copy"

\* While the command runs Ctrl-C came at most once, and then the handler took it; what
\* holds a store open has the handler, a validation apart.
SignalsHandled ==
    /\ flag => armed
    /\ exit = "none" => (flag <=> signals # 0) /\ signals <= 1
    /\ step = "start" => open = {} /\ ~armed
    /\ exit = "none" /\ step # "start" => armed = UsesDirectLocalRedb
    /\ open # {} => command.source = "local-redb" \/ command.dest = "local-redb"

\* A command that gets to its report has done its work, or will still look at the interrupt.
WorkBeforeReport ==
    /\ step \in {"start", "configure", "configure-dest", "provider", "operate"} => work = "none"
    /\ step = "check" => work = "all" \/ flag
    /\ step = "write" => work = "all"
    /\ exit \notin {"success", "findings", "failures"} => onDisk = "none"

\* Only an assessment and a copy have something bad to report.
BadOutcomes == outcome \in {"clean", "bad"} /\ (outcome = "bad" => command.name \in {"quality", "copy"})

CliInv == CliTypes /\ SignalsHandled /\ WorkBeforeReport /\ BadOutcomes /\ CommandSound

\* What the argument parser requires with a profile that is given is all that is unwrapped.
LEMMA RequiredIsConfigured ==
    ASSUME NEW side, NEW profile \in Readable, NEW o \in Options, RequiredByClap(side, profile, o),
           side \notin command.defaulted
    PROVE  ConfiguredStore(profile, o) # "panic"
  BY DEF RequiredByClap, ConfiguredStore, Readable, Options

\* Only the profile local-redb opens a direct local-redb store.
LEMMA OnlyRedbOpensRedb ==
    ASSUME NEW profile \in Readable, NEW o \in Options, ConfiguredStore(profile, o) = "local-redb"
    PROVE  profile = "local-redb"
  BY DEF ConfiguredStore, Readable

\* A store is opened, or the command ends with nothing open: with an error, or at an
\* expect for a profile that was left to its default.
LEMMA ConfigureIs ==
    ASSUME NEW side, NEW profile \in Readable, NEW next, Configure(side, profile, next)
    PROVE  \/ step' = next /\ exit' = exit /\ (open' = open \/ profile = "local-redb")
           \/ step' = "ended" /\ exit' = "error" /\ open' = {}
           \/ step' = "ended" /\ exit' = PanicAt[side] /\ open' = {} /\ side \in command.defaulted
  <1>1. PICK o \in Options :
            /\ command.name \notin {"run", "validate"} => RequiredByClap(side, profile, o)
            /\ command.name \in {"run", "validate"} => ConfiguredStore(profile, o) # "panic"
            /\ LET store == ConfiguredStore(profile, o) IN
               \/ /\ store \notin {"panic", "error"}
                  /\ open' = open \cup (IF store = "local-redb" THEN {side} ELSE {})
                  /\ step' = next
                  /\ UNCHANGED exit
               \/ Leave(IF store = "panic" THEN PanicAt[side] ELSE "error")
    BY DEF Configure
  <1>2. ConfiguredStore(profile, o) = "panic" => side \in command.defaulted
    BY <1>1, RequiredIsConfigured
  <1>6. CASE ConfiguredStore(profile, o) = "panic" /\ Leave(PanicAt[side])
    BY <1>2, <1>6 DEF Leave
  <1>3. CASE Leave("error")
    BY <1>3 DEF Leave
  <1>4. CASE ConfiguredStore(profile, o) = "local-redb" /\ step' = next /\ UNCHANGED exit
    BY <1>4, OnlyRedbOpensRedb
  <1>5. CASE open' = open \cup {} /\ step' = next /\ UNCHANGED exit
    BY <1>5
  <1> QED BY <1>1, <1>3, <1>4, <1>5, <1>6

\* The stores a command may name.
LEMMA CommandsAre ==
    ASSUME NEW c \in Commands
    PROVE  /\ c.name \in Kinds /\ c.source \in Readable
           /\ c.name = "copy" => c.dest \in Readable
           /\ c.dest = "local-redb" => c.name = "copy"
  BY DEF Commands, Writable, Readable

\* Ending by an error or a permitted panic keeps the invariant, whatever was done of
\* the work before.
LEMMA EndKeeps ==
    ASSUME CliInv, step' = "ended", exit' \in {"error", "panic-source", "panic-dest"},
           OnlyADefaultPanics', open' = {}, BadOutcomes',
           UNCHANGED <<command, signals, flag, onDisk>>, armed' \in BOOLEAN, flag => armed', exit = "none"
    PROVE  CliInv'
  <1>1. onDisk = "none"
    BY DEF CliInv, WorkBeforeReport
  <1>2. CliTypes' /\ SignalsHandled'
    BY DEF CliInv, CliTypes, SignalsHandled, Steps, Exits
  <1>3. WorkBeforeReport' /\ CommandSound'
    BY <1>1 DEF WorkBeforeReport, CommandSound, NoSuccessForAbandonedWork, OneInterruptClosesStores,
       CodeMatchesReport
  <1> QED BY <1>2, <1>3 DEF CliInv

\* An error is no panic.
LEMMA ErrorKeeps ==
    ASSUME CliInv, step' = "ended", exit' = "error", open' = {}, BadOutcomes',
           UNCHANGED <<command, signals, flag, onDisk>>, armed' \in BOOLEAN, flag => armed', exit = "none"
    PROVE  CliInv'
  <1>1. OnlyADefaultPanics'
    BY DEF OnlyADefaultPanics, PanicAt
  <1> QED BY <1>1, EndKeeps

\* A panic at a defaulted side, before any work.
LEMMA DefaultPanicKeeps ==
    ASSUME NEW where \in {"source", "dest"}, CliInv, where \in command.defaulted, work = "none",
           step' = "ended", exit' = PanicAt[where], open' = {},
           UNCHANGED <<command, armed, signals, flag, work, outcome, onDisk>>, exit = "none"
    PROVE  CliInv'
  <1>1. exit' \in {"panic-source", "panic-dest"}
    BY DEF PanicAt
  <1>2. onDisk = "none" /\ armed' \in BOOLEAN /\ (flag => armed') /\ BadOutcomes'
    BY DEF CliInv, WorkBeforeReport, CliTypes, SignalsHandled, BadOutcomes
  <1>3. OnlyADefaultPanics'
    BY <1>2 DEF OnlyADefaultPanics, PanicAt
  <1>4. exit' \in {"error", "panic-source", "panic-dest"} /\ UNCHANGED <<command, signals, flag, onDisk>>
    BY <1>1
  <1> QED BY <1>2, <1>3, <1>4, EndKeeps

\* A step of main that goes on keeps it.
LEMMA GoingOnKeeps ==
    ASSUME CliInv, CliTypes', SignalsHandled', WorkBeforeReport', BadOutcomes', exit' = "none"
    PROVE  CliInv'
  BY DEF CliInv, WorkBeforeReport, CommandSound, NoSuccessForAbandonedWork, OneInterruptClosesStores,
     CodeMatchesReport, OnlyADefaultPanics, PanicAt

\* Wherever Ctrl-C falls, the report, the exit code and the stores left behind tell one
\* story, for every command, profile and set of arguments (main, interrupt.rs).
THEOREM CommandSafe == CliSpec => []CommandSound
  <1>1. CliInit => CliInv
    <2> SUFFICES ASSUME NEW parsed \in Commands, CliStart(parsed) PROVE CliInv
      BY DEF CliInit
    <2>1. CliTypes
      BY DEF CliStart, CliTypes, Steps, Exits
    <2>3. SignalsHandled
      BY DEF CliStart, SignalsHandled
    <2>2. WorkBeforeReport /\ BadOutcomes /\ CommandSound
      BY DEF CliStart, WorkBeforeReport, BadOutcomes, CommandSound, NoSuccessForAbandonedWork,
         OneInterruptClosesStores, CodeMatchesReport, OnlyADefaultPanics, PanicAt
    <2> QED BY <2>1, <2>2, <2>3 DEF CliInv
  <1>2. CliInv /\ [CliNext]_cliVars => CliInv'
    <2> SUFFICES ASSUME CliInv, [CliNext]_cliVars PROVE CliInv'
      OBVIOUS
    <2>a. CliTypes /\ SignalsHandled /\ WorkBeforeReport /\ BadOutcomes
      BY DEF CliInv
    <2>1. CASE Start
      <3>1. UNCHANGED <<command, signals, flag, work, outcome, onDisk>> /\ step = "start" /\ exit = "none"
        BY <2>1, <2>a DEF Start, CliTypes
      <3>b. BadOutcomes'
        BY <2>a, <3>1 DEF BadOutcomes
      <3>2. CASE Leave("error") /\ UNCHANGED armed
        BY <2>a, <3>1, <3>b, <3>2, ErrorKeeps DEF Leave, CliTypes, SignalsHandled
      <3>3. CASE armed' = UsesDirectLocalRedb /\ step' = "configure" /\ UNCHANGED <<open, exit>>
        <4>1. CliTypes' /\ WorkBeforeReport'
          BY <2>a, <3>1, <3>3 DEF CliTypes, WorkBeforeReport, Steps, UsesDirectLocalRedb
        <4>2. SignalsHandled'
          <5>1. UsesDirectLocalRedb' = UsesDirectLocalRedb
            BY <3>1 DEF UsesDirectLocalRedb
          <5>2. ~flag
            BY <2>a, <3>1, <3>3 DEF SignalsHandled
          <5> QED BY <2>a, <3>1, <3>3, <5>1, <5>2 DEF SignalsHandled
        <4> QED BY <3>1, <3>3, <3>b, <4>1, <4>2, GoingOnKeeps
      <3> QED BY <2>1, <3>2, <3>3 DEF Start
    <2>2. CASE ConfigureSource
      <3> DEFINE next == CASE command.name = "copy" -> "configure-dest"
                           [] command.name = "search" -> "provider"
                           [] OTHER -> "operate"
      <3>1. /\ UNCHANGED <<command, armed, signals, flag, work, outcome, onDisk>>
            /\ step = "configure" /\ exit = "none"
        BY <2>2, <2>a DEF ConfigureSource, CliTypes
      <3>2. command.source \in Readable
        BY <2>a, CommandsAre DEF CliTypes
      <3>3. Configure("source", command.source, next)
        BY <2>2 DEF ConfigureSource
      <3>4. next \in {"configure-dest", "provider", "operate"} /\ (next = "configure-dest" => command.name = "copy")
        OBVIOUS
      <3> HIDE DEF next
      <3>5. \/ step' = next /\ exit' = exit /\ (open' = open \/ command.source = "local-redb")
            \/ step' = "ended" /\ exit' = "error" /\ open' = {}
            \/ /\ step' = "ended" /\ exit' = PanicAt["source"] /\ open' = {}
               /\ "source" \in command.defaulted
        BY <3>2, <3>3, ConfigureIs
      <3>6. BadOutcomes'
        BY <2>a, <3>1 DEF BadOutcomes
      <3>7. CASE step' = "ended" /\ exit' = "error" /\ open' = {}
        BY <2>a, <3>1, <3>6, <3>7, ErrorKeeps DEF CliTypes, SignalsHandled
      <3>9. CASE /\ step' = "ended" /\ exit' = PanicAt["source"] /\ open' = {}
                 /\ "source" \in command.defaulted
        <4>1. work = "none" /\ "source" \in {"source", "dest"}
          BY <2>a, <3>1 DEF WorkBeforeReport
        <4> QED BY <3>1, <3>9, <4>1, DefaultPanicKeeps
      <3>8. CASE step' = next /\ exit' = exit /\ (open' = open \/ command.source = "local-redb")
        <4>1. CliTypes'
          BY <2>a, <3>1, <3>4, <3>8 DEF CliTypes, Steps
        <4>2. UsesDirectLocalRedb' = UsesDirectLocalRedb
          BY <3>1 DEF UsesDirectLocalRedb
        <4>3. SignalsHandled'
          BY <2>a, <3>1, <3>4, <3>8, <4>2 DEF SignalsHandled
        <4>4. WorkBeforeReport'
          BY <2>a, <3>1, <3>4, <3>8 DEF WorkBeforeReport
        <4> QED BY <3>1, <3>6, <3>8, <4>1, <4>3, <4>4, GoingOnKeeps
      <3> QED BY <3>5, <3>7, <3>8, <3>9
    <2>3. CASE ConfigureDestination
      <3>1. /\ UNCHANGED <<command, armed, signals, flag, work, outcome, onDisk>>
            /\ step = "configure-dest" /\ exit = "none"
        BY <2>3, <2>a DEF ConfigureDestination, CliTypes
      <3>2. command.dest \in Readable
        BY <2>a, <3>1, CommandsAre DEF CliTypes
      <3>3. Configure("dest", command.dest, "operate")
        BY <2>3 DEF ConfigureDestination
      <3>5. \/ step' = "operate" /\ exit' = exit /\ (open' = open \/ command.dest = "local-redb")
            \/ step' = "ended" /\ exit' = "error" /\ open' = {}
            \/ /\ step' = "ended" /\ exit' = PanicAt["dest"] /\ open' = {}
               /\ "dest" \in command.defaulted
        BY <3>2, <3>3, ConfigureIs
      <3>6. BadOutcomes'
        BY <2>a, <3>1 DEF BadOutcomes
      <3>7. CASE step' = "ended" /\ exit' = "error" /\ open' = {}
        BY <2>a, <3>1, <3>6, <3>7, ErrorKeeps DEF CliTypes, SignalsHandled
      <3>9. CASE /\ step' = "ended" /\ exit' = PanicAt["dest"] /\ open' = {}
                 /\ "dest" \in command.defaulted
        <4>1. work = "none" /\ "dest" \in {"source", "dest"}
          BY <2>a, <3>1 DEF WorkBeforeReport
        <4> QED BY <3>1, <3>9, <4>1, DefaultPanicKeeps
      <3>8. CASE step' = "operate" /\ exit' = exit /\ (open' = open \/ command.dest = "local-redb")
        <4>1. CliTypes'
          BY <2>a, <3>1, <3>8 DEF CliTypes, Steps
        <4>2. UsesDirectLocalRedb' = UsesDirectLocalRedb
          BY <3>1 DEF UsesDirectLocalRedb
        <4>3. SignalsHandled'
          BY <2>a, <3>1, <3>8, <4>2 DEF SignalsHandled
        <4>4. WorkBeforeReport'
          BY <2>a, <3>1, <3>8 DEF WorkBeforeReport
        <4> QED BY <3>1, <3>6, <3>8, <4>1, <4>3, <4>4, GoingOnKeeps
      <3> QED BY <3>5, <3>7, <3>8, <3>9
    <2>4. CASE ConfigureProvider
      <3>1. /\ UNCHANGED <<command, armed, signals, flag, work, outcome, onDisk>>
            /\ step = "provider" /\ exit = "none"
        BY <2>4, <2>a DEF ConfigureProvider, CliTypes
      <3>5. (step' = "operate" /\ UNCHANGED <<open, exit>>) \/ Leave("error")
        BY <2>4 DEF ConfigureProvider
      <3>6. BadOutcomes'
        BY <2>a, <3>1 DEF BadOutcomes
      <3>7. CASE Leave("error")
        BY <2>a, <3>1, <3>6, <3>7, ErrorKeeps DEF Leave, CliTypes, SignalsHandled
      <3>8. CASE step' = "operate" /\ UNCHANGED <<open, exit>>
        <4>1. CliTypes'
          BY <2>a, <3>1, <3>8 DEF CliTypes, Steps
        <4>2. UsesDirectLocalRedb' = UsesDirectLocalRedb
          BY <3>1 DEF UsesDirectLocalRedb
        <4>3. SignalsHandled'
          BY <2>a, <3>1, <3>8, <4>2 DEF SignalsHandled
        <4>4. WorkBeforeReport'
          BY <2>a, <3>1, <3>8 DEF WorkBeforeReport
        <4> QED BY <3>1, <3>6, <3>8, <4>1, <4>3, <4>4, GoingOnKeeps
      <3> QED BY <3>5, <3>7, <3>8
    <2>5. CASE Operate
      <3>1. /\ UNCHANGED <<command, armed, signals, flag, onDisk>>
            /\ step = "operate" /\ exit = "none"
        BY <2>5, <2>a DEF Operate, CliTypes
      <3>2. BadOutcomes'
        BY <2>a, <2>5, <3>1 DEF BadOutcomes, Operate, Completed, StoppedCopy, StoppedOther, Failed, Outcomes
      <3>3. CASE StoppedOther \/ Failed
        BY <2>a, <3>1, <3>2, <3>3, ErrorKeeps DEF StoppedOther, Failed, Leave, CliTypes, SignalsHandled
      <3>4. CASE Completed \/ StoppedCopy
        <4>1. /\ UNCHANGED <<open, exit>>
              /\ \/ step' \in {"write", "check"} /\ work' = "all"
                 \/ step' = "check" /\ flag
          BY <3>4 DEF Completed, StoppedCopy
        <4>2. CliTypes'
          BY <2>a, <3>1, <4>1 DEF CliTypes, Steps
        <4>3. UsesDirectLocalRedb' = UsesDirectLocalRedb
          BY <3>1 DEF UsesDirectLocalRedb
        <4>4. SignalsHandled'
          BY <2>a, <3>1, <4>1, <4>3 DEF SignalsHandled
        <4>5. WorkBeforeReport'
          BY <2>a, <3>1, <4>1 DEF WorkBeforeReport
        <4> QED BY <3>1, <3>2, <4>1, <4>2, <4>4, <4>5, GoingOnKeeps
      <3> QED BY <2>5, <3>3, <3>4 DEF Operate
    <2>6. CASE CheckForInterrupt
      <3>1. /\ UNCHANGED <<command, armed, signals, flag, work, outcome, onDisk>>
            /\ step = "check" /\ exit = "none"
        BY <2>6, <2>a DEF CheckForInterrupt, CliTypes
      <3>2. BadOutcomes'
        BY <2>a, <3>1 DEF BadOutcomes
      <3>3. CASE flag
        BY <2>a, <2>6, <3>1, <3>2, <3>3, ErrorKeeps DEF CheckForInterrupt, Leave, CliTypes, SignalsHandled
      <3>4. CASE ~flag
        <4>1. step' = "write" /\ UNCHANGED <<open, exit>> /\ work = "all"
          BY <2>6, <2>a, <3>1, <3>4 DEF CheckForInterrupt, WorkBeforeReport
        <4>2. CliTypes'
          BY <2>a, <3>1, <4>1 DEF CliTypes, Steps
        <4>3. UsesDirectLocalRedb' = UsesDirectLocalRedb
          BY <3>1 DEF UsesDirectLocalRedb
        <4>4. SignalsHandled'
          BY <2>a, <3>1, <4>1, <4>3 DEF SignalsHandled
        <4>5. WorkBeforeReport'
          BY <2>a, <3>1, <4>1 DEF WorkBeforeReport
        <4> QED BY <3>1, <3>2, <4>1, <4>2, <4>4, <4>5, GoingOnKeeps
      <3> QED BY <3>3, <3>4
    <2>7. CASE WriteAndExit
      <3>1. /\ UNCHANGED <<command, armed, signals, flag, work, outcome>>
            /\ step = "write" /\ exit = "none" /\ work = "all"
        BY <2>7, <2>a DEF WriteAndExit, CliTypes, WorkBeforeReport
      <3>2. BadOutcomes'
        BY <2>a, <3>1 DEF BadOutcomes
      <3>3. CASE Leave("error") /\ UNCHANGED onDisk
        BY <2>a, <3>1, <3>2, <3>3, ErrorKeeps DEF Leave, CliTypes, SignalsHandled
      <3>4. CASE outcome = "clean" /\ onDisk' \in {"none", "clean"} /\ Leave("success")
        <4>1. CliTypes' /\ WorkBeforeReport'
          BY <2>a, <3>1, <3>4 DEF CliTypes, WorkBeforeReport, Leave, Steps, Exits
        <4>2. SignalsHandled'
          BY <2>a, <3>1, <3>4 DEF SignalsHandled, Leave, UsesDirectLocalRedb
        <4>3. CommandSound'
          BY <3>1, <3>4 DEF Leave, CommandSound, NoSuccessForAbandonedWork, OneInterruptClosesStores,
             CodeMatchesReport, OnlyADefaultPanics, PanicAt
        <4> QED BY <3>2, <4>1, <4>2, <4>3 DEF CliInv
      <3>5. CASE onDisk' = "bad" /\ (Abandon("findings") \/ Abandon("failures"))
        <4>1. CliTypes' /\ WorkBeforeReport'
          BY <2>a, <3>1, <3>5 DEF CliTypes, WorkBeforeReport, Abandon, Steps, Exits
        <4>2. SignalsHandled'
          BY <2>a, <3>1, <3>5 DEF SignalsHandled, Abandon, UsesDirectLocalRedb
        <4>3. CommandSound'
          BY <3>1, <3>5 DEF Abandon, CommandSound, NoSuccessForAbandonedWork, OneInterruptClosesStores,
             CodeMatchesReport, OnlyADefaultPanics, PanicAt
        <4> QED BY <3>2, <4>1, <4>2, <4>3 DEF CliInv
      <3>6. outcome = "clean" \/ (outcome = "bad" /\ command.name \in {"quality", "copy"})
        BY <2>a DEF BadOutcomes
      <3>7. CASE outcome = "clean"
        <4>1. SUFFICES ASSUME ~(Leave("error") /\ UNCHANGED onDisk)
                       PROVE  onDisk' \in {"none", outcome} /\ Leave("success")
          BY <3>3, <3>4, <3>7
        <4>2. onDisk' \in {"none", outcome}
          BY <2>7, <4>1 DEF WriteAndExit
        <4>3. Leave("success")
          BY <2>7, <3>7, <4>1 DEF WriteAndExit
        <4> QED BY <4>2, <4>3
      <3>8. CASE outcome = "bad" /\ command.name \in {"quality", "copy"}
        BY <2>7, <3>3, <3>5, <3>8 DEF WriteAndExit
      <3> QED BY <3>6, <3>7, <3>8
    <2>8. CASE CtrlC
      <3>1. /\ UNCHANGED <<command, armed, work, outcome, onDisk>>
            /\ exit = "none" /\ signals' = signals + 1 /\ step # "ended"
        BY <2>8, <2>a DEF CtrlC, CliTypes
      <3>2. BadOutcomes'
        BY <2>a, <3>1 DEF BadOutcomes
      <3>3. onDisk = "none"
        BY <2>a, <3>1 DEF WorkBeforeReport
      <3>4. CASE armed /\ signals = 0
        <4>1. flag' = TRUE /\ UNCHANGED <<step, exit, open>>
          BY <2>8, <3>4 DEF CtrlC, HandleInterrupt
        <4>2. CliTypes' /\ WorkBeforeReport'
          BY <2>a, <3>1, <3>4, <4>1 DEF CliTypes, WorkBeforeReport
        <4>3. UsesDirectLocalRedb' = UsesDirectLocalRedb
          BY <3>1 DEF UsesDirectLocalRedb
        <4>4. signals' = 1 /\ step # "start"
          BY <2>a, <3>1, <3>4 DEF SignalsHandled
        <4>5. SignalsHandled'
          <5>1. (flag => armed)' /\ (exit = "none" => (flag <=> signals # 0) /\ signals <= 1)'
            BY <3>1, <3>4, <4>1, <4>4
          <5>2. (step = "start" => open = {} /\ ~armed)'
            BY <4>1, <4>4
          <5>3. (exit = "none" /\ step # "start" => armed = UsesDirectLocalRedb)'
            BY <2>a, <3>1, <4>1, <4>3 DEF SignalsHandled
          <5>4. (open # {} => command.source = "local-redb" \/ command.dest = "local-redb")'
            BY <2>a, <3>1, <4>1 DEF SignalsHandled
          <5> QED BY <5>1, <5>2, <5>3, <5>4 DEF SignalsHandled
        <4> QED BY <3>1, <3>2, <4>1, <4>2, <4>5, GoingOnKeeps
      <3>5. CASE armed /\ signals # 0
        <4>1. Abandon("forced") /\ UNCHANGED flag
          BY <2>8, <3>5 DEF CtrlC, HandleInterrupt
        <4>2. CliTypes' /\ WorkBeforeReport'
          BY <2>a, <3>1, <3>3, <4>1 DEF CliTypes, WorkBeforeReport, Abandon, Steps, Exits
        <4>3. SignalsHandled'
          BY <2>a, <3>1, <4>1 DEF SignalsHandled, Abandon
        <4>4. signals' > 1
          BY <2>a, <3>1, <3>5 DEF CliTypes
        <4>5. CommandSound'
          BY <3>1, <3>3, <4>1, <4>2, <4>4 DEF Abandon, CommandSound, NoSuccessForAbandonedWork,
             OneInterruptClosesStores, CodeMatchesReport, OnlyADefaultPanics, PanicAt, CliTypes
        <4> QED BY <3>2, <4>2, <4>3, <4>5 DEF CliInv
      <3>6. CASE ~armed
        <4>1. Abandon("killed") /\ UNCHANGED flag
          BY <2>8, <3>6 DEF CtrlC
        <4>2. CliTypes' /\ WorkBeforeReport'
          BY <2>a, <3>1, <3>3, <4>1 DEF CliTypes, WorkBeforeReport, Abandon, Steps, Exits
        <4>3. SignalsHandled'
          BY <2>a, <3>1, <4>1 DEF SignalsHandled, Abandon
        <4>4. open = {} \/ command.name = "validate"
          BY <2>a, <3>1, <3>6 DEF SignalsHandled, UsesDirectLocalRedb
        <4>5. CommandSound'
          BY <3>1, <3>3, <4>1, <4>4 DEF Abandon, CommandSound, NoSuccessForAbandonedWork,
             OneInterruptClosesStores, CodeMatchesReport, OnlyADefaultPanics, PanicAt
        <4> QED BY <3>2, <4>2, <4>3, <4>5 DEF CliInv
      <3> QED BY <2>a, <3>4, <3>5, <3>6 DEF CliTypes
    <2>9. CASE Ended \/ UNCHANGED cliVars
      <3>1. UNCHANGED cliVars
        BY <2>9 DEF Ended
      <3>2. CliTypes' /\ WorkBeforeReport' /\ BadOutcomes'
        BY <2>a, <3>1 DEF cliVars, CliTypes, WorkBeforeReport, BadOutcomes
      <3>3. SignalsHandled'
        BY <2>a, <3>1 DEF cliVars, SignalsHandled, UsesDirectLocalRedb
      <3>4. CommandSound'
        BY <3>1 DEF cliVars, CliInv, CommandSound, NoSuccessForAbandonedWork, OneInterruptClosesStores,
           CodeMatchesReport, OnlyADefaultPanics, PanicAt
      <3> QED BY <3>2, <3>3, <3>4 DEF CliInv
    <2> QED BY <2>1, <2>2, <2>3, <2>4, <2>5, <2>6, <2>7, <2>8, <2>9 DEF CliNext, MainStep
  <1>3. CliInv => CommandSound
    BY DEF CliInv
  <1> QED BY <1>1, <1>2, <1>3, PTL DEF CliSpec

-----------------------------------------------------------------------------
(* A request, validated and run. *)

\* All there is to check.
Checks == WorldChecks \cup {"request", "clustering", "ref name", "embedding"}

\* The checks as a set.
Among(s) == {s[i] : i \in DOMAIN s}

\* What a check of the invocation found, the world as far as it is known.
Held(check) ==
    IF check \in WorldChecks THEN found[check] = "good" ELSE OnRequest(check, request) = "holds"

ChecksOf(how) == IF how = "validate" THEN ValidateChecks(request) ELSE RunChecks(request)

RequestTypes ==
    /\ request \in Requests
    /\ found \in [WorldChecks -> {"unknown", "good", "bad"}]
    /\ invocation \in {"validate", "run"}
    /\ passed \in BOOLEAN
    /\ checks \in Seq(Checks)

\* A request's own validation comes first, and every check but the ones still to make held.
MadeHeld ==
    /\ \A i \in DOMAIN checks : checks[i] = "request" => i = 1
    /\ \A check \in Among(ChecksOf(invocation)) : check \in Among(checks) \/ Held(check)
    /\ Among(checks) \subseteq Among(ChecksOf(invocation))
    /\ result = "through" => checks = <<>>

\* All that a validation looks at held, and still does.
PassedHeld == passed => \A check \in Among(ValidateChecks(request)) : Held(check)

RequestInv == RequestTypes /\ MadeHeld /\ PassedHeld /\ RequestSound

-----------------------------------------------------------------------------
(* The two lists of checks. *)

\* The elements of two lists put together; what may only stand first still does.
LEMMA AmongConcat ==
    ASSUME NEW s \in Seq(Checks), NEW t \in Seq(Checks)
    PROVE  /\ s \o t \in Seq(Checks)
           /\ Among(s \o t) = Among(s) \cup Among(t)
           /\ "request" \notin Among(t) /\ s # <<>> /\ (\A i \in DOMAIN s : s[i] = "request" => i = 1) =>
                s \o t # <<>> /\ \A i \in DOMAIN (s \o t) : (s \o t)[i] = "request" => i = 1
  <1>1. s \o t \in Seq(Checks)
    OBVIOUS
  <1>2. Len(s) \in Nat /\ Len(t) \in Nat /\ DOMAIN s = 1 .. Len(s) /\ DOMAIN t = 1 .. Len(t)
        /\ DOMAIN (s \o t) = 1 .. Len(s) + Len(t)
    OBVIOUS
  <1>3. \A i \in DOMAIN s : i \in DOMAIN (s \o t) /\ (s \o t)[i] = s[i]
    BY <1>2
  <1>4. \A i \in DOMAIN t : Len(s) + i \in DOMAIN (s \o t) /\ (s \o t)[Len(s) + i] = t[i]
    BY <1>2
  <1>5. ASSUME NEW i \in DOMAIN (s \o t)
        PROVE  \/ i \in DOMAIN s /\ (s \o t)[i] = s[i]
               \/ i - Len(s) \in DOMAIN t /\ (s \o t)[i] = t[i - Len(s)]
    BY <1>2
  <1>6. Among(s \o t) = Among(s) \cup Among(t)
    <2>1. \A x : x \in Among(s) => x \in Among(s \o t)
      BY <1>3 DEF Among
    <2>2. \A x : x \in Among(t) => x \in Among(s \o t)
      BY <1>4 DEF Among
    <2>3. \A x : x \in Among(s \o t) => x \in Among(s) \cup Among(t)
      BY <1>5 DEF Among
    <2> QED BY <2>1, <2>2, <2>3
  <1>7. ASSUME "request" \notin Among(t), s # <<>>, \A i \in DOMAIN s : s[i] = "request" => i = 1
        PROVE  s \o t # <<>> /\ \A i \in DOMAIN (s \o t) : (s \o t)[i] = "request" => i = 1
    <2>1. s \o t # <<>>
      BY <1>7
    <2>2. \A i \in DOMAIN (s \o t) : (s \o t)[i] = "request" => i = 1
      BY <1>5, <1>7 DEF Among
    <2> QED BY <2>1, <2>2
  <1> QED BY <1>1, <1>6, <1>7

FirstFour == <<"request", "clustering", "store", "ref name">>

\* The checks both invocations begin with.
LEMMA FirstFourAre ==
    /\ FirstFour \in Seq(Checks) /\ FirstFour # <<>>
    /\ \A i \in DOMAIN FirstFour : FirstFour[i] = "request" => i = 1
    /\ Among(FirstFour) = {"request", "clustering", "store", "ref name"}
  <1>1. FirstFour \in Seq(Checks) /\ FirstFour # <<>>
    BY DEF FirstFour, Checks, WorldChecks
  <1>3. DOMAIN FirstFour = 1 .. 4
    BY DEF FirstFour
  <1>2. FirstFour[1] = "request" /\ FirstFour[2] = "clustering" /\ FirstFour[3] = "store"
        /\ FirstFour[4] = "ref name"
    BY DEF FirstFour
  <1>4. \A i \in DOMAIN FirstFour : i = 1 \/ i = 2 \/ i = 3 \/ i = 4
    BY <1>3
  <1>5. \A x : x \in Among(FirstFour) => x \in {"request", "clustering", "store", "ref name"}
    BY <1>2, <1>4 DEF Among
  <1>6. \A x : x \in {"request", "clustering", "store", "ref name"} => x \in Among(FirstFour)
    <2>1. \A i \in 1 .. 4 : FirstFour[i] \in Among(FirstFour)
      BY <1>3 DEF Among
    <2>2. FirstFour[1] \in Among(FirstFour) /\ FirstFour[2] \in Among(FirstFour)
          /\ FirstFour[3] \in Among(FirstFour) /\ FirstFour[4] \in Among(FirstFour)
      BY <2>1
    <2> QED BY <1>2, <2>2
  <1>7. \A i \in DOMAIN FirstFour : FirstFour[i] = "request" => i = 1
    BY <1>2, <1>4
  <1> QED BY <1>1, <1>5, <1>6, <1>7

\* A list of one check.
LEMMA AmongOne ==
    ASSUME NEW x \in Checks
    PROVE  <<x>> \in Seq(Checks) /\ Among(<<x>>) = {x}
  <1>1. <<x>> \in Seq(Checks)
    OBVIOUS
  <1>2. DOMAIN <<x>> = {1} /\ <<x>>[1] = x
    OBVIOUS
  <1> QED BY <1>1, <1>2 DEF Among

\* No checks.
LEMMA AmongNone == <<>> \in Seq(Checks) /\ Among(<<>>) = {}
  BY DEF Among

\* A list that is made under a condition.
LEMMA AmongWhen ==
    ASSUME NEW condition \in BOOLEAN, NEW s \in Seq(Checks)
    PROVE  /\ When(condition, s) \in Seq(Checks)
           /\ Among(When(condition, s)) = IF condition THEN Among(s) ELSE {}
  BY AmongNone DEF When

\* The roots a request that clusters has to write to.
LEMMA RootsAre ==
    ASSUME NEW r \in Requests
    PROVE  /\ Roots(r) \in Seq(Checks)
           /\ Among(Roots(r)) = IF Clusters(r.stage)
                                THEN {"scratch"} \cup (IF r.v3 THEN {"working root"} ELSE {}) ELSE {}
  <1>1. r.v3 \in BOOLEAN /\ Clusters(r.stage) \in BOOLEAN
    BY DEF Requests, Clusters
  <1>a. "scratch" \in Checks /\ "working root" \in Checks
    BY DEF Checks, WorldChecks
  <1>2. <<"scratch">> \in Seq(Checks) /\ Among(<<"scratch">>) = {"scratch"}
        /\ <<"working root">> \in Seq(Checks) /\ Among(<<"working root">>) = {"working root"}
    BY <1>a, AmongOne
  <1>3. PICK w : w = When(r.v3, <<"working root">>)
    OBVIOUS
  <1>4. w \in Seq(Checks) /\ Among(w) = IF r.v3 THEN {"working root"} ELSE {}
    BY <1>1, <1>2, <1>3, AmongWhen
  <1>5. <<"scratch">> \o w \in Seq(Checks) /\ Among(<<"scratch">> \o w) = {"scratch"} \cup Among(w)
    BY <1>2, <1>4, AmongConcat
  <1>6. Roots(r) = When(Clusters(r.stage), <<"scratch">> \o w)
    BY <1>3 DEF Roots
  <1> QED BY <1>1, <1>4, <1>5, <1>6, AmongWhen

\* What a validation looks at.
LEMMA ValidateChecksAre ==
    ASSUME NEW r \in Requests
    PROVE  /\ ValidateChecks(r) \in Seq(Checks)
           /\ \A i \in DOMAIN ValidateChecks(r) : ValidateChecks(r)[i] = "request" => i = 1
           /\ Among(ValidateChecks(r)) =
                {"request", "clustering", "store", "ref name"} \cup Among(Roots(r))
                \cup (IF Clusters(r.stage) THEN {"profile"} ELSE {})
                \cup (IF r.stage = "clustering" THEN {"head"} ELSE {})
  <1>1. Clusters(r.stage) \in BOOLEAN /\ (r.stage = "clustering") \in BOOLEAN
    BY DEF Clusters
  <1>f. "profile" \in Checks /\ "head" \in Checks
    BY DEF Checks, WorldChecks
  <1>e. <<"profile">> \in Seq(Checks) /\ Among(<<"profile">>) = {"profile"}
        /\ <<"head">> \in Seq(Checks) /\ Among(<<"head">>) = {"head"}
    BY <1>f, AmongOne
  <1>2. PICK p, h : p = When(Clusters(r.stage), <<"profile">>) /\ h = When(r.stage = "clustering", <<"head">>)
    OBVIOUS
  <1>3. p \in Seq(Checks) /\ Among(p) = IF Clusters(r.stage) THEN {"profile"} ELSE {}
    BY <1>1, <1>2, <1>e, AmongWhen
  <1>4. h \in Seq(Checks) /\ Among(h) = IF r.stage = "clustering" THEN {"head"} ELSE {}
    BY <1>1, <1>2, <1>e, AmongWhen
  <1>5. PICK s1 : s1 = FirstFour \o Roots(r)
    OBVIOUS
  <1>6. PICK s2 : s2 = s1 \o p
    OBVIOUS
  <1>7. ValidateChecks(r) = s2 \o h
    BY <1>2, <1>5, <1>6 DEF ValidateChecks, FirstFour
  <1>8. "request" \notin Among(Roots(r)) /\ "request" \notin Among(p) /\ "request" \notin Among(h)
        /\ Roots(r) \in Seq(Checks)
    <2>1. Roots(r) \in Seq(Checks) /\ Among(Roots(r)) \subseteq {"scratch", "working root"}
      BY RootsAre
    <2>2. Among(p) \subseteq {"profile"} /\ Among(h) \subseteq {"head"}
      BY <1>3, <1>4
    <2> QED BY <2>1, <2>2
  <1>9. /\ s1 \in Seq(Checks) /\ s1 # <<>> /\ \A i \in DOMAIN s1 : s1[i] = "request" => i = 1
        /\ Among(s1) = Among(FirstFour) \cup Among(Roots(r))
    BY <1>5, <1>8, FirstFourAre, AmongConcat
  <1>10. /\ s2 \in Seq(Checks) /\ s2 # <<>> /\ \A i \in DOMAIN s2 : s2[i] = "request" => i = 1
         /\ Among(s2) = Among(s1) \cup Among(p)
    BY <1>3, <1>6, <1>8, <1>9, AmongConcat
  <1>11. /\ s2 \o h \in Seq(Checks) /\ \A i \in DOMAIN (s2 \o h) : (s2 \o h)[i] = "request" => i = 1
         /\ Among(s2 \o h) = Among(s2) \cup Among(h)
    BY <1>4, <1>8, <1>10, AmongConcat
  <1>12. Among(FirstFour) = {"request", "clustering", "store", "ref name"}
    BY FirstFourAre
  <1> QED BY <1>3, <1>4, <1>7, <1>9, <1>10, <1>11, <1>12

TwoOfClustering == <<"replay", "profile">>

FiveOfIngestion == <<"refs parent", "embedding", "provider", "items", "embed">>

\* What a run looks at before its work.
LEMMA RunChecksAre ==
    ASSUME NEW r \in Requests
    PROVE  /\ RunChecks(r) \in Seq(Checks)
           /\ \A i \in DOMAIN RunChecks(r) : RunChecks(r)[i] = "request" => i = 1
           /\ Among(RunChecks(r)) =
                {"request", "clustering", "store", "ref name"} \cup Among(Roots(r))
                \cup (IF Ingests(r.stage) THEN {"refs parent", "embedding", "provider", "items", "embed"} ELSE {})
                \cup (IF r.stage = "clustering" THEN {"head"} ELSE {})
                \cup (IF Clusters(r.stage) THEN {"replay", "profile"} ELSE {})
  <1>1. Clusters(r.stage) \in BOOLEAN /\ (r.stage = "clustering") \in BOOLEAN /\ Ingests(r.stage) \in BOOLEAN
    BY DEF Clusters, Ingests
  <1>a. FiveOfIngestion \in Seq(Checks)
        /\ Among(FiveOfIngestion) = {"refs parent", "embedding", "provider", "items", "embed"}
    <2>1. FiveOfIngestion \in Seq(Checks)
      BY DEF FiveOfIngestion, Checks, WorldChecks
    <2>3. DOMAIN FiveOfIngestion = 1 .. 5
      BY DEF FiveOfIngestion
    <2>4. \A i \in DOMAIN FiveOfIngestion : i = 1 \/ i = 2 \/ i = 3 \/ i = 4 \/ i = 5
      BY <2>3
    <2>2. FiveOfIngestion[1] = "refs parent" /\ FiveOfIngestion[2] = "embedding"
          /\ FiveOfIngestion[3] = "provider" /\ FiveOfIngestion[4] = "items"
          /\ FiveOfIngestion[5] = "embed"
      BY DEF FiveOfIngestion
    <2>5. \A x : x \in Among(FiveOfIngestion) => x \in {"refs parent", "embedding", "provider", "items", "embed"}
      BY <2>2, <2>4 DEF Among
    <2>6. \A x : x \in {"refs parent", "embedding", "provider", "items", "embed"} => x \in Among(FiveOfIngestion)
      <3>1. \A i \in 1 .. 5 : FiveOfIngestion[i] \in Among(FiveOfIngestion)
        BY <2>3 DEF Among
      <3>2. FiveOfIngestion[1] \in Among(FiveOfIngestion) /\ FiveOfIngestion[2] \in Among(FiveOfIngestion)
            /\ FiveOfIngestion[3] \in Among(FiveOfIngestion) /\ FiveOfIngestion[4] \in Among(FiveOfIngestion)
            /\ FiveOfIngestion[5] \in Among(FiveOfIngestion)
        BY <3>1
      <3> QED BY <2>2, <3>2
    <2> QED BY <2>1, <2>5, <2>6
  <1>f. "profile" \in Checks /\ "replay" \in Checks /\ "head" \in Checks
    BY DEF Checks, WorldChecks
  <1>e. <<"head">> \in Seq(Checks) /\ Among(<<"head">>) = {"head"}
    BY <1>f, AmongOne
  <1>g. TwoOfClustering \in Seq(Checks) /\ Among(TwoOfClustering) = {"replay", "profile"}
    <2>1. TwoOfClustering \in Seq(Checks) /\ DOMAIN TwoOfClustering = 1 .. 2
          /\ TwoOfClustering[1] = "replay" /\ TwoOfClustering[2] = "profile"
      BY <1>f DEF TwoOfClustering
    <2>2. \A x : x \in Among(TwoOfClustering) <=> x \in {"replay", "profile"}
      BY <2>1 DEF Among
    <2> QED BY <2>1, <2>2
  <1>2. PICK p, h, n : /\ p = When(Clusters(r.stage), TwoOfClustering) /\ h = When(r.stage = "clustering", <<"head">>)
                       /\ n = When(Ingests(r.stage), FiveOfIngestion)
    OBVIOUS
  <1>3. p \in Seq(Checks) /\ Among(p) = IF Clusters(r.stage) THEN {"replay", "profile"} ELSE {}
    BY <1>1, <1>2, <1>g, AmongWhen
  <1>4. h \in Seq(Checks) /\ Among(h) = IF r.stage = "clustering" THEN {"head"} ELSE {}
    BY <1>1, <1>2, <1>e, AmongWhen
  <1>b. n \in Seq(Checks)
        /\ Among(n) = IF Ingests(r.stage) THEN {"refs parent", "embedding", "provider", "items", "embed"} ELSE {}
    BY <1>1, <1>2, <1>a, AmongWhen
  <1>5. PICK s1 : s1 = FirstFour \o Roots(r)
    OBVIOUS
  <1>6. PICK s2 : s2 = s1 \o n
    OBVIOUS
  <1>c. PICK s3 : s3 = s2 \o h
    OBVIOUS
  <1>7. RunChecks(r) = s3 \o p
    BY <1>2, <1>5, <1>6, <1>c DEF RunChecks, FirstFour, FiveOfIngestion, TwoOfClustering
  <1>8. "request" \notin Among(Roots(r)) /\ "request" \notin Among(p) /\ "request" \notin Among(h)
        /\ "request" \notin Among(n) /\ Roots(r) \in Seq(Checks)
    <2>1. Roots(r) \in Seq(Checks) /\ Among(Roots(r)) \subseteq {"scratch", "working root"}
      BY RootsAre
    <2>2. Among(p) \subseteq {"replay", "profile"} /\ Among(h) \subseteq {"head"}
      BY <1>3, <1>4
    <2>3. Among(n) \subseteq {"refs parent", "embedding", "provider", "items", "embed"}
      BY <1>b
    <2> QED BY <2>1, <2>2, <2>3
  <1>9. /\ s1 \in Seq(Checks) /\ s1 # <<>> /\ \A i \in DOMAIN s1 : s1[i] = "request" => i = 1
        /\ Among(s1) = Among(FirstFour) \cup Among(Roots(r))
    BY <1>5, <1>8, FirstFourAre, AmongConcat
  <1>10. /\ s2 \in Seq(Checks) /\ s2 # <<>> /\ \A i \in DOMAIN s2 : s2[i] = "request" => i = 1
         /\ Among(s2) = Among(s1) \cup Among(n)
    BY <1>b, <1>6, <1>8, <1>9, AmongConcat
  <1>d. /\ s3 \in Seq(Checks) /\ s3 # <<>> /\ \A i \in DOMAIN s3 : s3[i] = "request" => i = 1
        /\ Among(s3) = Among(s2) \cup Among(h)
    BY <1>4, <1>c, <1>8, <1>10, AmongConcat
  <1>11. /\ s3 \o p \in Seq(Checks) /\ \A i \in DOMAIN (s3 \o p) : (s3 \o p)[i] = "request" => i = 1
         /\ Among(s3 \o p) = Among(s3) \cup Among(p)
    BY <1>3, <1>8, <1>d, AmongConcat
  <1>12. Among(FirstFour) = {"request", "clustering", "store", "ref name"}
    BY FirstFourAre
  <1> QED BY <1>b, <1>3, <1>4, <1>7, <1>9, <1>10, <1>11, <1>12, <1>d

-----------------------------------------------------------------------------
(* What the checks say. *)

\* The answers of a check of the request.
LEMMA OnRequestAnswers ==
    ASSUME NEW check \in Checks
    PROVE  /\ OnRequest(check, request) \in {"holds", "error", "panic"}
           /\ OnRequest(check, request) = "panic" => check = "ref name" /\ ~RefUnwraps(request)
           /\ OnRequest("request", request) = "holds" => ValidRequest(request)
           /\ LocalEmbedding(request.environment) => OnRequest("embedding", request) = "holds"
  BY DEF OnRequest

\* A valid request that ingests has the embedding its environment needs.
LEMMA ValidIngestEmbeds ==
    ASSUME request \in Requests, ValidRequest(request), Ingests(request.stage)
    PROVE  LocalEmbedding(request.environment)
  BY DEF ValidRequest, ValidForStage

\* A batch of a valid request is not empty, whatever the machine.
LEMMA ValidBatches ==
    ASSUME request \in Requests, ValidRequest(request), NEW cores \in Nat
    PROVE  EffectiveReplayBatch(request, cores) >= 1
  <1>1. DefaultConcurrency(cores) \in Nat /\ DefaultConcurrency(cores) >= 1
    BY DEF DefaultConcurrency
  <1>2. request.maxConcurrency \in {"absent", "positive"} /\ request.replayBatch \in {"absent", "positive"}
    BY DEF ValidRequest, Requests, Numbers
  <1>3. PICK d : d = DefaultConcurrency(cores)
    OBVIOUS
  <1>4. Effective(request.maxConcurrency, d) \in {1, d}
    BY <1>2 DEF Effective
  <1>5. PICK e : e = Effective(request.maxConcurrency, d)
    OBVIOUS
  <1>6. Effective(request.replayBatch, e) \in {1, e}
    BY <1>2 DEF Effective
  <1> QED BY <1>1, <1>3, <1>4, <1>5, <1>6 DEF EffectiveReplayBatch

\* What a run looks at and a validation does not.
LEMMA RunLooksFurther ==
    ASSUME NEW r \in Requests, NEW check \in Among(RunChecks(r))
    PROVE  \/ check \in Among(ValidateChecks(r))
           \/ Ingests(r.stage) /\ check \in {"refs parent", "embedding", "provider", "items", "embed"}
           \/ check = "replay"
  BY RunChecksAre, ValidateChecksAre

-----------------------------------------------------------------------------
(* The steps. *)

\* The next check, and what is left after it.
LEMMA NextCheck ==
    ASSUME RequestTypes, MadeHeld, checks # <<>>
    PROVE  /\ Head(checks) \in Among(checks) /\ Head(checks) \in Checks
           /\ Tail(checks) \in Seq(Checks)
           /\ \A x : x \in Among(checks) => x = Head(checks) \/ x \in Among(Tail(checks))
           /\ Among(Tail(checks)) \subseteq Among(checks)
           /\ "request" \notin Among(Tail(checks))
  <1>1. checks \in Seq(Checks) /\ Len(checks) \in Nat /\ Len(checks) # 0 /\ DOMAIN checks = 1 .. Len(checks)
    BY DEF RequestTypes
  <1>2. Tail(checks) \in Seq(Checks) /\ DOMAIN Tail(checks) = 1 .. Len(checks) - 1
    BY <1>1
  <1>3. \A i \in DOMAIN Tail(checks) : i + 1 \in DOMAIN checks /\ i + 1 # 1 /\ Tail(checks)[i] = checks[i + 1]
    BY <1>1, <1>2
  <1>4. Head(checks) = checks[1] /\ 1 \in DOMAIN checks
    BY <1>1
  <1>5. \A i \in DOMAIN checks : i = 1 \/ (i - 1 \in DOMAIN Tail(checks) /\ checks[i] = Tail(checks)[i - 1])
    BY <1>1, <1>2, <1>3
  <1>6. Head(checks) \in Among(checks) /\ Head(checks) \in Checks
    BY <1>1, <1>4 DEF Among
  <1>7. \A x : x \in Among(checks) => x = Head(checks) \/ x \in Among(Tail(checks))
    BY <1>4, <1>5 DEF Among
  <1>8. Among(Tail(checks)) \subseteq Among(checks)
    BY <1>3 DEF Among
  <1>9. "request" \notin Among(Tail(checks))
    BY <1>3 DEF Among, MadeHeld
  <1> QED BY <1>2, <1>6, <1>7, <1>8, <1>9

\* What the invocation looks at is known.
LEMMA ChecksOfAre ==
    ASSUME RequestTypes
    PROVE  /\ ChecksOf(invocation) \in Seq(Checks)
           /\ \A i \in DOMAIN ChecksOf(invocation) : ChecksOf(invocation)[i] = "request" => i = 1
           /\ "request" \in Among(ChecksOf(invocation))
  <1>1. CASE invocation = "validate"
    BY <1>1, ValidateChecksAre DEF RequestTypes, ChecksOf
  <1>2. CASE invocation # "validate"
    BY <1>2, RunChecksAre DEF RequestTypes, ChecksOf
  <1> QED BY <1>1, <1>2

\* Once the request's own validation is behind, the request is valid.
LEMMA ValidOnceChecked ==
    ASSUME RequestTypes, MadeHeld, "request" \notin Among(checks)
    PROVE  ValidRequest(request)
  <1>1. Held("request")
    BY ChecksOfAre DEF MadeHeld
  <1>2. "request" \notin WorldChecks /\ "request" \in Checks
    BY DEF WorldChecks, Checks
  <1>3. OnRequest("request", request) = "holds"
    BY <1>1, <1>2 DEF Held
  <1> QED BY <1>2, <1>3, OnRequestAnswers

\* A check that held leaves the rest to make.
LEMMA CheckHeld ==
    ASSUME RequestInv, checks # <<>>, result = "none", result' = "none", checks' = Tail(checks),
           UNCHANGED <<request, invocation, passed>>, RequestTypes',
           NEW check, check = Head(checks), Held(check)',
           \A c \in Checks : Held(c) => Held(c)'
    PROVE  RequestInv'
  <1>1. /\ \A x : x \in Among(checks) => x = Head(checks) \/ x \in Among(Tail(checks))
        /\ Among(Tail(checks)) \subseteq Among(checks)
        /\ "request" \notin Among(Tail(checks))
    BY NextCheck DEF RequestInv
  <1>2. ChecksOf(invocation)' = ChecksOf(invocation) /\ ValidateChecks(request)' = ValidateChecks(request)
    BY DEF ChecksOf
  <1>3. \A c : c \in Among(ChecksOf(invocation)) => c \in Checks
    <2>1. ChecksOf(invocation) \in Seq(Checks)
      BY ChecksOfAre DEF RequestInv
    <2> QED BY <2>1 DEF Among
  <1>4. \A c : c \in Among(ValidateChecks(request)) => c \in Checks
    <2>1. ValidateChecks(request) \in Seq(Checks)
      BY ValidateChecksAre DEF RequestInv, RequestTypes
    <2> QED BY <2>1 DEF Among
  <1>5. MadeHeld'
    <2>1. \A i \in DOMAIN Tail(checks) : Tail(checks)[i] = "request" => i = 1
      BY <1>1 DEF Among
    <2>2. ASSUME NEW c \in Among(ChecksOf(invocation)) PROVE c \in Among(Tail(checks)) \/ Held(c)'
      BY <1>1, <1>3 DEF RequestInv, MadeHeld
    <2>3. Among(Tail(checks)) \subseteq Among(ChecksOf(invocation))
      BY <1>1 DEF RequestInv, MadeHeld
    <2>4. Among(checks)' = Among(Tail(checks)) /\ Among(ChecksOf(invocation))' = Among(ChecksOf(invocation))
      BY <1>2 DEF Among
    <2> QED BY <2>1, <2>2, <2>3, <2>4 DEF MadeHeld
  <1>6. PassedHeld'
    <2>1. Among(ValidateChecks(request))' = Among(ValidateChecks(request))
      BY <1>2 DEF Among
    <2> QED BY <1>4, <2>1 DEF RequestInv, PassedHeld
  <1>7. RequestSound'
    BY DEF RequestSound, ValidatedRunIsAccepted, NothingUnwrappedIsMissing, BatchesAreNotEmpty
  <1> QED BY <1>5, <1>6, <1>7 DEF RequestInv

\* One that did not ends the invocation with it.  A run of a validated request only
\* ends so with a check that a validation does not make.
LEMMA CheckFailed ==
    ASSUME RequestInv, checks # <<>>, result = "none", result' = Head(checks), checks' = checks,
           UNCHANGED <<request, invocation, passed>>, RequestTypes',
           ~Held(Head(checks)), Head(checks) # "embedding" \/ ~LocalEmbedding(request.environment),
           Head(checks) \in Among(ChecksOf(invocation)),
           \A c \in Checks : Held(c) => Held(c)'
    PROVE  RequestInv'
  <1>1. ChecksOf(invocation)' = ChecksOf(invocation) /\ ValidateChecks(request)' = ValidateChecks(request)
    BY DEF ChecksOf
  <1>2. \A c : c \in Among(ChecksOf(invocation)) => c \in Checks
    <2>1. ChecksOf(invocation) \in Seq(Checks)
      BY ChecksOfAre DEF RequestInv
    <2> QED BY <2>1 DEF Among
  <1>3. \A c : c \in Among(ValidateChecks(request)) => c \in Checks
    <2>1. ValidateChecks(request) \in Seq(Checks)
      BY ValidateChecksAre DEF RequestInv, RequestTypes
    <2> QED BY <2>1 DEF Among
  <1>a. Head(checks) \notin {"through", "panic", "none"}
    BY <1>2 DEF Checks, WorldChecks
  <1>4. MadeHeld'
    <2>1. Among(checks)' = Among(checks) /\ Among(ChecksOf(invocation))' = Among(ChecksOf(invocation))
      BY <1>1 DEF Among
    <2> QED BY <1>2, <1>a, <2>1 DEF RequestInv, MadeHeld
  <1>5. PassedHeld'
    <2>1. Among(ValidateChecks(request))' = Among(ValidateChecks(request))
      BY <1>1 DEF Among
    <2> QED BY <1>3, <2>1 DEF RequestInv, PassedHeld
  <1>6. ASSUME passed, invocation = "run"
        PROVE  Head(checks) \in {"refs parent", "provider", "items", "embed", "replay"}
    <2>1. request \in Requests /\ Head(checks) \in Among(RunChecks(request))
      BY <1>6 DEF RequestInv, RequestTypes, ChecksOf
    <2>2. Head(checks) \notin Among(ValidateChecks(request))
      BY <1>6 DEF RequestInv, PassedHeld
    <2>3. \/ Ingests(request.stage) /\ Head(checks) \in {"refs parent", "embedding", "provider", "items", "embed"}
          \/ Head(checks) = "replay"
      BY <2>1, <2>2, RunLooksFurther
    <2>4. "request" \in Among(ValidateChecks(request))
      BY <2>1, ValidateChecksAre
    <2>5. ValidRequest(request)
      <3>1. Held("request")
        BY <1>6, <2>4 DEF RequestInv, PassedHeld
      <3>2. "request" \notin WorldChecks /\ "request" \in Checks
        BY DEF WorldChecks, Checks
      <3> QED BY <3>1, <3>2, OnRequestAnswers DEF Held
    <2>6. Ingests(request.stage) => LocalEmbedding(request.environment)
      BY <2>1, <2>3, <2>5, ValidIngestEmbeds
    <2> QED BY <2>3, <2>6
  <1>7. RequestSound'
    BY <1>6, <1>a DEF RequestSound, ValidatedRunIsAccepted, NothingUnwrappedIsMissing, BatchesAreNotEmpty
  <1> QED BY <1>4, <1>5, <1>7 DEF RequestInv

\* A request that was validated is not refused by its run for what the validation looked
\* at, neither invocation unwraps what is not there, and no batch is empty, for every
\* request and whatever is found of the world (validate_request_with_overrides,
\* run_request_with_progress, effective_replay_batch_size).
THEOREM RequestSafe == RequestSpec => []RequestSound
  <1>1. RequestInit => RequestInv
    <2> SUFFICES ASSUME NEW given \in Requests, NEW first \in {"validate", "run"}, RequestStart(given, first)
                 PROVE  RequestInv
      BY DEF RequestInit
    <2>1. checks = ChecksOf(invocation) /\ request \in Requests /\ invocation \in {"validate", "run"}
      BY DEF RequestStart, ChecksOf
    <2>2. passed = FALSE /\ result = "none" /\ found \in [WorldChecks -> {"unknown", "good", "bad"}]
      BY DEF RequestStart
    <2>3. ChecksOf(invocation) \in Seq(Checks)
          /\ \A i \in DOMAIN ChecksOf(invocation) : ChecksOf(invocation)[i] = "request" => i = 1
      <3>1. CASE invocation = "validate"
        BY <2>1, <3>1, ValidateChecksAre DEF ChecksOf
      <3>2. CASE invocation # "validate"
        BY <2>1, <3>2, RunChecksAre DEF ChecksOf
      <3> QED BY <3>1, <3>2
    <2>4. RequestTypes
      BY <2>1, <2>2, <2>3 DEF RequestTypes
    <2>5. MadeHeld /\ PassedHeld
      BY <2>1, <2>2, <2>3 DEF MadeHeld, PassedHeld
    <2>6. RequestSound
      BY <2>2 DEF RequestSound, ValidatedRunIsAccepted, NothingUnwrappedIsMissing, BatchesAreNotEmpty
    <2> QED BY <2>4, <2>5, <2>6 DEF RequestInv
  <1>2. RequestInv /\ [RequestNext]_requestVars => RequestInv'
    <2> SUFFICES ASSUME RequestInv, [RequestNext]_requestVars PROVE RequestInv'
      OBVIOUS
    <2>1. CASE Check
      <3>1. PICK check : check = Head(checks)
        OBVIOUS
      <3>2. result = "none" /\ checks # <<>> /\ UNCHANGED <<request, invocation, passed>>
        BY <2>1 DEF Check
      <3>3. /\ check \in Among(checks) /\ check \in Checks /\ Tail(checks) \in Seq(Checks)
            /\ "request" \notin Among(Tail(checks))
            /\ check \in Among(ChecksOf(invocation))
        BY <3>1, <3>2, NextCheck DEF RequestInv, MadeHeld
      <3>4. RequestTypes
        BY DEF RequestInv
      <3>5. CASE check \in WorldChecks
        <4>1. PICK holds \in BOOLEAN :
                /\ found[check] # "unknown" => holds = (found[check] = "good")
                /\ found' = [found EXCEPT ![check] = IF holds THEN "good" ELSE "bad"]
                /\ IF holds THEN checks' = Tail(checks) /\ UNCHANGED result ELSE Ends(check)
          BY <2>1, <3>1, <3>5 DEF Check
        <4>2. found' \in [WorldChecks -> {"unknown", "good", "bad"}]
          BY <3>4, <4>1 DEF RequestTypes
        <4>3. ASSUME NEW c \in Checks, Held(c) PROVE Held(c)'
          <5>1. CASE c \notin WorldChecks
            BY <3>2, <4>3, <5>1 DEF Held
          <5>2. CASE c \in WorldChecks
            BY <3>4, <4>1, <4>3, <5>2 DEF Held, RequestTypes
          <5> QED BY <5>1, <5>2
        <4>4. CASE holds
          <5>1. checks' = Tail(checks) /\ result' = "none" /\ found'[check] = "good"
            BY <3>2, <3>4, <3>5, <4>1, <4>4 DEF RequestTypes
          <5>2. Held(check)'
            BY <3>5, <5>1 DEF Held
          <5>3. RequestTypes'
            BY <3>2, <3>3, <3>4, <4>2, <5>1 DEF RequestTypes
          <5> QED BY <3>1, <3>2, <4>3, <5>1, <5>2, <5>3, CheckHeld
        <4>5. CASE ~holds
          <5>1. checks' = checks /\ result' = check
            BY <4>1, <4>5 DEF Ends
          <5>2. ~Held(check)
            BY <3>5, <4>1, <4>5 DEF Held
          <5>3. RequestTypes'
            BY <3>2, <3>4, <4>2, <5>1 DEF RequestTypes
          <5>4. check # "embedding"
            BY <3>5 DEF WorldChecks
          <5> QED BY <3>1, <3>2, <3>3, <4>3, <5>1, <5>2, <5>3, <5>4, CheckFailed
        <4> QED BY <4>1, <4>4, <4>5
      <3>6. CASE check \notin WorldChecks
        <4>1. /\ CASE OnRequest(check, request) = "holds" -> checks' = Tail(checks) /\ UNCHANGED result
                    [] OnRequest(check, request) = "error" -> Ends(check)
                    [] OTHER -> Ends("panic")
              /\ UNCHANGED found
          BY <2>1, <3>1, <3>6 DEF Check
        <4>2. \A c \in Checks : Held(c) => Held(c)'
          BY <3>2, <4>1 DEF Held
        <4>3. CASE OnRequest(check, request) = "holds"
          <5>1. checks' = Tail(checks) /\ result' = "none"
            BY <3>2, <4>1, <4>3
          <5>2. Held(check)'
            BY <3>2, <3>6, <4>3 DEF Held
          <5>3. RequestTypes'
            BY <3>2, <3>3, <3>4, <4>1, <5>1 DEF RequestTypes
          <5> QED BY <3>1, <3>2, <4>2, <5>1, <5>2, <5>3, CheckHeld
        <4>4. CASE OnRequest(check, request) = "error"
          <5>1. checks' = checks /\ result' = check
            BY <4>1, <4>4 DEF Ends
          <5>2. ~Held(check)
            BY <3>6, <4>4 DEF Held
          <5>3. RequestTypes'
            BY <3>2, <3>4, <4>1, <5>1 DEF RequestTypes
          <5>4. check = "embedding" => ~LocalEmbedding(request.environment)
            BY <3>3, <4>4, OnRequestAnswers
          <5> QED BY <3>1, <3>2, <3>3, <4>2, <5>1, <5>2, <5>3, <5>4, CheckFailed
        <4>5. OnRequest(check, request) # "panic"
          <5> SUFFICES ASSUME OnRequest(check, request) = "panic" PROVE FALSE
            OBVIOUS
          <5>1. check = "ref name" /\ ~RefUnwraps(request)
            BY <3>3, OnRequestAnswers
          <5>2. "request" \notin Among(checks)
            BY <3>1, <3>2, <3>3, <5>1, NextCheck DEF RequestInv
          <5>3. ValidRequest(request)
            BY <5>2, ValidOnceChecked DEF RequestInv
          <5> QED BY <5>1, <5>3 DEF ValidRequest, RefUnwraps
        <4> QED BY <3>3, <4>3, <4>4, <4>5, OnRequestAnswers
      <3> QED BY <3>5, <3>6
    <2>2. CASE Through
      <3>1. /\ result = "none" /\ checks = <<>> /\ result' = "through"
            /\ passed' = (passed \/ invocation = "validate")
            /\ UNCHANGED <<request, found, invocation, checks>>
        BY <2>2 DEF Through
      <3>2. \A c \in Among(ChecksOf(invocation)) : Held(c)
        BY <3>1, AmongNone DEF RequestInv, MadeHeld
      <3>3. ValidRequest(request)
        BY <3>1, AmongNone, ValidOnceChecked DEF RequestInv
      <3>4. RequestTypes'
        BY <3>1 DEF RequestInv, RequestTypes
      <3>5. /\ \A c : Held(c)' = Held(c)
            /\ Among(ChecksOf(invocation))' = Among(ChecksOf(invocation))
            /\ Among(ValidateChecks(request))' = Among(ValidateChecks(request))
        BY <3>1 DEF Held, ChecksOf
      <3>6. MadeHeld'
        BY <3>1, <3>2, <3>5 DEF RequestInv, MadeHeld
      <3>7. PassedHeld'
        <4>1. invocation = "validate" => ChecksOf(invocation) = ValidateChecks(request)
          BY DEF ChecksOf
        <4> QED BY <3>1, <3>2, <3>5, <4>1 DEF RequestInv, PassedHeld
      <3>8. RequestSound'
        <4>1. request' \in Requests /\ \A cores \in 0 .. 3 : EffectiveReplayBatch(request, cores) >= 1
          BY <3>1, <3>3, ValidBatches DEF RequestInv, RequestTypes
        <4>2. \A cores \in 0 .. 3 : EffectiveReplayBatch(request, cores)' = EffectiveReplayBatch(request, cores)
          BY <3>1
        <4> QED
          BY <3>1, <4>1, <4>2 DEF RequestSound, ValidatedRunIsAccepted, NothingUnwrappedIsMissing,
             BatchesAreNotEmpty
      <3> QED BY <3>4, <3>6, <3>7, <3>8 DEF RequestInv
    <2>3. CASE RunNext
      <3>1. /\ invocation' = "run" /\ checks' = RunChecks(request) /\ result' = "none"
            /\ UNCHANGED <<request, found, passed>>
        BY <2>3 DEF RunNext
      <3>2. request \in Requests
        BY DEF RequestInv, RequestTypes
      <3>3. RunChecks(request) \in Seq(Checks)
            /\ \A i \in DOMAIN RunChecks(request) : RunChecks(request)[i] = "request" => i = 1
        BY <3>2, RunChecksAre
      <3>4. RequestTypes'
        BY <3>1, <3>3 DEF RequestInv, RequestTypes
      <3>5. ChecksOf(invocation)' = RunChecks(request)
        BY <3>1 DEF ChecksOf
      <3>6. MadeHeld'
        BY <3>1, <3>3, <3>5 DEF MadeHeld
      <3>7. PassedHeld'
        <4>1. \A c : Held(c)' = Held(c)
          BY <3>1 DEF Held
        <4> QED BY <3>1, <4>1 DEF RequestInv, PassedHeld
      <3>8. RequestSound'
        BY <3>1 DEF RequestSound, ValidatedRunIsAccepted, NothingUnwrappedIsMissing, BatchesAreNotEmpty
      <3> QED BY <3>4, <3>6, <3>7, <3>8 DEF RequestInv
    <2>4. CASE Finished \/ UNCHANGED requestVars
      <3>1. UNCHANGED <<request, found, invocation, checks, passed, result>>
        BY <2>4 DEF Finished, requestVars
      <3>2. \A c : Held(c)' = Held(c)
        BY <3>1 DEF Held
      <3>3. ChecksOf(invocation)' = ChecksOf(invocation)
        BY <3>1 DEF ChecksOf
      <3>4. RequestTypes' /\ MadeHeld' /\ PassedHeld'
        BY <3>1, <3>2, <3>3 DEF RequestInv, RequestTypes, MadeHeld, PassedHeld
      <3>5. RequestSound'
        BY <3>1 DEF RequestInv, RequestSound, ValidatedRunIsAccepted, NothingUnwrappedIsMissing,
           BatchesAreNotEmpty
      <3> QED BY <3>4, <3>5 DEF RequestInv
    <2> QED BY <2>1, <2>2, <2>3, <2>4 DEF RequestNext
  <1>3. RequestInv => RequestSound
    BY DEF RequestInv
  <1> QED BY <1>1, <1>2, <1>3, PTL DEF RequestSpec

-----------------------------------------------------------------------------
(* The planning telemetry. *)

Summaries == {"unknown", "stalled", "layer progress"}
Verdicts == {"converging", "not-converging", "inconclusive", "none"}
Records == [kind : {"none", "pass-summary", "intra-pass", "live-status", "earlier_run"},
            verdict : Verdicts, id : Nat]
Passes == [terminal : Nat, planned : Nat, complete : BOOLEAN]

TelemetryTypes ==
    /\ passes \in Seq(Passes)
    /\ statuses \in Seq(Summaries)
    /\ latestDiagnosis \in Verdicts
    /\ pending \in [Threads -> Records]
    /\ file \in Seq(Records)
    /\ initialized \in BOOLEAN
    /\ projected \in Nat

\* A record in flight has a number of its own, one already given out, and is not lost.
InFlight ==
    /\ lost \subseteq 1 .. projected
    /\ \A t \in Threads : pending[t].id \notin lost
    /\ \A t \in Threads : pending[t] # NoRecord <=> pending[t].id # 0
    /\ \A t \in Threads : pending[t].id <= projected
    /\ \A t, u \in Threads : t # u /\ pending[t].id = pending[u].id => pending[t].id = 0

\* Before the first claim of the file every record is in flight or lost.
NothingWritten ==
    ~initialized => \A n \in 1 .. projected : n \in lost \/ \E t \in Threads : pending[t].id = n

\* What is blocking is forgotten only between passes.
Blocked ==
    /\ WaitingStateKept
    /\ (latestBlocked = None) <=> (statuses = <<>>)

TelemetryInv ==
    TelemetryTypes /\ InFlight /\ NothingWritten /\ Blocked /\ VerdictMatchesTrend /\ FileIsThisRuns

\* The last status decides, when it says something.
LEMMA StatusKeeps ==
    ASSUME TelemetryTypes, Blocked, NEW s \in Summaries,
           latestBlocked' = Remember(s), statuses' = Append(statuses, s)
    PROVE  Blocked'
  <1>1. Len(statuses) \in Nat /\ DOMAIN statuses = 1 .. Len(statuses)
    BY DEF TelemetryTypes
  <1>2. PICK n : n = Len(statuses) + 1
    OBVIOUS
  <1>3. /\ n \in Nat /\ DOMAIN statuses' = 1 .. n /\ statuses'[n] = s /\ statuses' # <<>>
        /\ \A i \in DOMAIN statuses : i \in DOMAIN statuses' /\ i < n /\ statuses'[i] = statuses[i]
    BY <1>1, <1>2 DEF TelemetryTypes
  <1>4. \A i \in DOMAIN statuses' : i = n \/ i \in DOMAIN statuses
    BY <1>1, <1>2, <1>3
  <1>5. latestBlocked' # None
    BY DEF Blocked, Remember, Summaries, None
  <1>6. CASE s # "unknown"
    <2>1. latestBlocked' = s
      BY <1>6 DEF Remember
    <2>2. ASSUME NEW i \in DOMAIN statuses', statuses'[i] # "unknown",
                 \A j \in {k \in DOMAIN statuses' : statuses'[k] # "unknown"} : j <= i
          PROVE  i = n
      <3>1. n <= i
        BY <1>3, <1>6, <2>2
      <3> QED BY <1>3, <3>1
    <2>3. n \in {k \in DOMAIN statuses' : statuses'[k] # "unknown"}
      BY <1>3, <1>6
    <2>4. WaitingStateKept'
      BY <1>3, <2>1, <2>2, <2>3 DEF WaitingStateKept
    <2> QED BY <1>3, <1>5, <2>4 DEF Blocked
  <1>7. CASE s = "unknown"
    <2>1. \A i \in DOMAIN statuses' : statuses'[i] # "unknown" => i \in DOMAIN statuses /\ statuses[i] # "unknown"
      BY <1>3, <1>4, <1>7
    <2>2. \A i \in DOMAIN statuses : statuses[i] # "unknown" => i \in DOMAIN statuses' /\ statuses'[i] # "unknown"
      BY <1>3
    <2>3. {k \in DOMAIN statuses' : statuses'[k] # "unknown"} = {k \in DOMAIN statuses : statuses[k] # "unknown"}
      BY <2>1, <2>2
    <2>4. PICK known : known = {k \in DOMAIN statuses : statuses[k] # "unknown"}
      OBVIOUS
    <2>5. CASE known = {}
      <3>1. latestBlocked' = "unknown"
        <4>1. statuses = <<>> => latestBlocked = None
          BY DEF Blocked
        <4>2. statuses # <<>> => latestBlocked = "unknown"
          BY <2>4, <2>5 DEF Blocked, WaitingStateKept
        <4> QED BY <1>7, <4>1, <4>2 DEF Remember
      <3> QED BY <1>3, <1>5, <2>3, <2>4, <2>5, <3>1 DEF Blocked, WaitingStateKept
    <2>6. CASE known # {}
      <3>1. statuses # <<>>
        BY <2>4, <2>6
      <3>2. latestBlocked' = latestBlocked
        BY <1>7, <3>1 DEF Blocked, Remember
      <3>3. \A i \in known : statuses'[i] = statuses[i]
        BY <1>3, <2>4
      <3>4. \A i \in known : (\A j \in known : j <= i) => latestBlocked = statuses[i]
        BY <2>4 DEF Blocked, WaitingStateKept
      <3> QED BY <1>3, <1>5, <2>3, <2>4, <2>6, <3>2, <3>3, <3>4 DEF Blocked, WaitingStateKept
    <2> QED BY <2>5, <2>6
  <1> QED BY <1>6, <1>7

\* Projecting a record gives it the next number.
LEMMA ProjectKeeps ==
    ASSUME TelemetryTypes, InFlight, NothingWritten, FileIsThisRuns,
           NEW t \in Threads, NEW kind, kind # "none", NEW verdict, pending[t] = NoRecord, Project(t, kind, verdict),
           UNCHANGED <<file, initialized, lost>>
    PROVE  InFlight' /\ NothingWritten' /\ FileIsThisRuns'
  <1>1. PICK n : n = projected + 1
    OBVIOUS
  <1>2. n \in Nat /\ n # 0 /\ projected \in Nat /\ projected' = n /\ pending[t].id = 0
    BY <1>1 DEF TelemetryTypes, Project, NoRecord
  <1>3. /\ pending'[t] = [kind |-> kind, verdict |-> verdict, id |-> n] /\ pending'[t].id = n
        /\ \A u \in Threads : u # t => pending'[u] = pending[u]
    BY <1>1 DEF TelemetryTypes, Project
  <1>4. \A u \in Threads : pending[u].id \in Nat /\ pending[u].id <= projected /\ pending[u].id # n
    BY <1>1, <1>2 DEF TelemetryTypes, InFlight, Records
  <1>5. pending'[t] # NoRecord
    BY <1>2, <1>3 DEF NoRecord
  <1>9. n \notin lost
    BY <1>1, <1>2 DEF InFlight
  <1>6. InFlight'
    <2>1. \A u \in Threads : pending'[u] # NoRecord <=> pending'[u].id # 0
      BY <1>2, <1>3, <1>5 DEF InFlight
    <2>2. \A u \in Threads : pending'[u].id <= projected'
      BY <1>1, <1>2, <1>3, <1>4
    <2>3. \A u, v \in Threads : u # v /\ pending'[u].id = pending'[v].id => pending'[u].id = 0
      BY <1>3, <1>4 DEF InFlight
    <2>4. lost' \subseteq 1 .. projected'
      BY <1>1, <1>2 DEF InFlight
    <2>5. \A u \in Threads : pending'[u].id \notin lost'
      BY <1>3, <1>9 DEF InFlight
    <2> QED BY <2>1, <2>2, <2>3, <2>4, <2>5 DEF InFlight
  <1>7. NothingWritten'
    <2> SUFFICES ASSUME ~initialized', NEW m \in 1 .. n, m \notin lost PROVE \E u \in Threads : pending'[u].id = m
      BY <1>2 DEF NothingWritten
    <2>1. CASE m = n
      BY <1>3, <2>1
    <2>2. CASE m # n
      <3>1. m \in 1 .. projected
        BY <1>1, <1>2, <2>2
      <3>2. PICK u \in Threads : pending[u].id = m
        BY <3>1 DEF NothingWritten
      <3>3. u # t
        BY <1>2, <3>1, <3>2
      <3> QED BY <1>3, <3>2, <3>3
    <2> QED BY <2>1, <2>2
  <1>8. FileIsThisRuns'
    <2> DEFINE there == {pending[u].id : u \in Threads}
    <2>2. 1 .. projected' \ (lost' \cup there') = 1 .. projected \ (lost \cup there)
      <3>1. ASSUME NEW m, m \in 1 .. n, m \notin lost, \A u \in Threads : pending'[u].id # m
            PROVE  m \in 1 .. projected /\ \A u \in Threads : pending[u].id # m
        <4>1. m # n
          BY <1>3, <3>1
        <4>2. m \in 1 .. projected
          BY <1>1, <1>2, <3>1, <4>1
        <4> QED BY <1>2, <1>3, <3>1, <4>2
      <3>2. ASSUME NEW m, m \in 1 .. projected, \A u \in Threads : pending[u].id # m
            PROVE  m \in 1 .. n /\ \A u \in Threads : pending'[u].id # m
        BY <1>1, <1>2, <1>3, <3>2
      <3> QED BY <1>2, <3>1, <3>2
    <2> QED BY <2>2 DEF FileIsThisRuns
  <1> QED BY <1>6, <1>7, <1>8

\* A record that leaves its thread is lost, or joins what is kept of the file.
LEMMA WriteKeeps ==
    ASSUME TelemetryTypes, InFlight, NothingWritten, FileIsThisRuns, NEW t \in Threads, WriteRecord(t)
    PROVE  InFlight' /\ NothingWritten' /\ FileIsThisRuns'
  <1>1. PICK n : n = pending[t].id
    OBVIOUS
  <1>2. /\ pending'[t] = NoRecord /\ pending'[t].id = 0 /\ projected' = projected
        /\ \A u \in Threads : u # t => pending'[u] = pending[u]
    BY DEF TelemetryTypes, WriteRecord, NoRecord
  <1>3. n \in Nat /\ n # 0 /\ n <= projected /\ projected \in Nat /\ pending[t] \in Records
    BY <1>1 DEF TelemetryTypes, InFlight, WriteRecord, Records
  <1>4. \A u \in Threads : u # t => pending'[u].id # n
    BY <1>1, <1>2, <1>3 DEF InFlight
  <1>8. lost' = lost \/ lost' = lost \cup {n}
    BY <1>1 DEF WriteRecord
  <1>5. InFlight'
    <2>1. \A u \in Threads : pending'[u] # NoRecord <=> pending'[u].id # 0
      BY <1>2 DEF InFlight
    <2>2. \A u \in Threads : pending'[u].id <= projected'
      BY <1>2, <1>3 DEF InFlight
    <2>3. \A u, v \in Threads : u # v /\ pending'[u].id = pending'[v].id => pending'[u].id = 0
      BY <1>2 DEF InFlight
    <2>6. lost \subseteq 1 .. projected /\ n \in 1 .. projected /\ 0 \notin lost /\ 0 # n
      BY <1>3 DEF InFlight
    <2>4. lost' \subseteq 1 .. projected'
      BY <1>2, <1>8, <2>6
    <2>5. \A u \in Threads : pending'[u].id \notin lost'
      BY <1>2, <1>4, <1>8, <2>6 DEF InFlight
    <2> QED BY <2>1, <2>2, <2>3, <2>4, <2>5 DEF InFlight
  <1> DEFINE there == {pending[u].id : u \in Threads}
             ids(f) == {f[i].id : i \in DOMAIN f} \ {0}
  <1>6. /\ ids(file) = 1 .. projected \ (lost \cup there)
        /\ \A i, j \in DOMAIN file : i # j /\ file[i].id = file[j].id => file[i].id = 0
    BY DEF FileIsThisRuns
  <1>7. /\ ids(Kept) = 1 .. projected \ (lost \cup there)
        /\ \A i, j \in DOMAIN Kept : i # j /\ Kept[i].id = Kept[j].id => Kept[i].id = 0
        /\ lost = {} => \A i \in DOMAIN Kept : Kept[i] # OldRecord
    <2>1. CASE initialized
      BY <1>6, <2>1 DEF Kept, FileIsThisRuns, ToSet
    <2>2. CASE ~initialized
      <3>1. Kept = <<>> /\ 1 .. projected \ (lost \cup there) = {}
        BY <2>2 DEF Kept, NothingWritten
      <3>2. DOMAIN Kept = {}
        BY <3>1
      <3> QED BY <3>1, <3>2
    <2> QED BY <2>1, <2>2
  <1>9. /\ n \notin 1 .. projected \ (lost \cup there)
        /\ 1 .. projected \ (lost \cup {n} \cup there') = 1 .. projected \ (lost \cup there)
        /\ 1 .. projected \ (lost \cup there') = (1 .. projected \ (lost \cup there)) \cup {n}
    <2>1. there = (there' \ {0}) \cup {n} \/ there = there' \cup {n}
      BY <1>1, <1>2
    <2>2. n \in there /\ n \notin there' /\ n \notin lost /\ n \in 1 .. projected
      BY <1>1, <1>2, <1>3, <1>4 DEF InFlight
    <2> HIDE DEF there
    <2> QED BY <2>1, <2>2
  <1>10. CASE /\ lost' = lost \cup {n}
              /\ file' \in {file, Kept} /\ ((initialized' = initialized /\ file' = file) \/ initialized' = TRUE)
    <2>1. NothingWritten'
      BY <1>1, <1>2, <1>10 DEF NothingWritten
    <2>2. /\ ids(file') = 1 .. projected \ (lost \cup there)
          /\ \A i, j \in DOMAIN file' : i # j /\ file'[i].id = file'[j].id => file'[i].id = 0
      BY <1>6, <1>7, <1>10
    <2>3. ids(file') = 1 .. projected' \ (lost' \cup there') /\ lost' # {}
      BY <1>2, <1>9, <1>10, <2>2
    <2> QED BY <1>5, <2>1, <2>2, <2>3 DEF FileIsThisRuns
  <1>11. CASE lost' = lost /\ initialized' = TRUE /\ file' = Append(Kept, pending[t])
    <2>2. Kept \in Seq(Records) /\ Len(Kept) \in Nat /\ DOMAIN Kept = 1 .. Len(Kept)
      BY DEF TelemetryTypes, Kept
    <2>3. PICK k : k = Len(Kept) + 1
      OBVIOUS
    <2>4. /\ DOMAIN file' = 1 .. k /\ k \in DOMAIN file' /\ file'[k] = pending[t]
          /\ \A i \in DOMAIN Kept : i \in DOMAIN file' /\ i # k /\ file'[i] = Kept[i]
      BY <1>3, <1>11, <2>2, <2>3
    <2>5. \A i \in DOMAIN file' : i = k \/ i \in DOMAIN Kept
      BY <2>2, <2>3, <2>4
    <2>6. ids(file') = ids(Kept) \cup {n}
      BY <1>1, <1>3, <2>4, <2>5
    <2>7. ids(file') = 1 .. projected' \ (lost' \cup there')
      BY <1>2, <1>7, <1>9, <1>11, <2>6
    <2>8. \A i \in DOMAIN Kept : Kept[i].id # n
      BY <1>3, <1>7, <1>9
    <2>9. \A i, j \in DOMAIN file' : i # j /\ file'[i].id = file'[j].id => file'[i].id = 0
      BY <1>1, <1>7, <2>4, <2>5, <2>8
    <2>10. lost' = {} => OldRecord \notin ToSet(file')
      <3>1. pending[t] # OldRecord
        BY <1>1, <1>3 DEF OldRecord
      <3> QED BY <1>7, <1>11, <2>4, <2>5, <3>1 DEF ToSet
    <2>11. NothingWritten'
      BY <1>11 DEF NothingWritten
    <2> QED BY <1>5, <2>7, <2>9, <2>10, <2>11 DEF FileIsThisRuns
  <1> QED BY <1>1, <1>10, <1>11 DEF WriteRecord

\* The verdict of two reports is the trend between them.
LEMMA DiagnosisIsTrend ==
    ASSUME NEW before, NEW after, before.terminal \in Nat, before.planned \in Nat,
           after.terminal \in Nat, after.planned \in Nat
    PROVE  LET noWorse == Gap(after) <= Gap(before) /\ after.terminal >= before.terminal
               noBetter == Gap(after) >= Gap(before) /\ after.terminal <= before.terminal
           IN  /\ PassDiagnosis(before, after) \in {"converging", "not-converging", "inconclusive"}
               /\ PassDiagnosis(before, after) = "converging" <=> noWorse /\ ~noBetter
               /\ PassDiagnosis(before, after) = "not-converging" <=> noBetter
  <1> DEFINE noWorse == Gap(after) <= Gap(before) /\ after.terminal >= before.terminal
             noBetter == Gap(after) >= Gap(before) /\ after.terminal <= before.terminal
  <1>1. Gap(before) \in Nat /\ Gap(after) \in Nat
    BY DEF Gap
  <1>2. Improves(before, after) <=> ~noBetter
    BY <1>1 DEF Improves
  <1>3. Regresses(before, after) <=> ~noWorse
    BY <1>1 DEF Regresses
  <1> HIDE DEF noWorse, noBetter
  <1>4. CASE Improves(before, after) /\ ~Regresses(before, after)
    <2>1. PassDiagnosis(before, after) = "converging"
      BY <1>4 DEF PassDiagnosis
    <2> QED BY <1>2, <1>3, <1>4, <2>1 DEF noWorse, noBetter
  <1>5. CASE ~Improves(before, after)
    <2>1. PassDiagnosis(before, after) = "not-converging"
      BY <1>5 DEF PassDiagnosis
    <2> QED BY <1>2, <1>3, <1>5, <2>1 DEF noWorse, noBetter
  <1>6. CASE Improves(before, after) /\ Regresses(before, after)
    <2>1. PassDiagnosis(before, after) = "inconclusive"
      BY <1>6 DEF PassDiagnosis
    <2> QED BY <1>2, <1>3, <1>6, <2>1 DEF noWorse, noBetter
  <1> QED BY <1>4, <1>5, <1>6

\* Adding a pass: the verdict kept is that of the pass against the one before.
LEMMA PassKeeps ==
    ASSUME TelemetryTypes, NEW rep \in Reports, NEW complete \in BOOLEAN,
           latestDiagnosis' = Diagnosis(rep, complete),
           passes' = Append(passes, [terminal |-> rep.terminal, planned |-> rep.planned, complete |-> complete])
    PROVE  /\ passes' \in Seq(Passes)
           /\ Diagnosis(rep, complete) \in {"converging", "not-converging", "inconclusive"}
           /\ VerdictMatchesTrend'
  <1>1. PICK p : p = [terminal |-> rep.terminal, planned |-> rep.planned, complete |-> complete]
    OBVIOUS
  <1>2. p \in Passes /\ p.terminal = rep.terminal /\ p.planned = rep.planned /\ p.complete = complete
    BY <1>1, PlanningTelemetryAssumption DEF Passes, Reports
  <1>3. passes' = Append(passes, p) /\ Len(passes) \in Nat
    BY <1>1 DEF TelemetryTypes
  <1>4. passes' \in Seq(Passes)
    BY <1>2, <1>3 DEF TelemetryTypes
  <1>5. Len(passes') = Len(passes) + 1 /\ passes'[Len(passes')] = p /\ Last(passes') = p
        /\ (passes # <<>> => passes'[Len(passes') - 1] = Last(passes) /\ Last(passes) \in Passes)
    BY <1>2, <1>3 DEF TelemetryTypes, Last
  <1>6. CASE complete
    BY <1>2, <1>4, <1>5, <1>6 DEF Diagnosis, VerdictMatchesTrend
  <1>7. CASE ~complete /\ passes = <<>>
    <2>1. ~(Len(passes') > 1)
      BY <1>5, <1>7
    <2> QED BY <1>4, <1>7, <2>1 DEF Diagnosis, VerdictMatchesTrend
  <1>8. CASE ~complete /\ passes # <<>>
    <2>1. PICK before : before = Last(passes)
      OBVIOUS
    <2>2. Diagnosis(rep, complete) = PassDiagnosis(before, rep) /\ before \in Passes
      BY <1>5, <1>8, <2>1 DEF Diagnosis
    <2>3. PassDiagnosis(before, rep) = PassDiagnosis(before, p)
      BY <1>2 DEF PassDiagnosis, Improves, Regresses, Gap
    <2>4. before.terminal \in Nat /\ before.planned \in Nat /\ p.terminal \in Nat /\ p.planned \in Nat
      BY <1>2, <2>2 DEF Passes
    <2>5. VerdictMatchesTrend'
      BY <1>5, <1>8, <2>1, <2>2, <2>3, <2>4, DiagnosisIsTrend DEF VerdictMatchesTrend
    <2> QED BY <1>4, <2>2, <2>3, <2>4, <2>5, DiagnosisIsTrend
  <1> QED BY <1>6, <1>7, <1>8

\* What a stalled clustering is diagnosed by is of the pass in progress, of the trend
\* between passes and of this run's records, for all partition counts, any number of
\* statuses and passes and both threads in every order (project_planning_status,
\* project_pass_summary, write_json_record).
THEOREM TelemetrySafe == TelemetrySpec => []TelemetrySound
  <1>1. TelemetryInit => TelemetryInv
    <2> SUFFICES ASSUME NEW contract, NEW earlier \in {<<>>, <<OldRecord>>}, TelemetryStart(contract, earlier)
                 PROVE  TelemetryInv
      BY DEF TelemetryInit
    <2> USE DEF TelemetryStart
    <2>7. NoRecord \in Records /\ OldRecord \in Records
      BY DEF NoRecord, OldRecord, Records, Verdicts
    <2>1. earlier \in Seq(Records)
      <3>1. <<>> \in Seq(Records) /\ <<OldRecord>> \in Seq(Records)
        BY <2>7
      <3> QED BY <3>1
    <2>2. \A t \in Threads : pending[t] = NoRecord /\ pending[t].id = 0
      BY DEF NoRecord
    <2>8. passes \in Seq(Passes) /\ statuses \in Seq(Summaries) /\ file \in Seq(Records)
      BY <2>1
    <2>9. latestDiagnosis \in Verdicts /\ pending \in [Threads -> Records]
      BY <2>7 DEF Verdicts, None
    <2>3. TelemetryTypes
      BY <2>8, <2>9 DEF TelemetryTypes
    <2>4. InFlight /\ NothingWritten
      BY <2>2 DEF InFlight, NothingWritten
    <2>10. FileIsThisRuns
      <3>1. \A i \in DOMAIN earlier : earlier[i].id = 0
        BY DEF OldRecord
      <3>2. {earlier[i].id : i \in DOMAIN earlier} \ {0} = {} /\ 1 .. 0 = {}
        BY <3>1
      <3> QED BY <3>1, <3>2 DEF FileIsThisRuns
    <2>5. Blocked
      BY DEF Blocked, WaitingStateKept
    <2>6. VerdictMatchesTrend
      BY DEF VerdictMatchesTrend
    <2> QED BY <2>3, <2>4, <2>5, <2>6, <2>10 DEF TelemetryInv
  <1>2. TelemetryInv /\ [TelemetryNext]_telemetryVars => TelemetryInv'
    <2> SUFFICES ASSUME TelemetryInv, [TelemetryNext]_telemetryVars PROVE TelemetryInv'
      OBVIOUS
    <2>a. TelemetryTypes /\ InFlight /\ NothingWritten /\ Blocked /\ VerdictMatchesTrend /\ FileIsThisRuns
      BY DEF TelemetryInv
    <2>1. ASSUME NEW rep \in Reports, NEW complete \in BOOLEAN, PassCompleted(rep, complete)
          PROVE  TelemetryInv'
      <3>1. /\ pending["task"] = NoRecord /\ Project("task", "pass-summary", Diagnosis(rep, complete))
            /\ UNCHANGED <<family, file, initialized, lost>>
            /\ latestBlocked' = None /\ statuses' = <<>>
            /\ latestDiagnosis' = Diagnosis(rep, complete)
            /\ passes' = Append(passes, [terminal |-> rep.terminal, planned |-> rep.planned, complete |-> complete])
        BY <2>1 DEF PassCompleted, BlockedAfterPass
      <3>2. /\ passes' \in Seq(Passes)
            /\ Diagnosis(rep, complete) \in {"converging", "not-converging", "inconclusive"}
            /\ VerdictMatchesTrend'
        BY <2>a, <3>1, PassKeeps
      <3>3. InFlight' /\ NothingWritten' /\ FileIsThisRuns'
        BY <2>a, <3>1, ProjectKeeps DEF Threads
      <3>4. TelemetryTypes'
        <4>1. pending' \in [Threads -> Records] /\ projected' \in Nat
          <5>1. /\ projected \in Nat
                /\ [kind |-> "pass-summary", verdict |-> Diagnosis(rep, complete), id |-> projected + 1] \in Records
            BY <2>a, <3>2 DEF TelemetryTypes, Records, Verdicts
          <5>2. PICK r : r = [kind |-> "pass-summary", verdict |-> Diagnosis(rep, complete), id |-> projected + 1]
            OBVIOUS
          <5>3. pending' = [pending EXCEPT !["task"] = r] /\ projected' = projected + 1 /\ r \in Records
            BY <3>1, <5>1, <5>2 DEF Project
          <5>4. pending \in [Threads -> Records]
            BY <2>a DEF TelemetryTypes
          <5>5. projected' \in Nat
            BY <5>1, <5>3
          <5>6. pending' \in [Threads -> Records]
            BY <5>3, <5>4
          <5> QED BY <5>5, <5>6
        <4> QED BY <2>a, <3>1, <3>2, <4>1 DEF TelemetryTypes, Verdicts
      <3>5. Blocked'
        BY <3>1 DEF Blocked, WaitingStateKept
      <3> QED BY <3>2, <3>3, <3>4, <3>5 DEF TelemetryInv
    <2>2. ASSUME NEW ph \in {"planning-pass", "hierarchy", "partition", "final-replay"},
                 NEW state \in {"in-progress", "completed"}, NEW evidence \in {"stalled", None},
                 StatusReported(ph, state, evidence)
          PROVE  TelemetryInv'
      <3>1. PICK s : s = BlockedOn(ph, evidence)
        OBVIOUS
      <3>2. s \in Summaries
        BY <3>1 DEF BlockedOn, Summaries
      <3>3. PICK verdict : verdict = IF latestDiagnosis = None THEN "inconclusive" ELSE latestDiagnosis
        OBVIOUS
      <3>4. /\ pending["indexer"] = NoRecord
            /\ latestBlocked' = Remember(s) /\ statuses' = Append(statuses, s)
            /\ UNCHANGED <<family, passes, latestDiagnosis, file, initialized, lost>>
        BY <2>2, <3>1 DEF StatusReported
      <3>5. Blocked'
        BY <2>a, <3>2, <3>4, StatusKeeps
      <3>6. VerdictMatchesTrend'
        BY <2>a, <3>4 DEF VerdictMatchesTrend
      <3>7. statuses' \in Seq(Summaries)
        BY <2>a, <3>2, <3>4 DEF TelemetryTypes
      <3>8. CASE UNCHANGED <<pending, projected>>
        <4>1. InFlight' /\ NothingWritten' /\ FileIsThisRuns'
          BY <2>a, <3>4, <3>8 DEF InFlight, NothingWritten, FileIsThisRuns
        <4>2. TelemetryTypes'
          BY <2>a, <3>4, <3>7, <3>8 DEF TelemetryTypes
        <4> QED BY <3>5, <3>6, <4>1, <4>2 DEF TelemetryInv
      <3>9. ASSUME NEW kind \in {"intra-pass", "live-status"}, Project("indexer", kind, verdict)
            PROVE  TelemetryInv'
        <4>1. InFlight' /\ NothingWritten' /\ FileIsThisRuns'
          BY <2>a, <3>4, <3>9, ProjectKeeps DEF Threads
        <4>2. verdict \in Verdicts
          BY <2>a, <3>3 DEF TelemetryTypes, Verdicts
        <4>3. pending' \in [Threads -> Records] /\ projected' \in Nat
          <5>1. projected \in Nat /\ [kind |-> kind, verdict |-> verdict, id |-> projected + 1] \in Records
            BY <2>a, <4>2 DEF TelemetryTypes, Records
          <5>2. PICK r : r = [kind |-> kind, verdict |-> verdict, id |-> projected + 1]
            OBVIOUS
          <5>3. pending' = [pending EXCEPT !["indexer"] = r] /\ projected' = projected + 1 /\ r \in Records
            BY <3>9, <5>1, <5>2 DEF Project
          <5>4. pending \in [Threads -> Records]
            BY <2>a DEF TelemetryTypes
          <5>5. projected' \in Nat
            BY <5>1, <5>3
          <5>6. pending' \in [Threads -> Records]
            BY <5>3, <5>4
          <5> QED BY <5>5, <5>6
        <4>4. TelemetryTypes'
          BY <2>a, <3>4, <3>7, <4>3 DEF TelemetryTypes
        <4> QED BY <3>5, <3>6, <4>1, <4>4 DEF TelemetryInv
      <3>10. RecordedKind(ph, state) \in {"intra-pass", "live-status", None}
        BY DEF RecordedKind
      <3>11. CASE RecordedKind(ph, state) = None
        BY <2>2, <3>8, <3>11 DEF StatusReported
      <3>12. CASE RecordedKind(ph, state) # None
        BY <2>2, <3>3, <3>9, <3>10, <3>12 DEF StatusReported
      <3> QED BY <3>11, <3>12
    <2>3. ASSUME NEW t \in Threads, WriteRecord(t)
          PROVE  TelemetryInv'
      <3>1. UNCHANGED <<family, passes, latestDiagnosis, latestBlocked, statuses, projected>>
        BY <2>3 DEF WriteRecord
      <3>2. InFlight' /\ NothingWritten' /\ FileIsThisRuns'
        BY <2>a, <2>3, WriteKeeps
      <3>3. VerdictMatchesTrend' /\ Blocked'
        BY <2>a, <3>1 DEF VerdictMatchesTrend, Blocked, WaitingStateKept
      <3>4. TelemetryTypes'
        <4>1. NoRecord \in Records
          BY DEF NoRecord, Records, Verdicts
        <4>2. pending' \in [Threads -> Records] /\ initialized' \in BOOLEAN
          BY <2>a, <2>3, <4>1 DEF TelemetryTypes, WriteRecord
        <4>3. file' \in Seq(Records)
          <5>1. Kept \in Seq(Records) /\ pending[t] \in Records /\ file \in Seq(Records)
            BY <2>a DEF TelemetryTypes, Kept
          <5>2. file' = Append(Kept, pending[t]) \/ file' = file \/ file' = Kept
            BY <2>3 DEF WriteRecord
          <5> QED BY <5>1, <5>2
        <4> QED BY <2>a, <3>1, <4>2, <4>3 DEF TelemetryTypes
      <3> QED BY <3>2, <3>3, <3>4 DEF TelemetryInv
    <2>4. CASE UNCHANGED telemetryVars
      <3>1. TelemetryTypes' /\ InFlight' /\ NothingWritten'
        BY <2>a, <2>4 DEF telemetryVars, TelemetryTypes, InFlight, NothingWritten
      <3>2. Blocked'
        BY <2>a, <2>4 DEF telemetryVars, Blocked, WaitingStateKept
      <3>3. VerdictMatchesTrend'
        BY <2>a, <2>4 DEF telemetryVars, VerdictMatchesTrend
      <3>4. FileIsThisRuns'
        BY <2>a, <2>4 DEF telemetryVars, FileIsThisRuns
      <3> QED BY <3>1, <3>2, <3>3, <3>4 DEF TelemetryInv
    <2> QED BY <2>1, <2>2, <2>3, <2>4 DEF TelemetryNext
  <1>3. TelemetryInv => TelemetrySound
    BY DEF TelemetryInv, TelemetrySound, Blocked
  <1> QED BY <1>1, <1>2, <1>3, PTL DEF TelemetrySpec
=============================================================================
