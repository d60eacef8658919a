---------------------------- MODULE EmbeddingPool ----------------------------
(***************************************************************************)
(* Tasks that embed the items of a batch concurrently and put their        *)
(* results back by index: build_leaf_blocks_concurrently (runtime.rs),     *)
(* which keeps max_concurrency tasks running, each resolving its item,     *)
(* embedding it and building its leaf, and embed_batch (embedding.rs),     *)
(* which spawns a task for every input.  Both embed with embed_impl, which *)
(* tries again on a class of failures a bounded number of times.           *)
(*                                                                         *)
(* The resolver and the embedding service are external: an item resolves   *)
(* or not, and an attempt ends in one of the outcomes the code tells       *)
(* apart.  The first error that is joined ends the pool, and with it every *)
(* task that still runs.                                                   *)
(***************************************************************************)
EXTENDS Naturals, FiniteSets

CONSTANTS
    N,              \* items of the batch
    Concurrency,    \* max_concurrency of build_leaf_blocks_concurrently
    MaxRetries      \* max_retries

ASSUME EmbeddingPoolAssumption ==
    N \in Nat \ {0} /\ Concurrency \in Nat /\ MaxRetries \in Nat

Items == 1..N
NoResult == 0

\* How an attempt can end: a vector; one of 429, 502, 503 and 504; no response;
\* any other status; a body that is no list of vectors, has none, or one of the
\* wrong length.
Retryable == {"status", "transport"}
Outcomes == Retryable \cup {"ok", "refused", "unusable"}

VARIABLES
    caller,     \* "leaves" (build_leaf_blocks_concurrently) or "batch" (embed_batch)
    gateway,    \* the HTTP/3 provider, whose report counts differently
    next,       \* next_index, one-based
    task,       \* each item's task
    attempt,    \* attempts each task has begun
    failed,     \* each task's error: none, or the number of attempts reported
    completed,  \* completed[index]: the embedding put there
    ended,      \* how the pool has ended
    final       \* the items of which an attempt ended with no call for another

poolVars == <<caller, gateway, next, task, attempt, failed, completed, ended, final>>

TaskStates == {"unspawned", "resolve", "send", "sleep", "ok", "error", "joined", "aborted"}
Running == {i \in Items : task[i] \in {"resolve", "send", "sleep"}}
Unjoined == {i \in Items : task[i] \in {"resolve", "send", "sleep", "ok", "error"}}

FirstStep == IF caller = "leaves" THEN "resolve" ELSE "send"

\* max_concurrency.max(1).min(items.len()); embed_batch spawns every task.
InitialTasks ==
    LET atLeastOne == IF Concurrency = 0 THEN 1 ELSE Concurrency
    IN  IF caller = "leaves" /\ atLeastOne < N THEN atLeastOne ELSE N

PoolStart(by, remote) ==
    /\ caller = by
    /\ gateway = remote
    /\ next = InitialTasks + 1
    /\ task = [i \in Items |-> IF i <= InitialTasks THEN FirstStep ELSE "unspawned"]
    /\ attempt = [i \in Items |-> 0]
    /\ failed = [i \in Items |-> NoResult]
    /\ completed = [i \in Items |-> NoResult]
    /\ ended = "no"
    /\ final = {}

PoolInit == \E by \in {"leaves", "batch"}, remote \in BOOLEAN : PoolStart(by, remote)

\* construct_leaf_block_batch: the content is there, or the task fails.
Resolve(i) ==
    /\ task[i] = "resolve"
    /\ task' \in {[task EXCEPT ![i] = "send"], [task EXCEPT ![i] = "error"]}
    /\ UNCHANGED <<caller, gateway, next, attempt, failed, completed, ended, final>>

MaxAttempts == MaxRetries + 1

\* should_retry, and the transport errors' own test.
ShouldRetry(outcome, n) == outcome \in Retryable /\ n < MaxAttempts

\* What RequestFailed reports: the attempts made, or in the gateway provider
\* the attempts allowed, unless the response itself was at fault.
Reported(outcome, n) == IF gateway /\ outcome # "unusable" THEN MaxAttempts ELSE n

\* One request of embed_impl and what it leads to.
Attempt(i, outcome) ==
    LET n == attempt[i] + 1
    IN  /\ task[i] = "send"
        /\ attempt' = [attempt EXCEPT ![i] = n]
        /\ final' = IF outcome \in Retryable THEN final ELSE final \cup {i}
        /\ IF outcome = "ok"
           THEN task' = [task EXCEPT ![i] = "ok"] /\ UNCHANGED failed
           ELSE IF ShouldRetry(outcome, n)
           THEN task' = [task EXCEPT ![i] = "sleep"] /\ UNCHANGED failed
           ELSE /\ task' = [task EXCEPT ![i] = "error"]
                /\ failed' = [failed EXCEPT ![i] = Reported(outcome, n)]
        /\ UNCHANGED <<caller, gateway, next, completed, ended>>

\* retry_delay is over.
Wake(i) ==
    /\ task[i] = "sleep"
    /\ task' = [task EXCEPT ![i] = "send"]
    /\ UNCHANGED <<caller, gateway, next, attempt, failed, completed, ended, final>>

\* The embedding of an item.
EmbeddingOf(i) == i

\* Mutant: results are put where the completion counter is.
PutByCompletion(i) == Cardinality({j \in Items : completed[j] # NoResult}) + 1

\* completed[batch_index], results[index].
Slot(i) == i

\* join_next returns a task that is over: its result is put back, and the next
\* item gets a task.
JoinOk(i) ==
    /\ ended = "no"
    /\ task[i] = "ok"
    /\ completed' = [completed EXCEPT ![Slot(i)] = EmbeddingOf(i)]
    /\ task' = [j \in Items |-> CASE j = i -> "joined"
                                  [] j = next -> FirstStep
                                  [] OTHER -> task[j]]
    /\ next' = IF next <= N THEN next + 1 ELSE next
    /\ UNCHANGED <<caller, gateway, attempt, failed, ended, final>>

\* Its error is returned, and dropping the JoinSet aborts the others.
JoinError(i) ==
    /\ ended = "no"
    /\ task[i] = "error"
    /\ ended' = "error"
    /\ task' = [j \in Items |-> IF j = i THEN "joined" ELSE
                                IF j \in Unjoined THEN "aborted" ELSE task[j]]
    /\ UNCHANGED <<caller, gateway, next, attempt, failed, completed, final>>

\* Every task was joined: the results are collected in order.
Collect ==
    /\ ended = "no"
    /\ Unjoined = {}
    /\ ended' = "ok"
    /\ UNCHANGED <<caller, gateway, next, task, attempt, failed, completed, final>>

ItemStep(i) == Resolve(i) \/ Wake(i) \/ JoinOk(i) \/ JoinError(i) \/ \E o \in Outcomes : Attempt(i, o)

PoolNext == Collect \/ \E i \in Items : ItemStep(i)

\* Tasks are polled, requests end or time out (request_timeout_secs), delays pass.
PoolSpec == PoolInit /\ [][PoolNext]_poolVars
            /\ WF_poolVars(Collect) /\ \A i \in Items : WF_poolVars(ItemStep(i))

----------------------------------------------------------------------------
(* Properties.                                                              *)

\* The variables have their types.
PoolTypeOK ==
    /\ next \in 1..(N + 1)
    /\ task \in [Items -> TaskStates]
    /\ attempt \in [Items -> 0..MaxAttempts]
    /\ completed \in [Items -> {NoResult} \cup Items]
    /\ ended \in {"no", "ok", "error"}

\* The collected results are complete and in the order of the items, whatever
\* the order the tasks ended in: flatten and zip drop and shift nothing.
ResultsInItemOrder == ended = "ok" => \A i \in Items : completed[i] = EmbeddingOf(i)

\* No more than max_concurrency tasks run, and the pool never idles: while items
\* are left, exactly that many tasks are unjoined.
PoolKeptFull ==
    /\ Cardinality(Running) <= InitialTasks
    /\ ended = "no" /\ next <= N => Cardinality(Unjoined) = InitialTasks

\* A service that refuses a request, or answers with something unusable, is not
\* asked again, and an answer that was good is final.
OnlyRetryableRetried == \A i \in final : task[i] \notin {"send", "sleep"}

\* The pool has begun and not ended.
PoolUnderWay == ended = "no" /\ \E i \in Items : task[i] \notin {FirstStep, "unspawned"}

\* "embedding request failed after {attempts} attempts": that many were made,
\* except that the HTTP/3 provider reports all the attempts it was allowed.
AttemptsReported ==
    \A i \in Items : failed[i] # NoResult =>
        \/ failed[i] = attempt[i]
        \/ gateway /\ failed[i] = MaxAttempts /\ attempt[i] < MaxAttempts

\* Whatever the order, the number and the kind of the answers, the pool is full
\* while there is work, asks again only where that may help, says how often it
\* did, and gives each item the embedding made for it
\* (build_leaf_blocks_concurrently, embed_batch, should_retry).
PoolSound ==
    PoolTypeOK /\ ResultsInItemOrder /\ PoolKeptFull /\ OnlyRetryableRetried /\ AttemptsReported
=============================================================================
