----------------------------- MODULE TaskProofs -----------------------------
(***************************************************************************)
(* Proofs about the indexer's tasks: the bounded pool of embedding         *)
(* requests (EmbeddingPool), the streaming stage that an interrupt cuts    *)
(* short (StreamingStage), the heartbeat that reports on a long call       *)
(* (OperatorHeartbeat), and the replay order (ReplayOrder): the external   *)
(* sort is a sort, for every journal, every length of a run, every fan-in  *)
(* of a merge and every batch size, whatever scratch files fail; its       *)
(* invariant follows every input through the places it can be in.          *)
(***************************************************************************)
EXTENDS EmbeddingPool, StreamingStage, OperatorHeartbeat, ReplayOrder, SequenceTheorems,
        NaturalsInduction, WellFoundedInduction, FiniteSetTheorems, TLAPS

-----------------------------------------------------------------------------
(* The pool of embedding tasks. *)

Over == {"ok", "error", "joined", "aborted"}

\* Types: PoolTypeOK and the variables it leaves out.
PoolTypes ==
    /\ PoolTypeOK
    /\ caller \in {"leaves", "batch"}
    /\ failed \in [Items -> Nat]
    /\ final \subseteq Items

\* Items get their tasks in order; a joined task has left its result, and as long
\* as the pool goes on nothing is aborted.
TasksInOrder ==
    /\ \A i \in Items : task[i] = "unspawned" <=> i >= next
    /\ \A i \in Items : task[i] = "joined" /\ ended # "error" => completed[i] = i
    /\ ended = "no" => \A i \in Items : task[i] # "aborted"
    /\ ended = "ok" => \A i \in Items : task[i] = "joined"
    /\ ended = "error" => Unjoined = {}

\* The number of tasks, in a form that is inductive: when no item is left it only
\* has an upper bound.
TasksCounted ==
    ended = "no" => /\ Cardinality(Unjoined) <= InitialTasks
                    /\ next <= N => Cardinality(Unjoined) = InitialTasks

\* Attempts: a task that may still send has one left, one whose last answer was
\* final does not send, and an error is reported when the task is over.
AttemptsLeft ==
    \A i \in Items :
       /\ task[i] \notin Over => attempt[i] < MaxAttempts /\ failed[i] = NoResult
       /\ i \in final => task[i] \in Over

PoolInv == PoolTypes /\ TasksInOrder /\ TasksCounted /\ AttemptsLeft /\ AttemptsReported

\* At least one task is spawned, and at most one for each item.
LEMMA InitialTasksIs == InitialTasks \in 1..N
  BY EmbeddingPoolAssumption DEF InitialTasks

\* Sets of items are finite.
LEMMA ItemSets ==
    ASSUME NEW S \in SUBSET Items
    PROVE  IsFiniteSet(S) /\ Cardinality(S) \in Nat
  <1>1. IsFiniteSet(Items)
    BY FS_Interval, EmbeddingPoolAssumption DEF Items
  <1> QED BY <1>1, FS_Subset, FS_CardinalityType

\* The number of tasks at the start.
LEMMA PoolInitInv ==
    ASSUME PoolInit
    PROVE  PoolInv
  <1>0. PICK by \in {"leaves", "batch"}, remote \in BOOLEAN : PoolStart(by, remote)
    BY DEF PoolInit
  <1>1. N \in Nat \ {0} /\ InitialTasks \in 1..N /\ MaxAttempts \in Nat \ {0}
    BY EmbeddingPoolAssumption, InitialTasksIs DEF MaxAttempts
  <1>2. FirstStep \in {"resolve", "send"}
    BY DEF FirstStep
  <1>3. /\ task = [i \in Items |-> IF i <= InitialTasks THEN FirstStep ELSE "unspawned"]
        /\ attempt = [i \in Items |-> 0] /\ failed = [i \in Items |-> 0]
        /\ completed = [i \in Items |-> 0] /\ next = InitialTasks + 1 /\ ended = "no" /\ final = {}
        /\ caller = by
    BY <1>0 DEF PoolStart, NoResult
  <1>4. PoolTypes
    BY <1>1, <1>2, <1>3 DEF PoolTypes, PoolTypeOK, TaskStates, NoResult
  <1>5. TasksInOrder
    BY <1>1, <1>2, <1>3 DEF TasksInOrder, Items
  <1>6. Unjoined = 1..InitialTasks
    BY <1>1, <1>2, <1>3 DEF Unjoined, Items
  <1>7. Cardinality(Unjoined) = InitialTasks
    BY <1>1, <1>6, FS_Interval
  <1>8. TasksCounted
    BY <1>1, <1>3, <1>7 DEF TasksCounted
  <1>9. AttemptsLeft /\ AttemptsReported
    BY <1>1, <1>3 DEF AttemptsLeft, AttemptsReported, NoResult
  <1> QED BY <1>4, <1>5, <1>8, <1>9 DEF PoolInv

\* A task goes on, and nothing else of the pool's bookkeeping changes.
TaskGoes(i, to) ==
    /\ task[i] \in {"resolve", "send", "sleep"}
    /\ to \in {"resolve", "send", "sleep", "ok", "error"}
    /\ task' = [task EXCEPT ![i] = to]
    /\ UNCHANGED <<caller, next, completed, ended>>

\* A step of one unjoined task that stays unjoined.
LEMMA TaskMoves ==
    ASSUME PoolInv, NEW i \in Items, NEW to, TaskGoes(i, to)
    PROVE  /\ task' \in [Items -> TaskStates]
           /\ task'[i] = to /\ \A j \in Items : j # i => task'[j] = task[j]
           /\ TasksInOrder' /\ TasksCounted'
  <1> USE DEF TaskGoes
  <1>1. task \in [Items -> TaskStates]
    BY DEF PoolInv, PoolTypes, PoolTypeOK
  <1>2. /\ task' \in [Items -> TaskStates]
        /\ task'[i] = to /\ \A j \in Items : j # i => task'[j] = task[j]
    BY <1>1 DEF TaskStates
  <1>3. Unjoined' = Unjoined
    BY <1>2 DEF Unjoined
  <1>4. i \in Unjoined
    BY DEF Unjoined
  <1>5. TasksInOrder'
    BY <1>2, <1>3, <1>4 DEF PoolInv, TasksInOrder
  <1>6. InitialTasks' = InitialTasks
    BY DEF InitialTasks
  <1>7. TasksCounted'
    BY <1>3, <1>6 DEF PoolInv, TasksCounted
  <1> QED BY <1>2, <1>5, <1>7

\* A task resolves its content, or its delay is over.
LEMMA ResolveKeeps ==
    ASSUME PoolInv, NEW i \in Items, Resolve(i) \/ Wake(i)
    PROVE  PoolInv'
  <1>1. /\ task[i] \in {"resolve", "send", "sleep"}
        /\ UNCHANGED <<caller, gateway, next, attempt, failed, completed, ended, final>>
    BY DEF Resolve, Wake
  <1>2. PICK to \in {"send", "error"} : task' = [task EXCEPT ![i] = to]
    BY DEF Resolve, Wake
  <1>3. /\ task' \in [Items -> TaskStates]
        /\ task'[i] = to /\ \A j \in Items : j # i => task'[j] = task[j]
        /\ TasksInOrder' /\ TasksCounted'
    <2>1. TaskGoes(i, to)
      BY <1>1, <1>2 DEF TaskGoes
    <2> QED BY <2>1, TaskMoves
  <1>4. PoolTypes'
    BY <1>1, <1>3 DEF PoolInv, PoolTypes, PoolTypeOK
  <1>5. AttemptsLeft'
    <2>1. task[i] \notin Over
      BY <1>1 DEF Over
    <2> QED BY <1>1, <1>3, <2>1 DEF PoolInv, AttemptsLeft
  <1>6. AttemptsReported'
    BY <1>1 DEF PoolInv, AttemptsReported
  <1> QED BY <1>3, <1>4, <1>5, <1>6 DEF PoolInv

\* One request and its answer.
LEMMA AttemptKeeps ==
    ASSUME PoolInv, NEW i \in Items, NEW o \in Outcomes, Attempt(i, o)
    PROVE  PoolInv'
  <1>0. /\ attempt \in [Items -> 0..MaxAttempts] /\ failed \in [Items -> Nat]
        /\ MaxAttempts \in Nat /\ final \subseteq Items
    BY EmbeddingPoolAssumption DEF PoolInv, PoolTypes, PoolTypeOK, MaxAttempts
  <1>1. /\ task[i] = "send" /\ UNCHANGED <<caller, gateway, next, completed, ended>>
        /\ attempt' = [attempt EXCEPT ![i] = attempt[i] + 1]
        /\ final' = IF o \in Retryable THEN final ELSE final \cup {i}
    BY DEF Attempt
  <1>2. attempt[i] < MaxAttempts /\ failed[i] = 0 /\ i \notin final
    BY <1>1 DEF PoolInv, AttemptsLeft, Over, NoResult
  <1>3. PICK n : n = attempt[i] + 1
    OBVIOUS
  <1>4. n \in 1..MaxAttempts
    BY <1>0, <1>2, <1>3
  <1>5. PICK to \in {"ok", "sleep", "error"}, f \in Nat :
           /\ task' = [task EXCEPT ![i] = to]
           /\ failed' = [failed EXCEPT ![i] = f]
           /\ to = "sleep" => o \in Retryable /\ n < MaxAttempts
           /\ to # "error" => f = 0
           /\ f \in {0, n} \/ (gateway /\ f = MaxAttempts)
    <2>1. [failed EXCEPT ![i] = 0] = failed
      BY <1>0, <1>2
    <2>2. CASE o = "ok"
      <3>1. task' = [task EXCEPT ![i] = "ok"] /\ failed' = failed
        BY <2>2 DEF Attempt
      <3> QED BY <2>1, <3>1
    <2>3. CASE o # "ok" /\ ShouldRetry(o, n)
      <3>1. task' = [task EXCEPT ![i] = "sleep"] /\ failed' = failed
        BY <1>3, <2>3 DEF Attempt
      <3>2. o \in Retryable /\ n < MaxAttempts
        BY <2>3 DEF ShouldRetry
      <3> QED BY <2>1, <3>1, <3>2
    <2>4. CASE o # "ok" /\ ~ShouldRetry(o, n)
      <3>1. task' = [task EXCEPT ![i] = "error"] /\ failed' = [failed EXCEPT ![i] = Reported(o, n)]
        BY <1>3, <2>4 DEF Attempt
      <3>2. CASE gateway /\ o # "unusable"
        <4>1. Reported(o, n) = MaxAttempts
          BY <3>2 DEF Reported
        <4> QED BY <1>0, <3>1, <3>2, <4>1
      <3>3. CASE ~(gateway /\ o # "unusable")
        <4>1. Reported(o, n) = n
          BY <3>3 DEF Reported
        <4>2. n \in Nat
          BY <1>4
        <4> QED BY <3>1, <4>1, <4>2
      <3> QED BY <3>2, <3>3
    <2> QED BY <2>2, <2>3, <2>4
  <1>6. /\ task' \in [Items -> TaskStates]
        /\ task'[i] = to /\ \A j \in Items : j # i => task'[j] = task[j]
        /\ TasksInOrder' /\ TasksCounted'
    <2>1. TaskGoes(i, to)
      BY <1>1, <1>5 DEF TaskGoes
    <2> QED BY <2>1, TaskMoves
  <1>7. /\ attempt'[i] = n /\ \A j \in Items : j # i => attempt'[j] = attempt[j]
        /\ attempt' \in [Items -> 0..MaxAttempts]
    BY <1>0, <1>1, <1>3, <1>4
  <1>8. /\ failed'[i] = f /\ \A j \in Items : j # i => failed'[j] = failed[j]
        /\ failed' \in [Items -> Nat]
    BY <1>0, <1>5
  <1>9. MaxAttempts' = MaxAttempts /\ final' \subseteq Items
    BY <1>0, <1>1 DEF MaxAttempts
  <1>10. PoolTypes'
    BY <1>1, <1>6, <1>7, <1>8, <1>9 DEF PoolInv, PoolTypes, PoolTypeOK
  <1>11. AttemptsLeft'
    <2>1. ASSUME NEW j \in Items
          PROVE  /\ task'[j] \notin Over => attempt'[j] < MaxAttempts /\ failed'[j] = NoResult
                 /\ j \in final' => task'[j] \in Over
      <3>1. CASE j = i
        <4>1. to # "sleep" => to \in Over
          BY <1>5 DEF Over
        <4>2. to = "sleep" => n < MaxAttempts /\ f = 0 /\ i \notin final'
          BY <1>1, <1>2, <1>5
        <4>3. "sleep" \notin Over
          BY DEF Over
        <4> QED BY <1>6, <1>7, <1>8, <3>1, <4>1, <4>2, <4>3 DEF NoResult
      <3>2. CASE j # i
        <4>1. j \in final' <=> j \in final
          BY <1>1, <3>2
        <4> QED BY <1>6, <1>7, <1>8, <3>2, <4>1 DEF PoolInv, AttemptsLeft
      <3> QED BY <3>1, <3>2
    <2> QED BY <2>1, <1>9 DEF AttemptsLeft
  <1>12. AttemptsReported'
    <2>1. ASSUME NEW j \in Items, failed'[j] # NoResult
          PROVE  \/ failed'[j] = attempt'[j]
                 \/ gateway' /\ failed'[j] = MaxAttempts /\ attempt'[j] < MaxAttempts
      <3>1. CASE j = i
        <4>1. f # 0
          BY <1>8, <2>1, <3>1 DEF NoResult
        <4>2. f = n \/ (gateway /\ f = MaxAttempts)
          BY <1>5, <4>1
        <4>3. n = MaxAttempts \/ n < MaxAttempts
          BY <1>0, <1>4
        <4> QED BY <1>1, <1>7, <1>8, <3>1, <4>2, <4>3
      <3>2. CASE j # i
        BY <1>1, <1>7, <1>8, <2>1, <3>2 DEF PoolInv, AttemptsReported
      <3> QED BY <3>1, <3>2
    <2> QED BY <1>9, <2>1 DEF AttemptsReported
  <1> QED BY <1>6, <1>10, <1>11, <1>12 DEF PoolInv

\* A result is put back and the next item gets its task.
LEMMA JoinOkKeeps ==
    ASSUME PoolInv, NEW i \in Items, JoinOk(i)
    PROVE  PoolInv'
  <1>0. /\ task \in [Items -> TaskStates] /\ completed \in [Items -> {NoResult} \cup Items]
        /\ next \in 1..(N + 1) /\ N \in Nat /\ Items = 1..N
    BY EmbeddingPoolAssumption DEF PoolInv, PoolTypes, PoolTypeOK, Items
  <1>1. /\ ended = "no" /\ task[i] = "ok"
        /\ completed' = [completed EXCEPT ![i] = i]
        /\ next' = IF next <= N THEN next + 1 ELSE next
        /\ UNCHANGED <<caller, gateway, attempt, failed, ended, final>>
    BY DEF JoinOk, Slot, EmbeddingOf
  <1>2. /\ i < next
        /\ \A j \in Items : task[j] = "unspawned" <=> j >= next
    <2>1. \A j \in Items : task[j] = "unspawned" <=> j >= next
      BY DEF PoolInv, TasksInOrder
    <2>2. ~(i >= next)
      BY <1>1, <2>1
    <2> QED BY <1>0, <2>1, <2>2
  <1>3. PICK first \in {"resolve", "send"} : first = FirstStep
    BY DEF FirstStep
  <1>4. /\ DOMAIN task' = Items
        /\ task'[i] = "joined"
        /\ next \in Items => task'[next] = first
        /\ \A j \in Items : j # i /\ j # next => task'[j] = task[j]
    BY <1>0, <1>2, <1>3 DEF JoinOk
  <1>5. task' \in [Items -> TaskStates]
    <2>1. task' = [j \in Items |-> CASE j = i -> "joined"
                                    [] j = next -> FirstStep
                                    [] OTHER -> task[j]]
      BY DEF JoinOk
    <2>2. \A j \in Items : task'[j] \in TaskStates
      BY <1>0, <1>3, <1>4 DEF TaskStates
    <2> QED BY <2>1, <2>2
  <1>6. completed' \in [Items -> {NoResult} \cup Items]
        /\ completed'[i] = i /\ \A j \in Items : j # i => completed'[j] = completed[j]
    BY <1>0, <1>1
  <1>7. next' \in 1..(N + 1)
    BY <1>0, <1>1
  <1>8. PoolTypes'
    BY <1>1, <1>5, <1>6, <1>7 DEF PoolInv, PoolTypes, PoolTypeOK, MaxAttempts
  <1>9. TasksInOrder'
    <2>1. ASSUME NEW j \in Items PROVE task'[j] = "unspawned" <=> j >= next'
      <3>1. CASE j = i
        BY <1>0, <1>1, <1>2, <1>4, <3>1
      <3>2. CASE j = next
        BY <1>0, <1>1, <1>3, <1>4, <3>2
      <3>3. CASE j # i /\ j # next
        <4>1. task'[j] = "unspawned" <=> j >= next
          BY <1>2, <1>4, <3>3
        <4> QED BY <1>0, <1>1, <3>3, <4>1
      <3> QED BY <3>1, <3>2, <3>3
    <2>2. ASSUME NEW j \in Items, task'[j] = "joined" PROVE completed'[j] = j
      <3>1. CASE j = i
        BY <1>6, <3>1
      <3>2. CASE j # i
        <4>1. j # next
          BY <1>3, <1>4, <2>2
        <4>2. task[j] = "joined" /\ ended # "error"
          BY <1>1, <1>4, <2>2, <3>2, <4>1
        <4> QED BY <1>6, <3>2, <4>2 DEF PoolInv, TasksInOrder
      <3> QED BY <3>1, <3>2
    <2>3. ASSUME NEW j \in Items PROVE task'[j] # "aborted"
      <3>1. task[j] # "aborted"
        BY <1>1 DEF PoolInv, TasksInOrder
      <3>2. CASE j = i
        BY <1>4, <3>2
      <3>3. CASE j = next
        BY <1>3, <1>4, <3>3
      <3>4. CASE j # i /\ j # next
        BY <1>4, <3>1, <3>4
      <3> QED BY <3>2, <3>3, <3>4
    <2> QED BY <1>1, <2>1, <2>2, <2>3 DEF TasksInOrder
  <1>10. TasksCounted'
    <2>1. Unjoined \in SUBSET Items /\ i \in Unjoined /\ next \notin Unjoined
      <3>1. next \in Items => task[next] = "unspawned"
        BY <1>0, <1>2
      <3> QED BY <1>1, <3>1 DEF Unjoined
    <2>2. InitialTasks' = InitialTasks /\ InitialTasks \in 1..N
      BY <1>1, InitialTasksIs DEF InitialTasks
    <2>3. PICK U : U = Unjoined \ {i}
      OBVIOUS
    <2>4. /\ IsFiniteSet(U) /\ Cardinality(U) \in Nat /\ Cardinality(Unjoined) = Cardinality(U) + 1
      <3>1. IsFiniteSet(Unjoined) /\ Cardinality(Unjoined) \in Nat
        BY <2>1, ItemSets
      <3>2. U \in SUBSET Items
        BY <2>1, <2>3
      <3>3. IsFiniteSet(U) /\ Cardinality(U) \in Nat
        BY <3>2, ItemSets
      <3>4. Unjoined = U \cup {i} /\ i \notin U
        BY <2>1, <2>3
      <3> QED BY <3>3, <3>4, FS_AddElement
    <2>5. CASE next <= N
      <3>1. next \in Items
        BY <1>0, <2>5
      <3>2. Unjoined' = U \cup {next}
        <4>1. ASSUME NEW j \in Items PROVE j \in Unjoined' <=> j \in U \cup {next}
          <5>1. CASE j = i
            <6>1. j \notin Unjoined'
              BY <1>4, <5>1 DEF Unjoined
            <6>2. i # next
              BY <1>0, <1>2
            <6> QED BY <2>3, <5>1, <6>1, <6>2
          <5>2. CASE j = next
            BY <1>3, <1>4, <5>2 DEF Unjoined
          <5>3. CASE j # i /\ j # next
            <6>1. task'[j] = task[j]
              BY <1>4, <5>3
            <6>2. j \in Unjoined' <=> j \in Unjoined
              BY <6>1 DEF Unjoined
            <6> QED BY <2>3, <5>3, <6>2
          <5> QED BY <5>1, <5>2, <5>3
        <4>2. Unjoined' \in SUBSET Items /\ U \cup {next} \in SUBSET Items
          BY <2>1, <2>3, <3>1 DEF Unjoined
        <4> QED BY <4>1, <4>2
      <3>3. Cardinality(Unjoined') = Cardinality(U) + 1
        <4>1. next \notin U
          BY <2>1, <2>3
        <4> QED BY <2>4, <3>2, <4>1, FS_AddElement
      <3>4. Cardinality(Unjoined) = InitialTasks
        BY <1>1, <2>5 DEF PoolInv, TasksCounted
      <3> QED BY <2>2, <2>4, <3>3, <3>4 DEF TasksCounted
    <2>6. CASE ~(next <= N)
      <3>1. next' = next /\ next \notin Items
        BY <1>0, <1>1, <2>6
      <3>2. Unjoined' = U
        <4>1. ASSUME NEW j \in Items PROVE j \in Unjoined' <=> j \in U
          <5>1. CASE j = i
            <6>1. j \notin Unjoined'
              BY <1>4, <5>1 DEF Unjoined
            <6> QED BY <2>3, <5>1, <6>1
          <5>2. CASE j # i
            <6>1. task'[j] = task[j]
              BY <1>4, <3>1, <5>2
            <6>2. j \in Unjoined' <=> j \in Unjoined
              BY <6>1 DEF Unjoined
            <6> QED BY <2>3, <5>2, <6>2
          <5> QED BY <5>1, <5>2
        <4>2. Unjoined' \in SUBSET Items /\ U \in SUBSET Items
          BY <2>1, <2>3 DEF Unjoined
        <4> QED BY <4>1, <4>2
      <3>3. Cardinality(Unjoined) <= InitialTasks
        BY <1>1 DEF PoolInv, TasksCounted
      <3> QED BY <2>2, <2>4, <2>6, <3>1, <3>2, <3>3 DEF TasksCounted
    <2> QED BY <2>5, <2>6
  <1>11. AttemptsLeft'
    <2>1. ASSUME NEW j \in Items
          PROVE  /\ task'[j] \notin Over => attempt[j] < MaxAttempts /\ failed[j] = NoResult
                 /\ j \in final => task'[j] \in Over
      <3>0. /\ task[j] \notin Over => attempt[j] < MaxAttempts /\ failed[j] = NoResult
            /\ j \in final => task[j] \in Over
        BY DEF PoolInv, AttemptsLeft
      <3>1. CASE j = i
        BY <1>4, <3>1 DEF Over
      <3>2. CASE j = next
        <4>1. task[j] = "unspawned" /\ "unspawned" \notin Over
          BY <1>0, <1>2, <3>2 DEF Over
        <4> QED BY <3>0, <4>1
      <3>3. CASE j # i /\ j # next
        BY <1>4, <3>0, <3>3
      <3> QED BY <3>1, <3>2, <3>3
    <2> QED BY <1>1, <2>1 DEF AttemptsLeft, MaxAttempts
  <1>12. AttemptsReported'
    BY <1>1 DEF PoolInv, AttemptsReported, MaxAttempts
  <1> QED BY <1>8, <1>9, <1>10, <1>11, <1>12 DEF PoolInv

\* The first error ends the pool.
LEMMA JoinErrorKeeps ==
    ASSUME PoolInv, NEW i \in Items, JoinError(i)
    PROVE  PoolInv'
  <1>0. task \in [Items -> TaskStates]
    BY DEF PoolInv, PoolTypes, PoolTypeOK
  <1>1. /\ ended' = "error" /\ task[i] = "error"
        /\ UNCHANGED <<caller, gateway, next, attempt, failed, completed, final>>
    BY DEF JoinError
  <1>2. /\ DOMAIN task' = Items
        /\ \A j \in Items : task'[j] = IF j = i THEN "joined"
                                       ELSE IF j \in Unjoined THEN "aborted" ELSE task[j]
        /\ task' = [j \in Items |-> task'[j]]
    BY DEF JoinError
  <1>3. \A j \in Items :
           /\ task'[j] \in TaskStates
           /\ j \in Unjoined => task'[j] \in {"joined", "aborted"}
           /\ j \notin Unjoined => task'[j] = task[j]
    BY <1>0, <1>1, <1>2 DEF TaskStates, Unjoined
  <1>4. task' \in [Items -> TaskStates]
    BY <1>2, <1>3
  <1>5. PoolTypes'
    BY <1>1, <1>4 DEF PoolInv, PoolTypes, PoolTypeOK, MaxAttempts
  <1>6. Unjoined' = {}
    BY <1>2, <1>3 DEF Unjoined
  <1>7. TasksInOrder'
    <2>1. ASSUME NEW j \in Items PROVE task'[j] = "unspawned" <=> j >= next
      BY <1>3 DEF PoolInv, TasksInOrder, Unjoined
    <2> QED BY <1>1, <1>6, <2>1 DEF TasksInOrder
  <1>8. TasksCounted'
    BY <1>1 DEF TasksCounted
  <1>9. AttemptsLeft'
    <2>1. ASSUME NEW j \in Items
          PROVE  /\ task'[j] \notin Over => attempt[j] < MaxAttempts /\ failed[j] = NoResult
                 /\ j \in final => task'[j] \in Over
      <3>1. CASE j \in Unjoined
        BY <1>3, <3>1 DEF Over
      <3>2. CASE j \notin Unjoined
        BY <1>3, <3>2 DEF PoolInv, AttemptsLeft
      <3> QED BY <3>1, <3>2
    <2> QED BY <1>1, <2>1 DEF AttemptsLeft, MaxAttempts
  <1>10. AttemptsReported'
    BY <1>1 DEF PoolInv, AttemptsReported, MaxAttempts
  <1> QED BY <1>5, <1>7, <1>8, <1>9, <1>10 DEF PoolInv

\* When nothing is left to join every item has a task, and each was joined.
LEMMA CollectKeeps ==
    ASSUME PoolInv, Collect
    PROVE  PoolInv'
  <1>1. /\ ended = "no" /\ ended' = "ok" /\ Unjoined = {}
        /\ UNCHANGED <<caller, gateway, next, task, attempt, failed, completed, final>>
    BY DEF Collect
  <1>2. next > N /\ next \in Nat /\ N \in Nat
    <2>1. Cardinality(Unjoined) = 0
      BY <1>1, FS_EmptySet
    <2>2. InitialTasks \in 1..N /\ next \in 1..(N + 1) /\ N \in Nat
      BY InitialTasksIs, EmbeddingPoolAssumption DEF PoolInv, PoolTypes, PoolTypeOK
    <2>3. ~(next <= N)
      BY <1>1, <2>1, <2>2 DEF PoolInv, TasksCounted
    <2> QED BY <2>2, <2>3
  <1>3. ASSUME NEW i \in Items PROVE task[i] = "joined"
    <2>1. ~(i >= next)
      BY <1>2 DEF Items
    <2>2. task[i] # "unspawned" /\ task[i] # "aborted" /\ task[i] \in TaskStates
      BY <1>1, <2>1 DEF PoolInv, TasksInOrder, PoolTypes, PoolTypeOK
    <2>3. i \notin Unjoined
      BY <1>1
    <2> QED BY <2>2, <2>3 DEF Unjoined, TaskStates
  <1>4. TasksInOrder'
    BY <1>1, <1>3 DEF PoolInv, TasksInOrder
  <1>5. PoolTypes'
    BY <1>1 DEF PoolInv, PoolTypes, PoolTypeOK, MaxAttempts
  <1>6. TasksCounted' /\ AttemptsLeft' /\ AttemptsReported'
    BY <1>1 DEF PoolInv, TasksCounted, AttemptsLeft, AttemptsReported, MaxAttempts
  <1> QED BY <1>4, <1>5, <1>6 DEF PoolInv

\* The invariant implies the property.
LEMMA PoolInvSound ==
    ASSUME PoolInv
    PROVE  PoolSound
  <1>1. PoolTypeOK /\ AttemptsReported
    BY DEF PoolInv, PoolTypes
  <1>2. ResultsInItemOrder
    BY DEF PoolInv, TasksInOrder, ResultsInItemOrder, EmbeddingOf
  <1>3. OnlyRetryableRetried
    <2>1. final \subseteq Items
      BY DEF PoolInv, PoolTypes
    <2> QED BY <2>1 DEF PoolInv, AttemptsLeft, OnlyRetryableRetried, Over
  <1>4. PoolKeptFull
    <2>1. /\ Running \subseteq Unjoined /\ Unjoined \in SUBSET Items /\ Running \in SUBSET Items
      BY DEF Running, Unjoined
    <2>2. InitialTasks \in Nat
      BY InitialTasksIs
    <2>3. CASE ended = "no"
      <3>1. Cardinality(Running) <= Cardinality(Unjoined)
        BY <2>1, ItemSets, FS_Subset
      <3>2. Cardinality(Running) \in Nat /\ Cardinality(Unjoined) \in Nat
        BY <2>1, ItemSets
      <3>3. Cardinality(Unjoined) <= InitialTasks
        BY <2>3 DEF PoolInv, TasksCounted
      <3>4. Cardinality(Running) <= InitialTasks
        BY <2>2, <3>1, <3>2, <3>3
      <3> QED BY <2>3, <3>4 DEF PoolInv, TasksCounted, PoolKeptFull
    <2>4. CASE ended # "no"
      <3>1. Running = {}
        <4>1. ended \in {"ok", "error"}
          BY <2>4 DEF PoolInv, PoolTypes, PoolTypeOK
        <4>2. CASE ended = "ok"
          BY <4>2 DEF PoolInv, TasksInOrder, Running
        <4>3. CASE ended = "error"
          BY <2>1, <4>3 DEF PoolInv, TasksInOrder
        <4> QED BY <4>1, <4>2, <4>3
      <3>2. Cardinality(Running) = 0
        BY <3>1, FS_EmptySet
      <3> QED BY <2>2, <2>4, <3>2 DEF PoolKeptFull
    <2> QED BY <2>3, <2>4
  <1> QED BY <1>1, <1>2, <1>3, <1>4 DEF PoolSound

\* For every batch, concurrency limit and number of retries, and whatever the
\* answers and the order in which tasks end: the pool holds exactly its limit of
\* tasks while items are left, asks again only after failures worth it and within
\* the limit, reports the attempts, and collects each item's own embedding.
THEOREM PoolSafe == PoolSpec => []PoolSound
  <1>1. PoolInit => PoolInv
    BY PoolInitInv
  <1>2. PoolInv /\ [PoolNext]_poolVars => PoolInv'
    <2> SUFFICES ASSUME PoolInv, [PoolNext]_poolVars PROVE PoolInv'
      OBVIOUS
    <2>1. CASE UNCHANGED poolVars
      BY <2>1 DEF poolVars, PoolInv, PoolTypes, PoolTypeOK, TasksInOrder, TasksCounted,
         AttemptsLeft, AttemptsReported, Unjoined, InitialTasks, MaxAttempts
    <2>2. CASE Collect
      BY <2>2, CollectKeeps
    <2>3. ASSUME NEW i \in Items, ItemStep(i) PROVE PoolInv'
      <3>1. CASE Resolve(i) \/ Wake(i)
        BY <3>1, ResolveKeeps
      <3>2. CASE JoinOk(i)
        BY <3>2, JoinOkKeeps
      <3>3. CASE JoinError(i)
        BY <3>3, JoinErrorKeeps
      <3>4. CASE \E o \in Outcomes : Attempt(i, o)
        BY <3>4, AttemptKeeps
      <3> QED BY <2>3, <3>1, <3>2, <3>3, <3>4 DEF ItemStep
    <2> QED BY <2>1, <2>2, <2>3 DEF PoolNext
  <1>3. PoolInv => PoolSound
    BY PoolInvSound
  <1> QED BY <1>1, <1>2, <1>3, PTL DEF PoolSpec

-----------------------------------------------------------------------------
(* The streaming stage of a command and Ctrl-C. *)

Places == {"loop", "ingesting", "planning", "finalizing", "publishing", "appended",
           "writing_refs", "published", "ended"}

\* Where the task can be while nothing has been published yet.
Unpublished == {"loop", "ingesting", "planning", "finalizing", "publishing"}

StageTypes ==
    /\ place \in Places /\ variant \in {"legacy", "v3"}
    /\ ctrlC \in 0..2
    /\ result = "none" <=> place # "ended"

\* Only an await has a delegated operation.
WorkIsAwaited ==
    /\ op # "none" => place \in {"ingesting", "finalizing"}
    /\ place = "ingesting" => op \in {"none", "running", "ok", "error", "cancelled"}

\* What is published follows the place; an early Ctrl-C is seen at the latest
\* before the outcome is appended.
PublishedLate ==
    /\ place \in Unpublished => outcome = FALSE /\ refs = FALSE /\ summary = FALSE
    /\ earlyC => /\ ctrlC > 0
                 /\ place \in Unpublished \cup {"ended"}
                 /\ outcome = FALSE /\ refs = FALSE /\ summary = FALSE

\* How two failed statuses compare.
AsGood(a, b) == a.specificity > b.specificity
                \/ (a.specificity = b.specificity /\ a.items <= b.items)

\* latest is failures[i], at least as good as every status and better than those
\* reported after it.
BestAt(i, s, best) ==
    /\ i \in 1..Len(s) /\ s[i] = best
    /\ \A j \in 1..Len(s) : AsGood(s[i], s[j]) /\ (j > i => ~AsGood(s[j], s[i]))

FailuresKept ==
    /\ failures \in Seq(Statuses)
    /\ failures = <<>> => latest = NoStatus
    /\ failures # <<>> => \E i : BestAt(i, failures, latest)

StageInv == StageTypes /\ WorkIsAwaited /\ PublishedLate /\ FailuresKept

\* Comparing statuses is a total preorder.
LEMMA AsGoodOrders ==
    ASSUME NEW a \in Statuses, NEW b \in Statuses, NEW c \in Statuses
    PROVE  /\ AsGood(a, a)
           /\ AsGood(a, b) \/ AsGood(b, a)
           /\ AsGood(a, b) /\ AsGood(b, c) => AsGood(a, c)
           /\ PreferFailedStatus(a, b) <=> AsGood(a, b)
           /\ a # NoStatus
  <1>1. /\ a.specificity \in Nat /\ b.specificity \in Nat /\ c.specificity \in Nat
        /\ a.items \in Nat /\ b.items \in Nat /\ c.items \in Nat /\ a.items # 0
    BY StreamingStageAssumption DEF Statuses
  <1>2. a # NoStatus
    BY <1>1 DEF NoStatus
  <1> QED BY <1>1, <1>2 DEF AsGood, PreferFailedStatus

\* A failed status is reported: the better one is kept, the later one of equals.
LEMMA ReportKeeps ==
    ASSUME FailuresKept, NEW status \in Statuses,
           failures' = Append(failures, status),
           latest' = IF latest # NoStatus /\ ~PreferFailedStatus(status, latest) THEN latest ELSE status
    PROVE  FailuresKept'
  <1>1. PICK s, t, n : s = failures /\ t = failures' /\ n = Len(failures)
    OBVIOUS
  <1>2. /\ s \in Seq(Statuses) /\ n \in Nat /\ Len(s) = n /\ t \in Seq(Statuses) /\ Len(t) = n + 1
        /\ t[n + 1] = status /\ \A j \in 1..n : t[j] = s[j] /\ s[j] \in Statuses
        /\ t # <<>>
    BY <1>1 DEF FailuresKept
  <1>3. CASE latest # NoStatus /\ ~PreferFailedStatus(status, latest)
    <2>1. PICK i : BestAt(i, s, latest)
      BY <1>1, <1>3 DEF FailuresKept
    <2>2. i \in 1..n /\ s[i] = latest /\ latest \in Statuses
      BY <1>2, <2>1 DEF BestAt
    <2>3. ~AsGood(status, latest) /\ AsGood(latest, status)
      BY <1>3, <2>2, AsGoodOrders
    <2>4. BestAt(i, t, latest)
      <3>1. i \in 1..Len(t) /\ t[i] = latest
        BY <1>2, <2>2
      <3>2. ASSUME NEW j \in 1..Len(t)
            PROVE  AsGood(t[i], t[j]) /\ (j > i => ~AsGood(t[j], t[i]))
        <4>1. CASE j = n + 1
          BY <1>2, <2>3, <3>1, <4>1
        <4>2. CASE j # n + 1
          <5>1. j \in 1..n /\ t[j] = s[j]
            BY <1>2, <4>2
          <5>2. AsGood(s[i], s[j]) /\ (j > i => ~AsGood(s[j], s[i]))
            BY <1>2, <2>1, <5>1 DEF BestAt
          <5> QED BY <2>2, <3>1, <5>1, <5>2
        <4> QED BY <4>1, <4>2
      <3> QED BY <3>1, <3>2 DEF BestAt
    <2>5. latest' = latest
      BY <1>3
    <2> QED BY <1>1, <1>2, <2>4, <2>5 DEF FailuresKept
  <1>4. CASE ~(latest # NoStatus /\ ~PreferFailedStatus(status, latest))
    <2>1. latest' = status
      BY <1>4
    <2>2. \A j \in 1..n : AsGood(status, s[j])
      <3>1. CASE s = <<>>
        BY <1>2, <3>1
      <3>2. CASE s # <<>>
        <4>1. PICK i : BestAt(i, s, latest)
          BY <1>1, <3>2 DEF FailuresKept
        <4>2. i \in 1..n /\ s[i] = latest /\ latest \in Statuses
          BY <1>2, <4>1 DEF BestAt
        <4>3. AsGood(status, latest)
          BY <1>4, <4>2, AsGoodOrders
        <4>4. ASSUME NEW j \in 1..n PROVE AsGood(status, s[j])
          <5>1. AsGood(latest, s[j]) /\ s[j] \in Statuses
            BY <1>2, <4>1, <4>2 DEF BestAt
          <5> QED BY <4>2, <4>3, <5>1, AsGoodOrders
        <4> QED BY <4>4
      <3> QED BY <3>1, <3>2
    <2>3. BestAt(n + 1, t, status)
      <3>1. ASSUME NEW j \in 1..Len(t)
            PROVE  AsGood(t[n + 1], t[j]) /\ (j > n + 1 => ~AsGood(t[j], t[n + 1]))
        <4>1. ~(j > n + 1)
          BY <1>2
        <4>2. AsGood(status, t[j])
          <5>1. CASE j = n + 1
            BY <1>2, <5>1, AsGoodOrders
          <5>2. CASE j # n + 1
            <6>1. j \in 1..n /\ t[j] = s[j]
              BY <1>2, <5>2
            <6> QED BY <2>2, <6>1
          <5> QED BY <5>1, <5>2
        <4> QED BY <1>2, <4>1, <4>2
      <3>2. n + 1 \in 1..Len(t)
        BY <1>2
      <3> QED BY <1>2, <3>1, <3>2 DEF BestAt
    <2> QED BY <1>1, <1>2, <2>1, <2>3 DEF FailuresKept
  <1> QED BY <1>3, <1>4

\* A step of the task that reports no status: what its place and outputs become.
LEMMA TaskStepKeeps ==
    ASSUME StageInv, StageTaskStep \/ OperationEnds \/ CtrlC
    PROVE  StageTypes' /\ WorkIsAwaited' /\ PublishedLate' /\ UNCHANGED <<failures, latest>>
  <1> USE DEF StageInv, StageTypes, WorkIsAwaited, PublishedLate, Places, Unpublished, Finish,
          Requested
  <1>1. CASE BatchLoop
    BY <1>1 DEF BatchLoop, Start, outputVars
  <1>2. CASE AwaitSeesInterrupt
    BY <1>2 DEF AwaitSeesInterrupt, outputVars
  <1>3. CASE IngestEnds
    BY <1>3 DEF IngestEnds, OperationSeen, Ends, InterruptedOk, Fail
  <1>4. CASE Planning
    BY <1>4 DEF Planning, Fail, Start
  <1>5. CASE FinalizeEnds
    BY <1>5 DEF FinalizeEnds, OperationSeen, Ends, Fail
  <1>6. CASE AppendOutcome
    <2>1. CASE ctrlC > 0
      BY <1>6, <2>1 DEF AppendOutcome
    <2>2. CASE ~(ctrlC > 0)
      <3>1. ~earlyC /\ earlyC' = earlyC
        BY <1>6, <2>2 DEF AppendOutcome
      <3>2. /\ place' \in {"appended", "ended"} /\ (result' = "none" <=> place' # "ended")
            /\ UNCHANGED <<variant, ctrlC, op, failures, latest>> /\ place = "publishing"
        BY <1>6, <2>2 DEF AppendOutcome
      <3> QED BY <3>1, <3>2
    <2> QED BY <2>1, <2>2
  <1>7. CASE CheckBeforeRefs
    BY <1>7 DEF CheckBeforeRefs, outputVars
  <1>8. CASE UpdateRefs
    BY <1>8 DEF UpdateRefs
  <1>9. CASE Summarize
    BY <1>9 DEF Summarize
  <1>10. CASE OperationEnds
    BY <1>10 DEF OperationEnds, Ends, outputVars
  <1>11. CASE CtrlC
    <2>1. /\ ctrlC \in 0..1 /\ ctrlC' = ctrlC + 1 /\ place # "ended"
          /\ UNCHANGED <<outcome, refs, summary, variant, failures, latest>>
      BY <1>11 DEF CtrlC, outputVars
    <2>0. earlyC' => earlyC \/ place \in {"loop", "ingesting", "planning", "finalizing"}
      BY <1>11, Zenon DEF CtrlC
    <2>2. earlyC' => /\ ctrlC' > 0 /\ place \in Unpublished
                     /\ outcome = FALSE /\ refs = FALSE /\ summary = FALSE
      BY <2>0, <2>1
    <2>3. CASE ctrlC = 0
      <3>1. UNCHANGED <<place, op, result>>
        BY <1>11, <2>3 DEF CtrlC
      <3> QED BY <2>1, <2>2, <2>3, <3>1
    <2>4. CASE ctrlC # 0
      <3>1. place' = "ended" /\ result' = "killed" /\ op' = "none"
        BY <1>11, <2>4 DEF CtrlC
      <3> QED BY <2>1, <2>2, <2>4, <3>1
    <2> QED BY <2>3, <2>4
  <1> QED BY <1>1, <1>2, <1>3, <1>4, <1>5, <1>6, <1>7, <1>8, <1>9, <1>10, <1>11 DEF StageTaskStep

\* However Ctrl-C and the delegated operation race, for any number of batches and
\* of reported statuses: when the command returns no operation is at work, a
\* Ctrl-C before the tree was built keeps it from being published, and the
\* diagnostics name the best of the reported failures.
THEOREM InterruptedStageSafe == StageSpec => []InterruptedStageSound
  <1>1. StageInit => StageInv
    <2> SUFFICES ASSUME StageInit PROVE StageInv
      OBVIOUS
    <2>1. PICK indexer \in {"legacy", "v3"} : StageStart(indexer)
      BY DEF StageInit
    <2>2. /\ variant = indexer /\ place = "loop" /\ ctrlC = 0 /\ op = "none" /\ latest = NoStatus
          /\ failures = <<>> /\ result = "none"
          /\ outcome = FALSE /\ refs = FALSE /\ summary = FALSE
      BY <2>1 DEF StageStart
    <2>3. ~earlyC
      BY <2>1 DEF StageStart
    <2> QED
      BY <2>2, <2>3 DEF StageInv, StageTypes, WorkIsAwaited, PublishedLate, FailuresKept, Places
  <1>2. StageInv /\ [StageNext]_stageVars => StageInv'
    <2> SUFFICES ASSUME StageInv, [StageNext]_stageVars PROVE StageInv'
      OBVIOUS
    <2>1. ASSUME StageTypes' /\ WorkIsAwaited' /\ PublishedLate' /\ UNCHANGED <<failures, latest>>
          PROVE  StageInv'
      BY <2>1 DEF StageInv, FailuresKept
    <2>2. CASE StageTaskStep \/ OperationEnds \/ CtrlC
      BY <2>1, <2>2, TaskStepKeeps
    <2>3. ASSUME NEW status \in Statuses, ReportFailed(status) PROVE StageInv'
      <3>1. FailuresKept'
        BY <2>3, ReportKeeps DEF ReportFailed, StageInv
      <3>2. UNCHANGED <<variant, place, ctrlC, op, earlyC, outcome, refs, summary, result>>
        BY <2>3 DEF ReportFailed, outputVars
      <3> QED BY <3>1, <3>2 DEF StageInv, StageTypes, WorkIsAwaited, PublishedLate
    <2>4. CASE UNCHANGED stageVars
      BY <2>1, <2>4 DEF stageVars, StageInv, StageTypes, WorkIsAwaited, PublishedLate
    <2> QED BY <2>2, <2>3, <2>4 DEF StageNext, IndexerStep
  <1>3. StageInv => InterruptedStageSound
    <2> SUFFICES ASSUME StageInv PROVE InterruptedStageSound
      OBVIOUS
    <2>1. NoWorkLeftBehind
      BY DEF StageInv, StageTypes, WorkIsAwaited, NoWorkLeftBehind
    <2>2. EarlyInterruptPublishesNothing
      BY DEF StageInv, PublishedLate, EarlyInterruptPublishesNothing
    <2>3. MostSpecificFailureKept
      <3> SUFFICES ASSUME failures # <<>> PROVE MostSpecificFailureKept
        BY DEF MostSpecificFailureKept
      <3>1. PICK i : BestAt(i, failures, latest)
        BY DEF StageInv, FailuresKept
      <3>2. DOMAIN failures = 1..Len(failures)
        BY DEF StageInv, FailuresKept
      <3> QED BY <3>1, <3>2 DEF BestAt, AsGood, MostSpecificFailureKept
    <2> QED BY <2>1, <2>2, <2>3 DEF InterruptedStageSound
  <1> QED BY <1>1, <1>2, <1>3, PTL DEF StageSpec

-----------------------------------------------------------------------------
(* The heartbeat and the telemetry of a call.                              *)

\* The threads of a call, and what is printed.
MainSteps == {"start", "call", "stop", "unpark", "join", "returned"}
Texts == Messages \cup MainSteps
LineSet == {"heartbeat", "telemetry"} \X Texts

HeartTypes ==
    /\ main \in MainSteps
    /\ last \in Messages \cup {"none"}
    /\ reporting \in [Reporters -> Messages \cup {"none"}]
    /\ lines \in Seq(LineSet)

\* i is the last telemetry line.
LastTelemetry(i) == IsTelemetry(i) /\ \A k \in DOMAIN lines : i < k => ~IsTelemetry(k)

\* What waits to be printed is what was projected last, and it differs from the
\* telemetry line printed last; when nothing waits that line is the one projected
\* last.  Beyond the bound lines are not kept.
NewsPending ==
    /\ \A r \in Reporters : reporting[r] # "none" => reporting[r] = last
    /\ Len(lines) < MaxLines =>
         \A i \in DOMAIN lines : LastTelemetry(i) =>
            \A r \in Reporters : (reporting[r] = "none") <=> (lines[i][2] = last)

HeartInv == HeartTypes /\ QuietAfterReturn /\ NewsPending /\ NoRepeatedLine

\* Nothing is printed before the call.
LEMMA HeartInitInv ==
    ASSUME HeartInit
    PROVE  HeartInv
  <1>1. lines = <<>> /\ main = "start" /\ last = "none"
    BY DEF HeartInit
  <1>2. HeartTypes
    BY <1>1 DEF HeartInit, HeartTypes, MainSteps
  <1>3. DOMAIN lines = {}
    BY <1>1
  <1>4. QuietAfterReturn
    BY <1>1 DEF QuietAfterReturn
  <1>5. NewsPending
    BY <1>3 DEF HeartInit, NewsPending
  <1>6. NoRepeatedLine
    BY <1>3 DEF NoRepeatedLine
  <1> QED BY <1>2, <1>4, <1>5, <1>6 DEF HeartInv

\* A line that is kept is appended; the lines before it stay.
LEMMA PrintedLine ==
    ASSUME lines \in Seq(LineSet), NEW line \in LineSet, Len(lines) < MaxLines,
           lines' = Printed(line)
    PROVE  /\ lines' \in Seq(LineSet)
           /\ Len(lines') = Len(lines) + 1
           /\ DOMAIN lines' = DOMAIN lines \cup {Len(lines) + 1}
           /\ DOMAIN lines = 1..Len(lines)
           /\ \A i \in DOMAIN lines : lines'[i] = lines[i]
           /\ lines'[Len(lines) + 1] = line
  BY DEF Printed

\* A heartbeat line leaves the telemetry lines and what waits as they are.
LEMMA BeatKeepsNews ==
    ASSUME HeartTypes, NewsPending, NoRepeatedLine, PrintBeat
    PROVE  NewsPending' /\ NoRepeatedLine' /\ lines' \in Seq(LineSet)
  <1> DEFINE line == <<"heartbeat", main>>
  <1>0. MaxLines \in Nat
    BY HeartbeatAssumption
  <1>1. line \in LineSet /\ lines \in Seq(LineSet) /\ lines' = Printed(line) /\ Len(lines) \in Nat
    BY DEF HeartTypes, PrintBeat, LineSet, Texts
  <1>2. last' = last /\ reporting' = reporting
    BY DEF PrintBeat
  <1>3. line[1] = "heartbeat"
    OBVIOUS
  <1> HIDE DEF line
  <1>4. CASE Len(lines) < MaxLines
    <2>0. PICK n \in Nat : n = Len(lines) + 1
      BY <1>1
    <2>1. /\ lines' \in Seq(LineSet)
          /\ Len(lines') = n /\ Len(lines) < n
          /\ DOMAIN lines' = DOMAIN lines \cup {n}
          /\ DOMAIN lines = 1..(n - 1)
          /\ \A i \in DOMAIN lines : lines'[i] = lines[i]
          /\ lines'[n] = line
      <3>1. /\ lines' \in Seq(LineSet)
            /\ Len(lines') = Len(lines) + 1
            /\ DOMAIN lines' = DOMAIN lines \cup {Len(lines) + 1}
            /\ DOMAIN lines = 1..Len(lines)
            /\ \A i \in DOMAIN lines : lines'[i] = lines[i]
            /\ lines'[Len(lines) + 1] = line
        BY <1>1, <1>4, PrintedLine
      <3>2. Len(lines) = n - 1
        BY <2>0, <1>1
      <3> QED BY <2>0, <3>1, <3>2
    <2>2. ~IsTelemetry(n)'
      BY <2>1, <1>3 DEF IsTelemetry
    <2>3. \A i \in DOMAIN lines : IsTelemetry(i)' <=> IsTelemetry(i)
      BY <2>1 DEF IsTelemetry
    <2>4. \A i \in DOMAIN lines' : LastTelemetry(i)' => i \in DOMAIN lines /\ LastTelemetry(i)
      BY <2>1, <2>2, <2>3 DEF LastTelemetry
    <2>5. NewsPending'
      BY <1>0, <1>1, <1>2, <1>4, <2>1, <2>4 DEF NewsPending
    <2>6. NoRepeatedLine'
      BY <2>1, <2>2, <2>3 DEF NoRepeatedLine
    <2> QED BY <2>1, <2>5, <2>6
  <1>5. CASE ~(Len(lines) < MaxLines)
    <2>1. lines' = lines
      BY <1>1, <1>5 DEF Printed
    <2> QED BY <1>1, <1>2, <2>1 DEF NewsPending, NoRepeatedLine, IsTelemetry, LastTelemetry
  <1> QED BY <1>4, <1>5

\* With one reporter, what is printed differs from the telemetry line before it.
LEMMA ReportIsNews ==
    ASSUME HeartTypes, NewsPending, NoRepeatedLine, \A r, q \in Reporters : r = q,
           NEW r \in Reporters, Report(r)
    PROVE  NewsPending' /\ NoRepeatedLine' /\ lines' \in Seq(LineSet)
  <1> DEFINE line == <<"telemetry", reporting[r]>>
  <1>0. MaxLines \in Nat
    BY HeartbeatAssumption
  <1>1. /\ reporting[r] \in Messages \cup {"none"} /\ reporting[r] # "none"
        /\ reporting[r] = last
    BY DEF HeartTypes, NewsPending, Report
  <1>2. line \in LineSet /\ lines \in Seq(LineSet) /\ lines' = Printed(line) /\ Len(lines) \in Nat
    BY <1>1 DEF HeartTypes, Report, LineSet, Texts
  <1>3. last' = last /\ \A q \in Reporters : reporting'[q] = "none"
    BY DEF Report, HeartTypes
  <1>4. line[1] = "telemetry" /\ line[2] = last
    BY <1>1
  <1> HIDE DEF line
  <1>5. CASE Len(lines) < MaxLines
    <2>0. PICK n \in Nat : n = Len(lines) + 1
      BY <1>2
    <2>1. /\ lines' \in Seq(LineSet)
          /\ Len(lines') = n /\ Len(lines) < n
          /\ DOMAIN lines' = DOMAIN lines \cup {n}
          /\ DOMAIN lines = 1..(n - 1)
          /\ \A i \in DOMAIN lines : lines'[i] = lines[i]
          /\ lines'[n] = line
      <3>1. /\ lines' \in Seq(LineSet)
            /\ Len(lines') = Len(lines) + 1
            /\ DOMAIN lines' = DOMAIN lines \cup {Len(lines) + 1}
            /\ DOMAIN lines = 1..Len(lines)
            /\ \A i \in DOMAIN lines : lines'[i] = lines[i]
            /\ lines'[Len(lines) + 1] = line
        BY <1>2, <1>5, PrintedLine
      <3>2. Len(lines) = n - 1
        BY <2>0, <1>2
      <3> QED BY <2>0, <3>1, <3>2
    <2>2. IsTelemetry(n)'
      BY <2>1, <1>4 DEF IsTelemetry
    <2>3. \A i \in DOMAIN lines : IsTelemetry(i)' <=> IsTelemetry(i)
      BY <2>1 DEF IsTelemetry
    <2>4. \A i \in DOMAIN lines' : LastTelemetry(i)' => i = n
      BY <2>1, <2>2 DEF LastTelemetry
    <2>5. NewsPending'
      BY <1>3, <1>4, <2>1, <2>4 DEF NewsPending
    <2>6. \A i \in DOMAIN lines : LastTelemetry(i) => lines[i][2] # last
      BY <1>1, <1>5 DEF NewsPending
    <2>7. NoRepeatedLine'
      <3> SUFFICES ASSUME NEW i \in DOMAIN lines', NEW j \in DOMAIN lines', i < j,
                          IsTelemetry(i)', IsTelemetry(j)',
                          \A k \in DOMAIN lines' : i < k /\ k < j => ~IsTelemetry(k)'
                   PROVE  lines'[i] # lines'[j]
        BY DEF NoRepeatedLine
      <3>1. i \in DOMAIN lines
        BY <2>1
      <3>2. CASE j \in DOMAIN lines
        BY <3>1, <3>2, <2>1, <2>3 DEF NoRepeatedLine
      <3>3. CASE j = n
        <4>1. LastTelemetry(i)
          BY <3>1, <3>3, <2>1, <2>3 DEF LastTelemetry
        <4> QED BY <4>1, <3>1, <3>3, <2>1, <2>6, <1>4
      <3> QED BY <3>2, <3>3, <2>1
    <2> QED BY <2>1, <2>5, <2>7
  <1>6. CASE ~(Len(lines) < MaxLines)
    <2>1. lines' = lines
      BY <1>2, <1>6 DEF Printed
    <2>2. NewsPending'
      BY <1>3, <1>6, <2>1 DEF NewsPending
    <2>3. NoRepeatedLine'
      BY <2>1 DEF NoRepeatedLine, IsTelemetry
    <2> QED BY <1>2, <2>1, <2>2, <2>3
  <1> QED BY <1>5, <1>6

\* An event that is projected differs from what was projected before it; with one
\* reporter nothing else waits.
LEMMA TelemetryIsNews ==
    ASSUME HeartTypes, NewsPending, \A r, q \in Reporters : r = q,
           NEW r \in Reporters, Telemetry(r)
    PROVE  /\ NewsPending'
           /\ last' \in Messages
           /\ reporting' \in [Reporters -> Messages \cup {"none"}]
  <1>1. PICK message \in Messages : Project(r, message)
    BY DEF Telemetry
  <1>2. message # last /\ message # "none" /\ last' = message /\ lines' = lines
    BY <1>1, HeartbeatAssumption DEF Project, Telemetry
  <1>3. /\ reporting' \in [Reporters -> Messages \cup {"none"}]
        /\ \A q \in Reporters : reporting'[q] = message
    BY <1>1 DEF Project, HeartTypes
  <1>4. \A q \in Reporters : reporting[q] = "none"
    BY DEF Telemetry
  <1>5. Len(lines) < MaxLines => \A i \in DOMAIN lines : LastTelemetry(i) => lines[i][2] = last
    BY <1>4 DEF NewsPending
  <1>6. \A i \in DOMAIN lines : LastTelemetry(i)' <=> LastTelemetry(i)
    BY <1>2 DEF LastTelemetry, IsTelemetry
  <1>7. NewsPending'
    BY <1>2, <1>3, <1>5, <1>6 DEF NewsPending
  <1> QED BY <1>2, <1>3, <1>7

\* Every step keeps the invariant.
LEMMA HeartNextInv ==
    ASSUME HeartInv, \A r, q \in Reporters : r = q, [HeartNext]_heartVars
    PROVE  HeartInv'
  <1> USE DEF HeartInv
  <1>1. ASSUME UNCHANGED <<last, reporting, lines>>
        PROVE  /\ NewsPending' /\ NoRepeatedLine'
               /\ last' \in Messages \cup {"none"}
               /\ reporting' \in [Reporters -> Messages \cup {"none"}]
               /\ lines' \in Seq(LineSet)
    <2>1. last' = last /\ reporting' = reporting /\ lines' = lines
      BY <1>1
    <2> QED BY <2>1 DEF NewsPending, NoRepeatedLine, IsTelemetry, LastTelemetry, HeartTypes
  <1>2. CASE New
    <2>1. UNCHANGED <<last, reporting, lines>> /\ main' = "call"
      BY <1>2 DEF New
    <2> QED BY <1>1, <2>1 DEF HeartTypes, MainSteps, QuietAfterReturn
  <1>3. CASE BeatLoop \/ Unpark \/ Woken
    <2>1. UNCHANGED <<last, reporting, lines>> /\ main' = main /\ beat \in {"loop", "parked", "woken"}
      BY <1>3 DEF BeatLoop, Unpark, Woken
    <2> QED BY <1>1, <2>1 DEF HeartTypes, MainSteps, QuietAfterReturn
  <1>4. CASE PrintBeat
    <2>1. NewsPending' /\ NoRepeatedLine' /\ lines' \in Seq(LineSet)
      BY <1>4, BeatKeepsNews
    <2>2. beat = "print" /\ main' = main /\ last' = last /\ reporting' = reporting
      BY <1>4 DEF PrintBeat
    <2> QED BY <2>1, <2>2 DEF HeartTypes, QuietAfterReturn
  <1>5. CASE CallEnds
    <2>1. UNCHANGED <<last, reporting, lines>> /\ main' = "stop"
      BY <1>5 DEF CallEnds
    <2> QED BY <1>1, <2>1 DEF HeartTypes, MainSteps, QuietAfterReturn
  <1>6. CASE StopFlag
    <2>1. /\ UNCHANGED <<last, reporting, lines>> /\ beat' = beat
          /\ main' = IF beat = "unborn" THEN "returned" ELSE "unpark"
      BY <1>6 DEF StopFlag
    <2> QED BY <1>1, <2>1 DEF HeartTypes, MainSteps, QuietAfterReturn
  <1>7. CASE StopUnpark
    <2>1. UNCHANGED <<last, reporting, lines>> /\ main' = "join"
      BY <1>7 DEF StopUnpark
    <2> QED BY <1>1, <2>1 DEF HeartTypes, MainSteps, QuietAfterReturn
  <1>8. CASE Join
    <2>1. UNCHANGED <<last, reporting, lines>> /\ main' = "returned" /\ beat' = "done"
      BY <1>8 DEF Join
    <2> QED BY <1>1, <2>1 DEF HeartTypes, MainSteps, QuietAfterReturn
  <1>9. ASSUME NEW r \in Reporters, Telemetry(r)
        PROVE  HeartInv'
    <2>1. /\ NewsPending' /\ last' \in Messages
          /\ reporting' \in [Reporters -> Messages \cup {"none"}]
      BY <1>9, TelemetryIsNews
    <2>2. lines' = lines /\ main' = main /\ beat' = beat
      BY <1>9 DEF Telemetry
    <2> QED BY <2>1, <2>2 DEF HeartTypes, QuietAfterReturn, NoRepeatedLine, IsTelemetry
  <1>10. ASSUME NEW r \in Reporters, Report(r)
         PROVE  HeartInv'
    <2>1. NewsPending' /\ NoRepeatedLine' /\ lines' \in Seq(LineSet)
      BY <1>10, ReportIsNews
    <2>2. main' = main /\ beat' = beat /\ last' = last
      BY <1>10 DEF Report
    <2>3. reporting' \in [Reporters -> Messages \cup {"none"}]
      BY <1>10 DEF Report, HeartTypes
    <2> QED BY <2>1, <2>2, <2>3 DEF HeartTypes, QuietAfterReturn
  <1>11. CASE Returned \/ UNCHANGED heartVars
    <2>1. UNCHANGED <<last, reporting, lines>> /\ main' = main /\ beat' = beat
      BY <1>11 DEF Returned, heartVars
    <2> QED BY <1>1, <2>1 DEF HeartTypes, QuietAfterReturn
  <1> QED
    BY <1>2, <1>3, <1>4, <1>5, <1>6, <1>7, <1>8, <1>9, <1>10, <1>11
    DEF HeartNext, HeartbeatStep, StopStep

\* The flag is down when the thread is unparked, and the token is left to a thread
\* that parked before it saw the flag.
StopInv == StopIsPrompt /\ (main \in {"unpark", "join"} => keepRunning = FALSE)

LEMMA StopNextInv ==
    ASSUME StopInv, [HeartNext]_heartVars
    PROVE  StopInv'
  <1> USE DEF StopInv, StopIsPrompt
  <1>1. CASE New \/ CallEnds \/ StopFlag \/ StopUnpark \/ Join
    BY <1>1 DEF New, CallEnds, StopFlag, StopUnpark, Join
  <1>2. CASE HeartbeatStep
    BY <1>2 DEF HeartbeatStep, BeatLoop, Unpark, Woken, PrintBeat
  <1>3. CASE Returned \/ (\E r \in Reporters : Telemetry(r) \/ Report(r)) \/ UNCHANGED heartVars
    BY <1>3 DEF Returned, Telemetry, Report, heartVars
  <1> QED BY <1>1, <1>2, <1>3 DEF HeartNext, StopStep

\* Nothing is printed by the heartbeat once the call has returned, no unpark is lost,
\* and, when one thread delivers the telemetry, no two successive telemetry lines are
\* the same (OperatorLivenessHeartbeat::stop, project_redb_telemetry_event): for every set
\* of messages and every number of lines.
THEOREM HeartbeatSafe ==
    ASSUME \A r, q \in Reporters : r = q
    PROVE  HeartSpec => []HeartbeatSound
  <1>1. HeartInit => HeartInv /\ StopInv
    BY HeartInitInv DEF HeartInit, StopInv, StopIsPrompt
  <1>2. HeartInv /\ StopInv /\ [HeartNext]_heartVars => HeartInv' /\ StopInv'
    BY HeartNextInv, StopNextInv
  <1>3. HeartInv /\ StopInv => HeartbeatSound
    BY DEF HeartInv, StopInv, HeartbeatSound
  <1> QED BY <1>1, <1>2, <1>3, PTL DEF HeartSpec
-----------------------------------------------------------------------------
(* The replay order: induction. *)

\* Induction over the natural numbers, for a set instead of a predicate: a
\* number outside the set would have a least one, which is neither 0 nor a
\* successor.
LEMMA NumbersInSet ==
    ASSUME NEW S \in SUBSET Nat, 0 \in S, \A n \in S : n + 1 \in S
    PROVE  S = Nat
  <1> SUFFICES ASSUME S # Nat PROVE FALSE
    OBVIOUS
  <1>1. PICK R : R = OpToRel(<, Nat)
    OBVIOUS
  <1>2. IsWellFoundedOn(R, Nat)
    BY <1>1, NatLessThanWellFounded
  <1>3. PICK T : T = Nat \ S
    OBVIOUS
  <1>4. T \subseteq Nat /\ T # {}
    BY <1>3
  <1>5. PICK x \in T : \A y \in T : ~(<<y, x>> \in R)
    BY <1>2, <1>4, WFMin
  <1>6. \A y \in Nat : y < x => <<y, x>> \in R
    BY <1>1, <1>3 DEF OpToRel
  <1>7. x # 0 /\ x \in Nat
    BY <1>3
  <1>8. x - 1 \in Nat /\ x - 1 < x /\ (x - 1) + 1 = x
    BY <1>7
  <1>9. x - 1 \in S
    BY <1>3, <1>5, <1>6, <1>8
  <1> QED BY <1>3, <1>8, <1>9

-----------------------------------------------------------------------------
(* The replay order: entries and files. *)

RecordSet == [kind : {"ReplayInput", "Outcome"}, id : Nat, digest : Nat]
EntrySet == [id : Nat, digest : Nat]

\* A file has every id once, in order.
File(f) == f \in Seq(EntrySet) /\ \A i, j \in 1..Len(f) : i < j => f[i].id < f[j].id

Files(fs) == fs \in Seq(Seq(EntrySet)) /\ \A k \in 1..Len(fs) : File(fs[k])

In(e, f) == \E i \in 1..Len(f) : f[i] = e
InSome(e, fs) == \E k \in 1..Len(fs) : In(e, fs[k])

\* An entry is not the absence of one.
LEMMA EntryIsThere == \A e \in EntrySet : e # NoEntry
  <1> SUFFICES ASSUME NEW e \in EntrySet, e = <<>> PROVE FALSE
    BY DEF NoEntry
  <1>1. DOMAIN e = {"id", "digest"}
    BY DEF EntrySet
  <1>2. DOMAIN e = {}
    OBVIOUS
  <1> QED BY <1>1, <1>2

\* An entry is its id and its digest.
LEMMA EntryIs ==
    /\ \A e \in EntrySet : e.id \in Nat /\ e.digest \in Nat
    /\ \A d, e \in EntrySet : d.id = e.id /\ d.digest = e.digest => d = e
  BY DEF EntrySet

\* Membership, when an entry is added at the end or taken from the front.
LEMMA InAppend ==
    ASSUME NEW X, NEW f \in Seq(X), NEW x \in X
    PROVE  \A e : In(e, Append(f, x)) <=> In(e, f) \/ e = x
  <1> SUFFICES ASSUME NEW e PROVE In(e, Append(f, x)) <=> In(e, f) \/ e = x
    OBVIOUS
  <1>1. ASSUME In(e, Append(f, x)) PROVE In(e, f) \/ e = x
    BY <1>1 DEF In
  <1>2. ASSUME In(e, f) PROVE In(e, Append(f, x))
    <2>1. PICK i \in 1..Len(f) : f[i] = e
      BY <1>2 DEF In
    <2>2. i \in 1..Len(Append(f, x)) /\ Append(f, x)[i] = e
      BY <2>1
    <2> QED BY <2>2 DEF In
  <1>3. ASSUME e = x PROVE In(e, Append(f, x))
    <2>1. Len(f) + 1 \in 1..Len(Append(f, x)) /\ Append(f, x)[Len(f) + 1] = e
      BY <1>3
    <2> QED BY <2>1 DEF In
  <1> QED BY <1>1, <1>2, <1>3

\* Likewise, when the first entry is taken.
LEMMA InTail ==
    ASSUME NEW X, NEW f \in Seq(X), f # <<>>
    PROVE  \A e : In(e, f) <=> In(e, Tail(f)) \/ e = Head(f)
  <1> SUFFICES ASSUME NEW e PROVE In(e, f) <=> In(e, Tail(f)) \/ e = Head(f)
    OBVIOUS
  <1>0. Len(f) \in Nat /\ Len(f) > 0 /\ Len(Tail(f)) = Len(f) - 1
        /\ \A i \in 1..(Len(f) - 1) : Tail(f)[i] = f[i + 1]
    OBVIOUS
  <1>1. ASSUME In(e, f) PROVE In(e, Tail(f)) \/ e = Head(f)
    <2>1. PICK i \in 1..Len(f) : f[i] = e
      BY <1>1 DEF In
    <2>2. CASE i = 1
      BY <2>1, <2>2
    <2>3. CASE i # 1
      <3>1. i - 1 \in 1..Len(Tail(f)) /\ Tail(f)[i - 1] = e
        BY <1>0, <2>1, <2>3
      <3> QED BY <3>1 DEF In
    <2> QED BY <2>2, <2>3
  <1>2. ASSUME In(e, Tail(f)) PROVE In(e, f)
    <2>1. PICK i \in 1..Len(Tail(f)) : Tail(f)[i] = e
      BY <1>2 DEF In
    <2>2. i + 1 \in 1..Len(f) /\ f[i + 1] = e
      BY <1>0, <2>1
    <2> QED BY <2>2 DEF In
  <1>3. ASSUME e = Head(f) PROVE In(e, f)
    <2>1. 1 \in 1..Len(f) /\ f[1] = e
      BY <1>0, <1>3
    <2> QED BY <2>1 DEF In
  <1> QED BY <1>1, <1>2, <1>3

\* A file with a greater id at the end.
LEMMA FileAppend ==
    ASSUME NEW f, File(f), NEW x \in EntrySet, \A i \in 1..Len(f) : f[i].id < x.id
    PROVE  File(Append(f, x))
  <1>1. f \in Seq(EntrySet) /\ Append(f, x) \in Seq(EntrySet) /\ Len(Append(f, x)) = Len(f) + 1
    BY DEF File
  <1>2. \A i \in 1..(Len(f) + 1) : Append(f, x)[i] = IF i <= Len(f) THEN f[i] ELSE x
    BY <1>1
  <1> QED BY <1>1, <1>2 DEF File

\* The rest of a file is a file, and comes after its first entry.
LEMMA FileTail ==
    ASSUME NEW f, File(f), f # <<>>
    PROVE  /\ File(Tail(f)) /\ Head(f) \in EntrySet
           /\ \A i \in 1..Len(Tail(f)) : Head(f).id < Tail(f)[i].id
  <1>1. /\ f \in Seq(EntrySet) /\ Tail(f) \in Seq(EntrySet) /\ Len(Tail(f)) = Len(f) - 1
        /\ Len(f) \in Nat \ {0} /\ \A i \in 1..(Len(f) - 1) : Tail(f)[i] = f[i + 1]
        /\ Head(f) = f[1]
    BY DEF File
  <1>2. File(Tail(f))
    BY <1>1 DEF File
  <1>3. \A i \in 1..Len(Tail(f)) : f[1].id < Tail(f)[i].id
    BY <1>1 DEF File
  <1> QED BY <1>1, <1>2, <1>3

-----------------------------------------------------------------------------
(* Recursion over a finite sequence of steps. *)

\* f has the values that a start and a step function lead to.
Steps(f, X, b, n, g) ==
    f \in [0..n -> X] /\ f[0] = b /\ \A i \in 1..n : f[i] = g[<<f[i - 1], i>>]

\* There is such a function.
LEMMA StepsExist ==
    ASSUME NEW X, NEW b \in X, NEW n \in Nat, NEW g \in [X \X (1..n) -> X]
    PROVE  \E f : Steps(f, X, b, n, g)
  <1> DEFINE Up(f, m) == /\ f \in [0..m -> X] /\ f[0] = b
                         /\ \A i \in 1..m : f[i] = g[<<f[i - 1], i>>]
  <1>1. PICK S : S = {m \in Nat : m <= n => \E f : Up(f, m)}
    OBVIOUS
  <1>2. 0 \in S
    <2>1. Up([i \in 0..0 |-> b], 0)
      OBVIOUS
    <2> QED BY <1>1, <2>1
  <1>3. ASSUME NEW m \in S PROVE m + 1 \in S
    <2>1. m \in Nat
      BY <1>1
    <2> SUFFICES ASSUME m + 1 <= n PROVE \E h : Up(h, m + 1)
      BY <1>1, <2>1
    <2>2. PICK f : Up(f, m)
      BY <1>1, <2>1
    <2>3. PICK d : d = g[<<f[m], m + 1>>]
      OBVIOUS
    <2>4. d \in X
      BY <2>1, <2>2, <2>3
    <2>5. PICK h : h = [i \in 0..(m + 1) |-> IF i = m + 1 THEN d ELSE f[i]]
      OBVIOUS
    <2>6. h \in [0..(m + 1) -> X] /\ h[0] = b
      BY <2>1, <2>2, <2>4, <2>5
    <2>7. ASSUME NEW i \in 1..(m + 1) PROVE h[i] = g[<<h[i - 1], i>>]
      <3>1. i - 1 \in 0..m /\ h[i - 1] = f[i - 1]
        BY <2>1, <2>5
      <3>2. CASE i = m + 1
        <4>1. i - 1 = m /\ h[i] = d
          BY <2>1, <2>5, <3>2
        <4> QED BY <2>3, <3>1, <3>2, <4>1
      <3>3. CASE i # m + 1
        <4>1. i \in 1..m /\ h[i] = f[i]
          BY <2>1, <2>5, <3>3
        <4> QED BY <2>2, <3>1, <4>1
      <3> QED BY <3>2, <3>3
    <2> QED BY <2>6, <2>7
  <1>4. n \in S
    BY <1>1, <1>2, <1>3, NumbersInSet
  <1>5. PICK f : Up(f, n)
    BY <1>1, <1>4
  <1>6. Steps(f, X, b, n, g)
    BY <1>5 DEF Steps
  <1> QED BY <1>6

\* What agrees at the start, and at a step if it did before, agrees.
Agree(f, h, n) == f[0] = h[0] /\ \A i \in 1..n : f[i - 1] = h[i - 1] => f[i] = h[i]

\* Functions that agree do so at the end.
LEMMA StepsAgree ==
    ASSUME NEW f, NEW h, NEW n \in Nat, Agree(f, h, n)
    PROVE  f[n] = h[n]
  <1> USE DEF Agree
  <1>1. PICK S : S = {m \in Nat : m <= n => f[m] = h[m]}
    OBVIOUS
  <1>2. 0 \in S
    BY <1>1
  <1>3. ASSUME NEW m \in S PROVE m + 1 \in S
    <2>1. m \in Nat
      BY <1>1
    <2> SUFFICES ASSUME m + 1 <= n PROVE f[m + 1] = h[m + 1]
      BY <1>1, <2>1
    <2>2. f[m] = h[m]
      BY <1>1, <2>1
    <2>3. m + 1 \in 1..n /\ (m + 1) - 1 = m
      BY <2>1
    <2> QED BY <2>2, <2>3
  <1>4. n \in S
    BY <1>1, <1>2, <1>3, NumbersInSet
  <1> QED BY <1>1, <1>4

\* The lists of a sequence one after the other, list by list.
Concatenates(f, seqs, X) ==
    /\ f \in [0..Len(seqs) -> Seq(X)] /\ f[0] = <<>>
    /\ \A i \in 1..Len(seqs) : f[i] = f[i - 1] \o seqs[i]

\* FlattenSeq is what that arrives at.
LEMMA FlattenIs ==
    ASSUME NEW X, NEW seqs \in Seq(Seq(X))
    PROVE  \E f : Concatenates(f, seqs, X) /\ FlattenSeq(seqs) = f[Len(seqs)]
  <1>0. PICK Y : Y = Seq(X)
    OBVIOUS
  <1>1. PICK n : n = Len(seqs)
    OBVIOUS
  <1>2. n \in Nat /\ seqs \in Seq(Y) /\ \A i \in 1..n : seqs[i] \in Seq(X)
    BY <1>0, <1>1
  <1>3. PICK g : g = [p \in Seq(X) \X (1..n) |-> p[1] \o seqs[p[2]]]
    OBVIOUS
  <1>4. g \in [Seq(X) \X (1..n) -> Seq(X)]
    BY <1>2, <1>3
  <1>5. <<>> \in Seq(X)
    OBVIOUS
  <1>a. <<>> \in Y /\ g \in [Y \X (1..n) -> Y]
    BY <1>0, <1>4, <1>5
  <1>b. \E f \in [0..n -> Y] : f[0] = <<>> /\ \A i \in 1..n : f[i] = g[<<f[i - 1], i>>]
    <2>1. PICK b : b = <<>>
      OBVIOUS
    <2>2. n \in Nat
      BY <1>2
    <2>3. b \in Y
      BY <1>a, <2>1
    <2>4. g \in [Y \X (1..n) -> Y]
      BY <1>a
    <2>5. PICK f : Steps(f, Y, b, n, g)
      BY <2>2, <2>3, <2>4, StepsExist
    <2> QED BY <2>1, <2>5 DEF Steps
  <1>6. PICK f \in [0..n -> Seq(X)] : f[0] = <<>> /\ \A i \in 1..n : f[i] = g[<<f[i - 1], i>>]
    BY <1>0, <1>b
  <1>7. \A i \in 1..n : f[i] = f[i - 1] \o seqs[i]
    <2> SUFFICES ASSUME NEW i \in 1..n PROVE f[i] = f[i - 1] \o seqs[i]
      OBVIOUS
    <2>1. f[i - 1] \in Seq(X)
      BY <1>2, <1>6
    <2> QED BY <1>3, <1>6, <2>1
  <1>8. Concatenates(f, seqs, X)
    BY <1>1, <1>6, <1>7 DEF Concatenates
  <1>9. CASE n = 0
    <2>1. seqs = <<>>
      <3>1. Len(seqs) = 0 /\ seqs \in Seq(Y)
        BY <1>1, <1>2, <1>9
      <3> QED BY <3>1, EmptySeq
    <2>2. FlattenSeq(seqs) = <<>>
      BY <1>1, <1>9, <2>1 DEF FlattenSeq
    <2> QED BY <1>1, <1>6, <1>8, <1>9, <2>2
  <1>10. CASE n # 0
    <2> DEFINE F(k) == [i \in 1..Len(seqs) |-> IF i = 1 THEN seqs[i] ELSE k[i - 1] \o seqs[i]]
               flat == CHOOSE k : k = F(k)
               tail == [i \in 1..n |-> f[i]]
    <2>1. tail = F(tail)
      <3>1. ASSUME NEW i \in 1..n
            PROVE  tail[i] = IF i = 1 THEN seqs[i] ELSE tail[i - 1] \o seqs[i]
        <4>1. CASE i = 1
          <5>1. 1 \in 1..n /\ 1 - 1 = 0
            BY <1>2, <4>1
          <5>2. f[1] = f[0] \o seqs[1] /\ seqs[1] \in Seq(X)
            BY <1>2, <1>7, <5>1
          <5>3. <<>> \o seqs[1] = seqs[1]
            BY <5>2
          <5> QED BY <1>6, <4>1, <5>2, <5>3
        <4>2. CASE i # 1
          <5>1. i - 1 \in 1..n
            BY <1>2, <4>2
          <5> QED BY <1>7, <4>2, <5>1
        <4> QED BY <4>1, <4>2
      <3> QED BY <1>1, <3>1
    <2>2. flat = F(flat)
      BY <2>1
    <2>3. FlattenSeq(seqs) = flat[n]
      BY <1>1, <1>10 DEF FlattenSeq
    <2>4. \A i \in 1..n : flat[i] = IF i = 1 THEN seqs[i] ELSE flat[i - 1] \o seqs[i]
      <3> HIDE DEF flat
      <3> QED BY <1>1, <2>2
    <2>5. PICK h : h = [i \in 0..n |-> IF i = 0 THEN <<>> ELSE flat[i]]
      OBVIOUS
    <2> HIDE DEF flat, F
    <2>6. \A i \in 1..n : f[i - 1] = h[i - 1] => f[i] = h[i]
      <3> SUFFICES ASSUME NEW i \in 1..n, f[i - 1] = h[i - 1] PROVE f[i] = h[i]
        OBVIOUS
      <3>1. h[i] = flat[i]
        BY <1>2, <2>5
      <3>2. CASE i = 1
        <4>1. 1 \in 1..n /\ 1 - 1 = 0
          BY <1>2, <3>2
        <4>2. f[1] = f[0] \o seqs[1] /\ seqs[1] \in Seq(X)
          BY <1>2, <1>7, <4>1
        <4>3. <<>> \o seqs[1] = seqs[1]
          BY <4>2
        <4> QED BY <1>6, <2>4, <3>1, <3>2, <4>2, <4>3
      <3>3. CASE i # 1
        <4>1. i - 1 \in 0..n /\ i - 1 # 0
          BY <1>2, <3>3
        <4>2. h[i - 1] = flat[i - 1]
          BY <2>5, <4>1
        <4>3. f[i] = f[i - 1] \o seqs[i]
          BY <1>7
        <4>4. flat[i] = flat[i - 1] \o seqs[i]
          BY <2>4, <3>3
        <4> QED BY <3>1, <4>2, <4>3, <4>4
      <3> QED BY <3>2, <3>3
    <2>7. f[0] = h[0]
      BY <1>2, <1>6, <2>5
    <2>8. f[n] = h[n]
      <3>1. Agree(f, h, n)
        BY <2>6, <2>7 DEF Agree
      <3> QED BY <1>2, <3>1, StepsAgree
    <2>9. h[n] = flat[n]
      BY <1>2, <1>10, <2>5
    <2> QED BY <1>1, <1>8, <2>3, <2>8, <2>9
  <1> QED BY <1>9, <1>10

\* One more list.
LEMMA FlattenAppend ==
    ASSUME NEW X, NEW seqs \in Seq(Seq(X)), NEW s \in Seq(X)
    PROVE  /\ FlattenSeq(seqs) \in Seq(X)
           /\ FlattenSeq(Append(seqs, s)) = FlattenSeq(seqs) \o s
  <1>1. PICK more : more = Append(seqs, s)
    OBVIOUS
  <1>2. PICK n : n = Len(seqs)
    OBVIOUS
  <1>3. /\ n \in Nat /\ more \in Seq(Seq(X)) /\ Len(more) = n + 1 /\ more[n + 1] = s
        /\ \A i \in 1..n : more[i] = seqs[i]
    BY <1>1, <1>2
  <1>4. PICK f : Concatenates(f, seqs, X) /\ FlattenSeq(seqs) = f[n]
    BY <1>2, FlattenIs
  <1>5. PICK h : Concatenates(h, more, X) /\ FlattenSeq(more) = h[n + 1]
    BY <1>3, FlattenIs
  <1>6. f[0] = h[0] /\ \A i \in 1..n : f[i - 1] = h[i - 1] => f[i] = h[i]
    <2>1. f[0] = <<>> /\ \A i \in 1..n : f[i] = f[i - 1] \o seqs[i]
      BY <1>2, <1>4 DEF Concatenates
    <2>2. h[0] = <<>> /\ \A i \in 1..(n + 1) : h[i] = h[i - 1] \o more[i]
      BY <1>3, <1>5 DEF Concatenates
    <2>3. ASSUME NEW i \in 1..n, f[i - 1] = h[i - 1] PROVE f[i] = h[i]
      <3>1. i \in 1..(n + 1) /\ more[i] = seqs[i]
        BY <1>3
      <3>2. f[i] = f[i - 1] \o seqs[i] /\ h[i] = h[i - 1] \o more[i]
        BY <2>1, <2>2, <3>1
      <3> QED BY <2>3, <3>1, <3>2
    <2> QED BY <2>1, <2>2, <2>3
  <1>7. f[n] = h[n]
    <2>1. Agree(f, h, n)
      BY <1>6 DEF Agree
    <2> QED BY <1>3, <2>1, StepsAgree
  <1>8. h[n + 1] = h[n] \o s
    <2>1. n + 1 \in 1..Len(more) /\ (n + 1) - 1 = n
      BY <1>3
    <2> QED BY <1>3, <1>5, <2>1 DEF Concatenates
  <1>9. f[n] \in Seq(X)
    <2>1. f \in [0..n -> Seq(X)] /\ n \in 0..n
      BY <1>2, <1>3, <1>4 DEF Concatenates
    <2> QED BY <2>1
  <1> QED BY <1>1, <1>4, <1>5, <1>7, <1>8, <1>9

-----------------------------------------------------------------------------
(* The sort of a run, and what it keeps. *)

\* Sorting moves entries and loses none.
LEMMA SortedIs ==
    ASSUME NEW s \in Seq(EntrySet), NEW t \in Sorted(s)
    PROVE  /\ t \in Seq(EntrySet) /\ Len(t) = Len(s)
           /\ \A e : In(e, t) <=> In(e, s)
           /\ \A i \in 1..(Len(t) - 1) : ~Before(t[i + 1], t[i])
  <1>1. PICK n : n = Len(s)
    OBVIOUS
  <1>2. n \in Nat /\ DOMAIN s = 1..n /\ \A i \in 1..n : s[i] \in EntrySet
    BY <1>1
  <1>3. PICK p \in Bijection(1..n, 1..n) : t = [i \in 1..n |-> s[p[i]]]
    BY <1>2 DEF Sorted
  <1>4. p \in [1..n -> 1..n] /\ \A j \in 1..n : \E i \in 1..n : p[i] = j
    BY <1>3 DEF Bijection, Surjection, Injection
  <1>5. t \in Seq(EntrySet) /\ Len(t) = n
    BY <1>2, <1>3, <1>4
  <1>6. \A i \in 1..n : t[i] = s[p[i]]
    BY <1>3
  <1>7. ASSUME NEW e PROVE In(e, t) <=> In(e, s)
    <2>1. ASSUME NEW i \in 1..n, t[i] = e PROVE In(e, s)
      <3>1. p[i] \in 1..Len(s) /\ s[p[i]] = e
        BY <1>1, <1>4, <1>6, <2>1
      <3> QED BY <3>1 DEF In
    <2>2. ASSUME NEW j \in 1..n, s[j] = e PROVE In(e, t)
      <3>1. PICK i \in 1..n : p[i] = j
        BY <1>4
      <3>2. i \in 1..Len(t) /\ t[i] = e
        BY <1>5, <1>6, <2>2, <3>1
      <3> QED BY <3>2 DEF In
    <2> QED BY <1>1, <1>5, <2>1, <2>2 DEF In
  <1>8. \A i \in 1..(Len(t) - 1) : ~Before(t[i + 1], t[i])
    BY DEF Sorted
  <1> QED BY <1>1, <1>5, <1>7, <1>8

\* Dropping what occurs again from a sorted run without conflicts leaves a file of
\* the same entries.
LEMMA DedupIs ==
    ASSUME NEW s \in Seq(EntrySet),
           \A i \in 1..(Len(s) - 1) : ~Before(s[i + 1], s[i]) /\ ~Conflict(s[i], s[i + 1])
    PROVE  File(Dedup(s)) /\ \A e : In(e, Dedup(s)) <=> In(e, s)
  <1>1. PICK n : n = Len(s)
    OBVIOUS
  <1>2. n \in Nat /\ \A i \in 1..n : s[i] \in EntrySet /\ s[i].id \in Nat /\ s[i].digest \in Nat
    <2>1. n \in Nat /\ \A i \in 1..n : s[i] \in EntrySet
      BY <1>1
    <2> QED BY <2>1, EntryIs
  <1> DEFINE Alike(i) == i > 1 /\ s[i - 1].id = s[i].id
             F(k) == [i \in 0..n |-> IF i = 0 THEN <<>>
                                     ELSE IF i > 1 /\ s[i - 1].id = s[i].id THEN k[i - 1]
                                     ELSE Append(k[i - 1], s[i])]
             kept == CHOOSE k : k = F(k)
  <1>3. \E k : k = F(k) /\ k \in [0..n -> Seq(EntrySet)]
    <2>1. PICK Y : Y = Seq(EntrySet)
      OBVIOUS
    <2>2. PICK g : g = [q \in Y \X (1..n) |-> IF Alike(q[2]) THEN q[1] ELSE Append(q[1], s[q[2]])]
      OBVIOUS
    <2>3. g \in [Y \X (1..n) -> Y]
      BY <1>2, <2>1, <2>2
    <2>4. PICK b : b = <<>>
      OBVIOUS
    <2>5. b \in Y
      BY <2>1, <2>4
    <2>6. PICK k : Steps(k, Y, b, n, g)
      BY <1>2, <2>3, <2>5, StepsExist
    <2>7. k \in [0..n -> Y] /\ k[0] = <<>> /\ \A i \in 1..n : k[i] = g[<<k[i - 1], i>>]
      BY <2>4, <2>6 DEF Steps
    <2>8. ASSUME NEW i \in 1..n
          PROVE  k[i] = IF Alike(i) THEN k[i - 1] ELSE Append(k[i - 1], s[i])
      <3>1. k[i - 1] \in Y
        BY <1>2, <2>7
      <3> QED BY <2>2, <2>7, <3>1
    <2>9. k = F(k)
      <3>1. ASSUME NEW i \in 0..n
            PROVE  k[i] = IF i = 0 THEN <<>>
                          ELSE IF i > 1 /\ s[i - 1].id = s[i].id THEN k[i - 1]
                          ELSE Append(k[i - 1], s[i])
        <4>1. CASE i = 0
          BY <2>7, <4>1
        <4>2. CASE i # 0
          <5>1. i \in 1..n
            BY <1>2, <4>2
          <5> QED BY <2>8, <4>2, <5>1
        <4> QED BY <4>1, <4>2
      <3> QED BY <2>7, <3>1
    <2> QED BY <2>1, <2>7, <2>9
  <1>4. kept = F(kept)
    BY <1>3
  <1>5. Dedup(s) = kept[n]
    BY <1>1 DEF Dedup
  <1> HIDE DEF kept
  <1>6. /\ kept[0] = <<>>
        /\ \A i \in 1..n : kept[i] = IF Alike(i) THEN kept[i - 1] ELSE Append(kept[i - 1], s[i])
    <2>1. \A i \in 0..n : kept[i] = IF i = 0 THEN <<>>
                                   ELSE IF i > 1 /\ s[i - 1].id = s[i].id THEN kept[i - 1]
                                   ELSE Append(kept[i - 1], s[i])
      BY <1>4
    <2>2. 0 \in 0..n /\ \A i \in 1..n : i \in 0..n /\ i # 0
      BY <1>2
    <2>3. kept[0] = <<>>
      BY <2>1, <2>2
    <2>4. ASSUME NEW i \in 1..n
          PROVE  kept[i] = IF Alike(i) THEN kept[i - 1] ELSE Append(kept[i - 1], s[i])
      BY <2>1, <2>2
    <2> QED BY <2>3, <2>4
  <1> HIDE DEF F
  <1> DEFINE Good(i) == /\ File(kept[i])
                        /\ \A e : In(e, kept[i]) <=> \E j \in 1..i : s[j] = e
                        /\ \A j \in 1..i : s[j].id <= s[i].id
  <1>7. PICK S : S = {i \in Nat : i <= n => Good(i)}
    OBVIOUS
  <1>8. 0 \in S
    <2>1. File(<<>>) /\ \A e : ~In(e, <<>>)
      BY DEF File, In
    <2>2. Good(0)
      BY <1>6, <2>1
    <2> QED BY <1>7, <2>2
  <1>9. ASSUME NEW i \in S PROVE i + 1 \in S
    <2>1. i \in Nat
      BY <1>7
    <2> SUFFICES ASSUME i + 1 <= n PROVE Good(i + 1)
      BY <1>7, <2>1
    <2>2. Good(i)
      <3>1. i <= n
        BY <1>2, <2>1
      <3> QED BY <1>7, <3>1
    <2> HIDE DEF Good
    <2>3. i + 1 \in 1..n /\ (i + 1) - 1 = i
      BY <2>1
    <2>4. i > 0 => /\ i \in 1..n /\ i \in 1..(n - 1)
                   /\ ~Before(s[i + 1], s[i]) /\ ~Conflict(s[i], s[i + 1])
      BY <1>1, <1>2, <2>1
    <2>5. i > 0 => s[i].id <= s[i + 1].id
      BY <1>2, <2>1, <2>3, <2>4 DEF Before
    <2>6. \A j \in 1..(i + 1) : s[j].id <= s[i + 1].id
      <3> SUFFICES ASSUME NEW j \in 1..(i + 1) PROVE s[j].id <= s[i + 1].id
        OBVIOUS
      <3>1. CASE j = i + 1
        BY <1>2, <2>3, <3>1
      <3>2. CASE j # i + 1
        <4>1. j \in 1..i /\ j \in 1..n /\ i > 0
          BY <1>2, <2>1, <3>2
        <4>2. s[j].id <= s[i].id
          BY <2>2, <4>1 DEF Good
        <4>3. s[j].id \in Nat /\ s[i].id \in Nat /\ s[i + 1].id \in Nat
          BY <1>2, <2>3, <2>4, <4>1
        <4>4. s[i].id <= s[i + 1].id
          BY <2>5, <4>1
        <4> QED BY <4>2, <4>3, <4>4
      <3> QED BY <3>1, <3>2
    <2>7. CASE Alike(i + 1)
      <3>1. i > 0 /\ s[i].id = s[i + 1].id
        BY <2>1, <2>3, <2>7
      <3>2. s[i].digest = s[i + 1].digest
        BY <2>4, <3>1 DEF Conflict
      <3>3. s[i] = s[i + 1]
        BY <1>2, <2>3, <2>4, <3>1, <3>2, EntryIs
      <3>4. kept[i + 1] = kept[i]
        BY <1>6, <2>3, <2>7
      <3>5. ASSUME NEW e PROVE (\E j \in 1..i : s[j] = e) <=> (\E j \in 1..(i + 1) : s[j] = e)
        BY <2>1, <3>1, <3>3
      <3> QED BY <2>2, <2>6, <3>4, <3>5 DEF Good
    <2>8. CASE ~Alike(i + 1)
      <3>1. i > 0 => s[i].id < s[i + 1].id
        BY <1>2, <2>1, <2>3, <2>4, <2>5, <2>8
      <3>2. kept[i + 1] = Append(kept[i], s[i + 1])
        BY <1>6, <2>3, <2>8
      <3>3. ASSUME NEW k \in 1..Len(kept[i]) PROVE kept[i][k].id < s[i + 1].id
        <4>1. In(kept[i][k], kept[i])
          BY DEF In
        <4>2. PICK j \in 1..i : s[j] = kept[i][k]
          BY <2>2, <4>1 DEF Good
        <4>3. s[j].id <= s[i].id /\ i > 0 /\ j \in 1..n
          <5>1. i > 0 /\ j \in 1..n
            BY <1>2, <2>1, <4>2
          <5> QED BY <2>2, <4>2, <5>1 DEF Good
        <4>4. s[j].id \in Nat /\ s[i].id \in Nat /\ s[i + 1].id \in Nat
          BY <1>2, <2>3, <2>4, <4>3
        <4>5. s[j].id < s[i + 1].id
          BY <3>1, <4>3, <4>4
        <4> QED BY <4>2, <4>5
      <3>4. File(kept[i]) /\ s[i + 1] \in EntrySet
        BY <1>2, <2>2, <2>3 DEF Good
      <3>5. File(kept[i + 1])
        BY <3>2, <3>3, <3>4, FileAppend
      <3>6. \A e : In(e, kept[i + 1]) <=> In(e, kept[i]) \/ e = s[i + 1]
        BY <3>2, <3>4, InAppend DEF File
      <3>7. ASSUME NEW e
            PROVE  (\E j \in 1..(i + 1) : s[j] = e) <=> (\E j \in 1..i : s[j] = e) \/ e = s[i + 1]
        BY <2>1
      <3> QED BY <2>2, <2>6, <3>5, <3>6, <3>7 DEF Good
    <2> QED BY <2>7, <2>8
  <1>10. n \in S
    BY <1>2, <1>7, <1>8, <1>9, NumbersInSet
  <1>11. Good(n)
    BY <1>2, <1>7, <1>10
  <1>12. \A e : In(e, s) <=> \E j \in 1..n : s[j] = e
    BY <1>1 DEF In
  <1>13. File(kept[n]) /\ \A e : In(e, kept[n]) <=> \E j \in 1..n : s[j] = e
    BY <1>11
  <1> HIDE DEF Good
  <1> QED BY <1>5, <1>12, <1>13

-----------------------------------------------------------------------------
(* Sequences of files. *)

\* One more file.
LEMMA FilesAppend ==
    ASSUME NEW fs, Files(fs), NEW f, File(f)
    PROVE  /\ Files(Append(fs, f)) /\ Len(Append(fs, f)) = Len(fs) + 1
           /\ \A e : InSome(e, Append(fs, f)) <=> InSome(e, fs) \/ In(e, f)
  <1>1. fs \in Seq(Seq(EntrySet)) /\ f \in Seq(EntrySet) /\ Len(fs) \in Nat
    BY DEF Files, File
  <1>2. /\ Append(fs, f) \in Seq(Seq(EntrySet)) /\ Len(Append(fs, f)) = Len(fs) + 1
        /\ \A k \in 1..Len(fs) : Append(fs, f)[k] = fs[k]
        /\ Append(fs, f)[Len(fs) + 1] = f
    BY <1>1
  <1>3. Files(Append(fs, f))
    <2> SUFFICES ASSUME NEW k \in 1..(Len(fs) + 1) PROVE File(Append(fs, f)[k])
      BY <1>2 DEF Files
    <2>1. k \in 1..Len(fs) \/ k = Len(fs) + 1
      BY <1>1
    <2> QED BY <1>2, <2>1 DEF Files
  <1>4. ASSUME NEW e PROVE InSome(e, Append(fs, f)) <=> InSome(e, fs) \/ In(e, f)
    <2>1. ASSUME NEW k \in 1..(Len(fs) + 1), In(e, Append(fs, f)[k]) PROVE InSome(e, fs) \/ In(e, f)
      <3>1. k \in 1..Len(fs) \/ k = Len(fs) + 1
        BY <1>1
      <3> QED BY <1>2, <2>1, <3>1 DEF InSome
    <2>2. ASSUME NEW k \in 1..Len(fs), In(e, fs[k]) PROVE InSome(e, Append(fs, f))
      <3>1. k \in 1..Len(Append(fs, f)) /\ In(e, Append(fs, f)[k])
        BY <1>1, <1>2, <2>2
      <3> QED BY <3>1 DEF InSome
    <2>3. ASSUME In(e, f) PROVE InSome(e, Append(fs, f))
      <3>1. Len(fs) + 1 \in 1..Len(Append(fs, f)) /\ In(e, Append(fs, f)[Len(fs) + 1])
        BY <1>1, <1>2, <2>3
      <3> QED BY <3>1 DEF InSome
    <2> QED BY <1>2, <2>1, <2>2, <2>3 DEF InSome
  <1> QED BY <1>2, <1>3, <1>4

\* A group of files and the rest.
LEMMA FilesSplit ==
    ASSUME NEW fs, Files(fs), NEW n \in 1..Len(fs)
    PROVE  /\ Files(SubSeq(fs, 1, n)) /\ Files(SubSeq(fs, n + 1, Len(fs)))
           /\ \A e : InSome(e, fs) <=> \/ InSome(e, SubSeq(fs, 1, n))
                                     \/ InSome(e, SubSeq(fs, n + 1, Len(fs)))
  <1>1. fs \in Seq(Seq(EntrySet)) /\ Len(fs) \in Nat /\ n \in Nat /\ n <= Len(fs)
    BY DEF Files
  <1>2. PICK a : a = SubSeq(fs, 1, n)
    OBVIOUS
  <1>3. PICK b : b = SubSeq(fs, n + 1, Len(fs))
    OBVIOUS
  <1>4. a \in Seq(Seq(EntrySet)) /\ Len(a) = n /\ \A k \in 1..n : a[k] = fs[k]
    BY <1>1, <1>2
  <1>5. /\ b \in Seq(Seq(EntrySet)) /\ Len(b) = Len(fs) - n
        /\ \A k \in 1..(Len(fs) - n) : b[k] = fs[n + k]
    <2>1. Len(b) = Len(fs) - n
      BY <1>1, <1>3
    <2> QED BY <1>1, <1>3, <2>1
  <1>6. Files(a)
    <2> SUFFICES ASSUME NEW k \in 1..n PROVE File(a[k])
      BY <1>4 DEF Files
    <2>1. k \in 1..Len(fs)
      BY <1>1
    <2> QED BY <1>4, <2>1 DEF Files
  <1>7. Files(b)
    <2> SUFFICES ASSUME NEW k \in 1..(Len(fs) - n) PROVE File(b[k])
      BY <1>5 DEF Files
    <2>1. n + k \in 1..Len(fs)
      BY <1>1
    <2> QED BY <1>5, <2>1 DEF Files
  <1>8. ASSUME NEW e PROVE InSome(e, fs) <=> InSome(e, a) \/ InSome(e, b)
    <2>1. ASSUME NEW k \in 1..Len(fs), In(e, fs[k]) PROVE InSome(e, a) \/ InSome(e, b)
      <3>1. CASE k <= n
        <4>1. k \in 1..Len(a) /\ In(e, a[k])
          BY <1>1, <1>4, <2>1, <3>1
        <4> QED BY <4>1 DEF InSome
      <3>2. CASE ~(k <= n)
        <4>1. k - n \in 1..Len(b) /\ n + (k - n) = k
          BY <1>1, <1>5, <3>2
        <4>2. In(e, b[k - n])
          BY <1>5, <2>1, <4>1
        <4> QED BY <4>1, <4>2 DEF InSome
      <3> QED BY <3>1, <3>2
    <2>2. ASSUME NEW k \in 1..n, In(e, a[k]) PROVE InSome(e, fs)
      <3>1. k \in 1..Len(fs) /\ In(e, fs[k])
        BY <1>1, <1>4, <2>2
      <3> QED BY <3>1 DEF InSome
    <2>3. ASSUME NEW k \in 1..(Len(fs) - n), In(e, b[k]) PROVE InSome(e, fs)
      <3>1. n + k \in 1..Len(fs) /\ In(e, fs[n + k])
        BY <1>1, <1>5, <2>3
      <3> QED BY <3>1 DEF InSome
    <2> QED BY <1>4, <1>5, <2>1, <2>2, <2>3 DEF InSome
  <1> QED BY <1>2, <1>3, <1>6, <1>7, <1>8

\* A file advances by an entry.
Advances(fs, gs, i) == i \in 1..Len(fs) /\ fs[i] # <<>> /\ gs = [fs EXCEPT ![i] = Tail(@)]

Advanced(fs, gs, i) ==
    /\ Files(gs) /\ Len(gs) = Len(fs) /\ gs[i] = Tail(fs[i])
    /\ \A k \in 1..Len(fs) : k # i => gs[k] = fs[k]
    /\ \A e : InSome(e, fs) <=> InSome(e, gs) \/ e = Head(fs[i])

\* What is left are files, with the same entries but the one taken.
LEMMA FilesAdvance ==
    ASSUME NEW fs, Files(fs), NEW gs, NEW i, Advances(fs, gs, i)
    PROVE  Advanced(fs, gs, i)
  <1>0. i \in 1..Len(fs) /\ fs[i] # <<>> /\ gs = [fs EXCEPT ![i] = Tail(@)]
    BY DEF Advances
  <1>1. fs \in Seq(Seq(EntrySet)) /\ Len(fs) \in Nat /\ File(fs[i]) /\ fs[i] \in Seq(EntrySet)
    BY <1>0 DEF Files
  <1>2. File(Tail(fs[i])) /\ Tail(fs[i]) \in Seq(EntrySet)
    BY <1>0, <1>1, FileTail
  <1>3. PICK t : t = Tail(fs[i])
    OBVIOUS
  <1>4. PICK Y : Y = Seq(EntrySet)
    OBVIOUS
  <1>5. /\ gs \in Seq(Y) /\ Len(gs) = Len(fs) /\ gs[i] = t
        /\ \A k \in 1..Len(fs) : k # i => gs[k] = fs[k]
    <2>1. fs \in Seq(Y) /\ t \in Y /\ gs = [fs EXCEPT ![i] = t]
      BY <1>0, <1>1, <1>2, <1>3, <1>4
    <2>2. DOMAIN fs = 1..Len(fs) /\ \A k \in 1..Len(fs) : fs[k] \in Y
      BY <2>1
    <2>3. /\ DOMAIN gs = 1..Len(fs) /\ gs[i] = t
          /\ \A k \in 1..Len(fs) : k # i => gs[k] = fs[k]
      BY <1>0, <2>1, <2>2, Zenon
    <2>4. gs = [k \in 1..Len(fs) |-> IF k = i THEN t ELSE fs[k]]
      BY <2>1, <2>2
    <2>5. gs \in Seq(Y) /\ Len(gs) = Len(fs)
      <3>1. PICK n : n = Len(fs)
        OBVIOUS
      <3>2. n \in Nat /\ gs \in [1..n -> Y]
        BY <1>1, <2>1, <2>2, <2>4, <3>1
      <3>3. gs \in Seq(Y)
        BY <3>2, SeqDef
      <3>4. Len(gs) \in Nat /\ DOMAIN gs = 1..Len(gs) /\ DOMAIN gs = 1..n
        BY <3>2, <3>3, LenProperties
      <3>5. Len(gs) = n
        BY <3>2, <3>4
      <3> QED BY <3>1, <3>3, <3>5
    <2> QED BY <2>3, <2>5
  <1>6. Files(gs)
    BY <1>2, <1>3, <1>4, <1>5 DEF Files
  <1>7. \A e : In(e, fs[i]) <=> In(e, t) \/ e = Head(fs[i])
    BY <1>0, <1>1, <1>3, InTail
  <1>8. ASSUME NEW e PROVE InSome(e, fs) <=> InSome(e, gs) \/ e = Head(fs[i])
    <2>1. ASSUME NEW k \in 1..Len(fs), In(e, fs[k]) PROVE InSome(e, gs) \/ e = Head(fs[i])
      <3>1. CASE k = i
        <4> SUFFICES ASSUME e # Head(fs[i]) PROVE InSome(e, gs)
          OBVIOUS
        <4>1. In(e, gs[i])
          BY <1>5, <1>7, <2>1, <3>1
        <4> QED BY <1>0, <1>5, <4>1 DEF InSome
      <3>2. CASE k # i
        BY <1>5, <2>1, <3>2 DEF InSome
      <3> QED BY <3>1, <3>2
    <2>2. ASSUME NEW k \in 1..Len(fs), In(e, gs[k]) PROVE InSome(e, fs)
      <3>1. CASE k = i
        <4>1. In(e, fs[i])
          BY <1>5, <1>7, <2>2, <3>1
        <4> QED BY <1>0, <4>1 DEF InSome
      <3>2. CASE k # i
        BY <1>5, <2>2, <3>2 DEF InSome
      <3> QED BY <3>1, <3>2
    <2>3. ASSUME e = Head(fs[i]) PROVE InSome(e, fs)
      <3>1. In(e, fs[i])
        BY <1>7, <2>3
      <3> QED BY <1>0, <3>1 DEF InSome
    <2> QED BY <1>5, <2>1, <2>2, <2>3 DEF InSome
  <1> QED BY <1>3, <1>5, <1>6, <1>8 DEF Advanced

-----------------------------------------------------------------------------
(* The invariant of the external sort. *)

OrderTypes ==
    /\ records \in Seq(RecordSet) /\ unscanned \in Seq(RecordSet)
    /\ ordered \in Seq(EntrySet)
    /\ Files(runs) /\ Files(merged) /\ Files(group) /\ File(out)
    /\ previous = NoEntry \/ previous \in EntrySet
    /\ batches \in Seq(Seq(EntrySet))

\* An input that has not been scanned.
Waits(e, rest) == \E i \in 1..Len(rest) : IsInput(rest[i]) /\ Entry(rest[i]) = e

\* Every place an input can be in.
Held(e) ==
    \/ Waits(e, unscanned) \/ In(e, ordered)
    \/ InSome(e, runs) \/ InSome(e, merged) \/ InSome(e, group)
    \/ In(e, out) \/ (previous # NoEntry /\ e = previous)

\* No input is lost on its way through runs, groups and passes, and none is made.
NothingLost == \A e : Held(e) <=> e \in Inputs

\* What is empty in which phase.
PlacesOfPhase ==
    /\ phase \in {"scan", "pass", "merge"} => batches = <<>>
    /\ phase = "scan" => merged = <<>>
    /\ phase \in {"pass", "merge", "read", "done"} => unscanned = <<>> /\ ordered = <<>>
    /\ phase \in {"scan", "pass", "read", "done"} =>
           group = <<>> /\ out = <<>> /\ previous = NoEntry
    /\ phase \in {"read", "done"} => runs = <<>> /\ Len(merged) = 1

\* The merge writes in order: what it wrote comes before the entry it holds, and
\* that one comes no later than what is left of the files.
MergeOrder ==
    phase = "merge" =>
        /\ previous = NoEntry => out = <<>>
        /\ previous # NoEntry =>
              /\ \A i \in 1..Len(out) : out[i].id < previous.id
              /\ \A k \in Heads : previous.id <= Head(group[k]).id

\* The reader has handed out a prefix of the merged file.
ReadsPrefix ==
    /\ phase \in {"read", "done"} =>
          Len(ReadSoFar) <= Len(Merged) /\ ReadSoFar = SubSeq(Merged, 1, Len(ReadSoFar))
    /\ phase = "done" => Len(ReadSoFar) = Len(Merged)

OrderInv ==
    /\ OrderTypes /\ NothingLost /\ PlacesOfPhase /\ MergeOrder /\ ReadsPrefix
    /\ phase = "conflict" => Conflicting

\* Nothing is in what is empty.
LEMMA EmptyHolds ==
    \A e : ~In(e, <<>>) /\ ~InSome(e, <<>>) /\ ~Waits(e, <<>>)
  BY DEF In, InSome, Waits

\* What is empty is ordered.
LEMMA EmptyFiles == File(<<>>) /\ Files(<<>>)
  BY DEF File, Files

\* A sort that begins has everything still to scan.
LEMMA OrderInitInv ==
    ASSUME OrderInit
    PROVE  OrderInv
  <1>1. PICK journal \in Journals : OrderStart(journal)
    BY DEF OrderInit
  <1>2. records \in Seq(RecordSet) /\ unscanned = records
    BY <1>1, ReplayOrderAssumption DEF OrderStart, RecordSet
  <1>3. OrderTypes
    BY <1>1, <1>2, EmptyFiles DEF OrderTypes, OrderStart
  <1>4. ASSUME NEW e PROVE Held(e) <=> e \in Inputs
    <2>1. Held(e) <=> Waits(e, records)
      BY <1>1, <1>2, EmptyHolds DEF Held, OrderStart
    <2>2. DOMAIN records = 1..Len(records)
      BY <1>2
    <2> QED BY <2>1, <2>2 DEF Waits, Inputs
  <1> QED
    BY <1>1, <1>3, <1>4
    DEF OrderInv, NothingLost, PlacesOfPhase, MergeOrder, ReadsPrefix, OrderStart

\* Every entry there is is an entry of the journal.
LEMMA HeldIsInput ==
    ASSUME OrderInv, NEW e, Held(e)
    PROVE  e \in Inputs
  BY DEF OrderInv, NothingLost

\* A step that keeps what is held keeps what is held to be the inputs.
LEMMA KeepsHeld ==
    ASSUME OrderInv, records' = records, \A e : Held(e)' <=> Held(e)
    PROVE  NothingLost'
  <1>1. Inputs' = Inputs
    BY DEF Inputs
  <1> QED BY <1>1 DEF OrderInv, NothingLost

\* A record that is read leaves the journal and, if it is an input, joins the
\* entries in memory.
LEMMA ScanKeeps ==
    ASSUME OrderInv, Scan
    PROVE  OrderInv'
  <1>1. /\ unscanned \in Seq(RecordSet) /\ unscanned # <<>> /\ ordered \in Seq(EntrySet)
        /\ unscanned' = Tail(unscanned)
        /\ ordered' = IF IsInput(Head(unscanned)) THEN Append(ordered, Entry(Head(unscanned)))
                      ELSE ordered
        /\ UNCHANGED <<records, runs, merged, group, previous, out, phase, batches>>
        /\ phase = "scan"
    BY DEF Scan, OrderInv, OrderTypes
  <1>2. PICK first : first = Head(unscanned)
    OBVIOUS
  <1>3. first \in RecordSet /\ Entry(first) \in EntrySet
    <2>1. first \in RecordSet
      BY <1>1, <1>2
    <2> QED BY <2>1 DEF RecordSet, EntrySet, Entry
  <1>4. unscanned' \in Seq(RecordSet) /\ ordered' \in Seq(EntrySet)
    BY <1>1, <1>2, <1>3
  <1>5. OrderTypes'
    BY <1>1, <1>4 DEF OrderInv, OrderTypes
  <1>6. \A e : Waits(e, unscanned) <=> Waits(e, unscanned') \/ (IsInput(first) /\ e = Entry(first))
    <2> SUFFICES ASSUME NEW e
                 PROVE  Waits(e, unscanned) <=>
                           Waits(e, unscanned') \/ (IsInput(first) /\ e = Entry(first))
      OBVIOUS
    <2>1. /\ Len(unscanned) \in Nat /\ Len(unscanned) > 0 /\ Len(unscanned') = Len(unscanned) - 1
          /\ \A i \in 1..(Len(unscanned) - 1) : unscanned'[i] = unscanned[i + 1]
          /\ first = unscanned[1]
      BY <1>1, <1>2
    <2>2. ASSUME NEW i \in 1..Len(unscanned), IsInput(unscanned[i]), Entry(unscanned[i]) = e
          PROVE  Waits(e, unscanned') \/ (IsInput(first) /\ e = Entry(first))
      <3>1. CASE i = 1
        BY <2>1, <2>2, <3>1
      <3>2. CASE i # 1
        <4>1. i - 1 \in 1..Len(unscanned') /\ unscanned'[i - 1] = unscanned[i]
          BY <2>1, <3>2
        <4> QED BY <2>2, <4>1 DEF Waits
      <3> QED BY <3>1, <3>2
    <2>3. ASSUME NEW i \in 1..Len(unscanned'), IsInput(unscanned'[i]), Entry(unscanned'[i]) = e
          PROVE  Waits(e, unscanned)
      <3>1. i + 1 \in 1..Len(unscanned) /\ unscanned[i + 1] = unscanned'[i]
        BY <2>1
      <3> QED BY <2>3, <3>1 DEF Waits
    <2>4. ASSUME IsInput(first), e = Entry(first) PROVE Waits(e, unscanned)
      <3>1. 1 \in 1..Len(unscanned)
        BY <2>1
      <3> QED BY <2>1, <2>4, <3>1 DEF Waits
    <2> QED BY <2>2, <2>3, <2>4 DEF Waits
  <1>7. \A e : In(e, ordered') <=> In(e, ordered) \/ (IsInput(first) /\ e = Entry(first))
    <2>1. CASE IsInput(first)
      <3>1. ordered' = Append(ordered, Entry(first))
        BY <1>1, <1>2, <2>1
      <3> QED BY <1>1, <1>3, <2>1, <3>1, InAppend
    <2>2. CASE ~IsInput(first)
      <3>1. ordered' = ordered
        BY <1>1, <1>2, <2>2
      <3> QED BY <2>2, <3>1
    <2> QED BY <2>1, <2>2
  <1>8. \A e : Held(e)' <=> Held(e)
    BY <1>1, <1>6, <1>7 DEF Held
  <1>9. NothingLost'
    BY <1>1, <1>8, KeepsHeld
  <1> QED BY <1>1, <1>5, <1>9 DEF OrderInv, PlacesOfPhase, MergeOrder, ReadsPrefix

\* A run has the entries it was made of; a conflict in it is one of the journal.
LEMMA FlushKeeps ==
    ASSUME OrderInv, FlushRun
    PROVE  OrderInv'
  <1>1. PICK sorted \in Sorted(ordered) :
           IF \E i \in 1..(Len(sorted) - 1) : Conflict(sorted[i], sorted[i + 1])
           THEN phase' = "conflict" /\ UNCHANGED <<ordered, runs>>
           ELSE /\ runs' = Append(runs, Dedup(sorted))
                /\ ordered' = <<>>
                /\ UNCHANGED phase
    BY DEF FlushRun
  <1>2. /\ UNCHANGED <<records, unscanned, merged, group, previous, out, batches>>
        /\ phase = "scan" /\ ordered \in Seq(EntrySet) /\ Files(runs)
    BY DEF FlushRun, OrderInv, OrderTypes
  <1>3. /\ sorted \in Seq(EntrySet) /\ \A e : In(e, sorted) <=> In(e, ordered)
        /\ \A i \in 1..(Len(sorted) - 1) : ~Before(sorted[i + 1], sorted[i])
    BY <1>1, <1>2, SortedIs
  <1>4. CASE \E i \in 1..(Len(sorted) - 1) : Conflict(sorted[i], sorted[i + 1])
    <2>1. PICK i \in 1..(Len(sorted) - 1) : Conflict(sorted[i], sorted[i + 1])
      BY <1>4
    <2>2. i \in 1..Len(sorted) /\ i + 1 \in 1..Len(sorted)
      BY <1>3
    <2>3. In(sorted[i], ordered) /\ In(sorted[i + 1], ordered)
      BY <1>3, <2>2 DEF In
    <2>4. sorted[i] \in Inputs /\ sorted[i + 1] \in Inputs
      BY <2>3, HeldIsInput DEF Held
    <2>5. Conflicting
      BY <2>1, <2>4 DEF Conflicting
    <2>6. phase' = "conflict" /\ UNCHANGED <<ordered, runs>>
      BY <1>1, <1>4
    <2>7. Inputs' = Inputs
      BY <1>2 DEF Inputs
    <2>8. Conflicting'
      BY <2>5, <2>7 DEF Conflicting
    <2>9. \A e : Held(e)' <=> Held(e)
      BY <1>2, <2>6 DEF Held
    <2>10. NothingLost'
      BY <1>2, <2>9, KeepsHeld
    <2>11. OrderTypes'
      BY <1>2, <2>6 DEF OrderInv, OrderTypes
    <2> QED BY <2>6, <2>8, <2>10, <2>11 DEF OrderInv, PlacesOfPhase, MergeOrder, ReadsPrefix
  <1>5. CASE ~\E i \in 1..(Len(sorted) - 1) : Conflict(sorted[i], sorted[i + 1])
    <2>1. runs' = Append(runs, Dedup(sorted)) /\ ordered' = <<>> /\ phase' = phase
      BY <1>1, <1>5
    <2>2. File(Dedup(sorted)) /\ \A e : In(e, Dedup(sorted)) <=> In(e, sorted)
      BY <1>3, <1>5, DedupIs
    <2>3. Files(runs') /\ \A e : InSome(e, runs') <=> InSome(e, runs) \/ In(e, Dedup(sorted))
      BY <1>2, <2>1, <2>2, FilesAppend
    <2>4. OrderTypes'
      BY <1>2, <2>1, <2>3 DEF OrderInv, OrderTypes
    <2>5. \A e : Held(e)' <=> Held(e)
      BY <1>2, <1>3, <2>1, <2>2, <2>3, EmptyHolds DEF Held
    <2>6. NothingLost'
      BY <1>2, <2>5, KeepsHeld
    <2> QED BY <1>2, <2>1, <2>4, <2>6 DEF OrderInv, PlacesOfPhase, MergeOrder, ReadsPrefix
  <1> QED BY <1>4, <1>5

\* A step that moves no entry.
LEMMA PhaseKeeps ==
    ASSUME OrderInv,
           UNCHANGED <<records, unscanned, ordered, runs, merged, group, previous, out, batches>>
    PROVE  OrderTypes' /\ NothingLost'
  <1>1. \A e : Held(e)' <=> Held(e)
    BY DEF Held
  <1>2. OrderTypes'
    BY DEF OrderInv, OrderTypes
  <1> QED BY <1>1, <1>2, KeepsHeld

\* The end of the scan, or a failure, moves no entry.
LEMMA ScanEndsKeeps ==
    ASSUME OrderInv, ScanEnds \/ Fails
    PROVE  OrderInv'
  <1>1. OrderTypes' /\ NothingLost'
    BY PhaseKeeps DEF ScanEnds, Fails
  <1> QED BY <1>1 DEF ScanEnds, Fails, OrderInv, PlacesOfPhase, MergeOrder, ReadsPrefix

\* The one file that is left is the merged file: nothing of it has been read.
LEMMA MergeEndsKeeps ==
    ASSUME OrderInv, MergeEnds
    PROVE  OrderInv'
  <1>1. OrderTypes' /\ NothingLost'
    BY PhaseKeeps DEF MergeEnds
  <1>2. phase' = "read" /\ batches' = <<>> /\ merged' = merged /\ Len(merged) = 1 /\ Files(merged)
    BY DEF MergeEnds, OrderInv, PlacesOfPhase, OrderTypes
  <1>3. ReadSoFar' = <<>>
    BY <1>2 DEF ReadSoFar, FlattenSeq
  <1>4. Merged' = Merged /\ Merged \in Seq(EntrySet)
    BY <1>2 DEF Merged, Files
  <1>5. ReadsPrefix'
    BY <1>2, <1>3, <1>4 DEF ReadsPrefix
  <1> QED BY <1>1, <1>2, <1>5 DEF MergeEnds, OrderInv, PlacesOfPhase, MergeOrder

\* A group is taken from the files of the pass.
LEMMA MergeGroupKeeps ==
    ASSUME OrderInv, MergeGroup
    PROVE  OrderInv'
  <1>1. /\ phase = "pass" /\ runs # <<>> /\ Files(runs) /\ group = <<>> /\ previous = NoEntry
        /\ out = <<>> /\ batches = <<>> /\ unscanned = <<>> /\ ordered = <<>>
        /\ group' = SubSeq(runs, 1, GroupLen) /\ runs' = SubSeq(runs, GroupLen + 1, Len(runs))
        /\ previous' = NoEntry /\ out' = <<>> /\ phase' = "merge"
        /\ UNCHANGED <<records, unscanned, ordered, merged, batches>>
    BY DEF MergeGroup, OrderInv, PlacesOfPhase, OrderTypes
  <1>2. GroupLen \in 1..Len(runs)
    <2>1. runs \in Seq(Seq(EntrySet))
      BY <1>1 DEF Files
    <2>2. Len(runs) \in Nat /\ Len(runs) > 0
      BY <1>1, <2>1
    <2> QED BY <2>2, ReplayOrderAssumption DEF GroupLen
  <1>3. /\ Files(group') /\ Files(runs')
        /\ \A e : InSome(e, runs) <=> InSome(e, group') \/ InSome(e, runs')
    BY <1>1, <1>2, FilesSplit
  <1>4. OrderTypes'
    BY <1>1, <1>3, EmptyFiles DEF OrderInv, OrderTypes
  <1>5. \A e : Held(e)' <=> Held(e)
    BY <1>1, <1>3, EmptyHolds DEF Held
  <1>6. NothingLost'
    BY <1>1, <1>5, KeepsHeld
  <1> QED BY <1>1, <1>4, <1>6 DEF OrderInv, PlacesOfPhase, MergeOrder, ReadsPrefix

\* The files of a pass become those of the next.
LEMMA NextPassKeeps ==
    ASSUME OrderInv, NextPass
    PROVE  OrderInv'
  <1>1. /\ phase = "pass" /\ runs = <<>> /\ runs' = merged /\ merged' = <<>>
        /\ UNCHANGED <<records, unscanned, ordered, group, previous, out, phase, batches>>
    BY DEF NextPass
  <1>2. OrderTypes'
    BY <1>1, EmptyFiles DEF OrderInv, OrderTypes
  <1>3. \A e : Held(e)' <=> Held(e)
    BY <1>1, EmptyHolds DEF Held
  <1>4. NothingLost'
    BY <1>1, <1>3, KeepsHeld
  <1> QED BY <1>1, <1>2, <1>4 DEF OrderInv, PlacesOfPhase, MergeOrder, ReadsPrefix

\* The least cursor has the least id, and what its file still holds comes later.
LEMMA LeastIs ==
    ASSUME OrderTypes, NEW i \in Heads, LeastCursor(i)
    PROVE  /\ i \in 1..Len(group) /\ group[i] # <<>> /\ Head(group[i]) \in EntrySet
           /\ \A k \in Heads : Head(group[i]).id <= Head(group[k]).id
  <1>1. Files(group) /\ DOMAIN group = 1..Len(group)
    BY DEF OrderTypes, Files
  <1>2. ASSUME NEW k \in Heads
        PROVE  k \in 1..Len(group) /\ group[k] # <<>> /\ Head(group[k]) \in EntrySet
    <2>1. k \in 1..Len(group) /\ group[k] # <<>>
      BY <1>1 DEF Heads
    <2>2. File(group[k])
      BY <1>1, <2>1 DEF Files
    <2> QED BY <2>1, <2>2, FileTail
  <1>3. ASSUME NEW k \in Heads PROVE Head(group[i]).id <= Head(group[k]).id
    <2>1. Head(group[i]) \in EntrySet /\ Head(group[k]) \in EntrySet
      BY <1>2
    <2>2. Head(group[i]).id \in Nat /\ Head(group[k]).id \in Nat
      BY <2>1, EntryIs
    <2>3. Before(Head(group[i]), Head(group[k])) \/ Head(group[i]) = Head(group[k])
      BY DEF LeastCursor
    <2> QED BY <2>2, <2>3 DEF Before
  <1> QED BY <1>2, <1>3

\* When the file of the least cursor advances, every head still comes no earlier.
LEMMA HeadsAdvance ==
    ASSUME OrderTypes, NEW i \in Heads, LeastCursor(i), group' = [group EXCEPT ![i] = Tail(@)]
    PROVE  /\ Files(group')
           /\ \A k \in Heads' : Head(group[i]).id <= Head(group'[k]).id
           /\ \A e : InSome(e, group) <=> InSome(e, group') \/ e = Head(group[i])
  <1>1. /\ i \in 1..Len(group) /\ group[i] # <<>> /\ Head(group[i]) \in EntrySet
        /\ \A k \in Heads : Head(group[i]).id <= Head(group[k]).id
    BY LeastIs
  <1>2. Files(group)
    BY DEF OrderTypes
  <1>3. /\ Files(group') /\ Len(group') = Len(group) /\ group'[i] = Tail(group[i])
        /\ \A k \in 1..Len(group) : k # i => group'[k] = group[k]
        /\ \A e : InSome(e, group) <=> InSome(e, group') \/ e = Head(group[i])
    <2>1. Advances(group, group', i)
      BY <1>1 DEF Advances
    <2>2. Advanced(group, group', i)
      BY <1>2, <2>1, FilesAdvance
    <2> QED BY <2>2 DEF Advanced
  <1>4. DOMAIN group = 1..Len(group) /\ DOMAIN group' = 1..Len(group)
    BY <1>2, <1>3 DEF Files
  <1>5. ASSUME NEW k \in Heads' PROVE Head(group[i]).id <= Head(group'[k]).id
    <2>1. k \in 1..Len(group) /\ group'[k] # <<>>
      BY <1>4 DEF Heads
    <2>2. CASE k = i
      <3>1. File(group[i])
        BY <1>1, <1>2 DEF Files
      <3>2. PICK t : t = Tail(group[i])
        OBVIOUS
      <3>3. File(t) /\ t # <<>> /\ \A j \in 1..Len(t) : Head(group[i]).id < t[j].id
        BY <1>1, <1>3, <2>1, <2>2, <3>1, <3>2, FileTail
      <3>4. t \in Seq(EntrySet)
        BY <3>3 DEF File
      <3>5. 1 \in 1..Len(t) /\ Head(t) = t[1] /\ t[1] \in EntrySet
        BY <3>3, <3>4
      <3>6. Head(group[i]).id \in Nat /\ t[1].id \in Nat
        BY <1>1, <3>5, EntryIs
      <3>7. Head(group[i]).id < t[1].id
        BY <3>3, <3>5
      <3>8. Head(group'[k]) = t[1]
        BY <1>3, <2>2, <3>2, <3>5
      <3>9. Head(group[i]).id <= t[1].id
        BY <3>6, <3>7
      <3> QED BY <3>8, <3>9
    <2>3. CASE k # i
      <3>1. group'[k] = group[k]
        BY <1>3, <2>1, <2>3
      <3>2. k \in Heads
        BY <1>4, <2>1, <3>1 DEF Heads
      <3> QED BY <1>1, <3>1, <3>2
    <2> QED BY <2>2, <2>3
  <1> QED BY <1>3, <1>5

\* A turn of the merge loop: an entry that occurs again is the one held, an entry
\* that does not comes after it.
LEMMA MergePopKeeps ==
    ASSUME OrderInv, MergePop
    PROVE  OrderInv'
  <1>1. PICK i \in Heads :
           /\ LeastCursor(i)
           /\ IF /\ previous # NoEntry /\ previous.id = Head(group[i]).id
                 /\ Conflict(previous, Head(group[i]))
              THEN phase' = "conflict" /\ UNCHANGED <<group, previous, out>>
              ELSE /\ group' = [group EXCEPT ![i] = Tail(@)]
                   /\ previous' = IF previous # NoEntry /\ previous.id = Head(group[i]).id
                                  THEN previous ELSE Head(group[i])
                   /\ out' = IF previous # NoEntry
                               /\ ~(previous # NoEntry /\ previous.id = Head(group[i]).id)
                             THEN Append(out, previous) ELSE out
                   /\ UNCHANGED phase
    BY DEF MergePop
  <1>2. /\ UNCHANGED <<records, unscanned, ordered, runs, merged, batches>> /\ phase = "merge"
        /\ OrderTypes /\ MergeOrder
    BY DEF MergePop, OrderInv
  <1>3. PICK entry : entry = Head(group[i])
    OBVIOUS
  <1>4. /\ entry \in EntrySet /\ i \in 1..Len(group) /\ group[i] # <<>>
        /\ \A k \in Heads : entry.id <= Head(group[k]).id
    BY <1>1, <1>2, <1>3, LeastIs
  <1>5. In(entry, group[i])
    <2>1. group[i] \in Seq(EntrySet)
      BY <1>2, <1>4 DEF OrderTypes, Files
    <2> QED BY <1>3, <1>4, <2>1, InTail
  <1>6. entry \in Inputs /\ (previous # NoEntry => previous \in Inputs)
    BY <1>4, <1>5, HeldIsInput DEF Held, InSome
  <1>7. previous # NoEntry => previous \in EntrySet /\ previous.id <= entry.id
    BY <1>2, <1>3 DEF MergeOrder, OrderTypes
  <1>8. CASE previous # NoEntry /\ previous.id = entry.id /\ Conflict(previous, entry)
    <2>1. phase' = "conflict" /\ UNCHANGED <<group, previous, out>>
      BY <1>1, <1>3, <1>8
    <2>2. OrderTypes' /\ NothingLost'
      BY <1>2, <2>1, PhaseKeeps
    <2>3. Inputs' = Inputs
      BY <1>2 DEF Inputs
    <2>4. Conflicting'
      BY <1>6, <1>8, <2>3 DEF Conflicting
    <2> QED BY <2>1, <2>2, <2>4 DEF OrderInv, PlacesOfPhase, MergeOrder, ReadsPrefix
  <1>9. CASE ~(previous # NoEntry /\ previous.id = entry.id /\ Conflict(previous, entry))
    <2>1. /\ group' = [group EXCEPT ![i] = Tail(@)] /\ phase' = phase
          /\ previous' = IF previous # NoEntry /\ previous.id = entry.id THEN previous ELSE entry
          /\ out' = IF previous # NoEntry /\ previous.id # entry.id THEN Append(out, previous) ELSE out
      BY <1>1, <1>3, <1>9
    <2>2. /\ Files(group') /\ \A k \in Heads' : entry.id <= Head(group'[k]).id
          /\ \A e : InSome(e, group) <=> InSome(e, group') \/ e = entry
      BY <1>1, <1>2, <1>3, <2>1, HeadsAdvance
    <2>3. File(out) /\ out \in Seq(EntrySet) /\ entry # NoEntry /\ entry.id \in Nat
      BY <1>2, <1>4, EntryIsThere, EntryIs DEF OrderTypes, File
    <2>4. ASSUME File(out'), MergeOrder', previous' \in EntrySet,
                 \A e : In(e, out') \/ e = previous' \/ InSome(e, group') <=>
                         In(e, out) \/ (previous # NoEntry /\ e = previous) \/ InSome(e, group)
          PROVE  OrderInv'
      <3>1. OrderTypes'
        BY <1>2, <2>2, <2>4 DEF OrderTypes
      <3>2. previous' # NoEntry
        BY <2>4, EntryIsThere
      <3>3. \A e : Held(e)' <=> Held(e)
        BY <1>2, <2>4, <3>2 DEF Held
      <3>4. NothingLost'
        BY <1>2, <3>3, KeepsHeld
      <3> QED BY <1>2, <2>1, <2>4, <3>1, <3>4 DEF OrderInv, PlacesOfPhase, ReadsPrefix
    <2>5. CASE previous = NoEntry
      <3>1. previous' = entry /\ out' = out /\ out = <<>>
        BY <1>2, <2>1, <2>5 DEF MergeOrder
      <3>2. MergeOrder'
        BY <2>2, <2>3, <3>1 DEF MergeOrder
      <3> QED BY <1>4, <2>2, <2>3, <2>4, <2>5, <3>1, <3>2
    <2>6. CASE previous # NoEntry /\ previous.id = entry.id
      <3>1. previous' = previous /\ out' = out
        BY <2>1, <2>6
      <3>2. previous = entry
        BY <1>4, <1>7, <1>9, <2>6, EntryIs DEF Conflict
      <3>3. \A j \in 1..Len(out) : out[j].id < previous.id
        BY <1>2, <2>6 DEF MergeOrder
      <3>4. MergeOrder'
        BY <2>2, <2>6, <3>1, <3>2, <3>3 DEF MergeOrder
      <3> QED BY <1>4, <2>2, <2>3, <2>4, <2>6, <3>1, <3>2, <3>4
    <2>7. CASE previous # NoEntry /\ previous.id # entry.id
      <3>1. previous' = entry /\ out' = Append(out, previous)
        BY <2>1, <2>7
      <3>2. previous.id < entry.id /\ previous.id \in Nat
        BY <1>7, <2>3, <2>7, EntryIs
      <3>3. \A j \in 1..Len(out) : out[j].id < previous.id
        BY <1>2, <2>7 DEF MergeOrder
      <3>4. File(out')
        BY <1>7, <2>3, <2>7, <3>1, <3>3, FileAppend
      <3>5. \A e : In(e, out') <=> In(e, out) \/ e = previous
        BY <1>7, <2>3, <2>7, <3>1, InAppend
      <3>6. ASSUME NEW j \in 1..Len(out') PROVE out'[j].id < entry.id
        <4>1. (j \in 1..Len(out) /\ out'[j] = out[j]) \/ out'[j] = previous
          BY <1>7, <2>3, <2>7, <3>1
        <4>2. CASE j \in 1..Len(out) /\ out'[j] = out[j]
          <5>1. out[j] \in EntrySet /\ out[j].id < previous.id
            BY <2>3, <3>3, <4>2
          <5>2. out[j].id \in Nat
            BY <5>1, EntryIs
          <5> QED BY <2>3, <3>2, <4>2, <5>1, <5>2
        <4> QED BY <3>2, <4>1, <4>2
      <3>7. MergeOrder'
        BY <2>2, <2>3, <3>1, <3>6 DEF MergeOrder
      <3> QED BY <1>4, <2>2, <2>4, <2>7, <3>1, <3>4, <3>5, <3>7
    <2> QED BY <2>5, <2>6, <2>7
  <1> QED BY <1>8, <1>9

\* A group that is drained has become a file.
LEMMA MergeGroupEndsKeeps ==
    ASSUME OrderInv, MergeGroupEnds
    PROVE  OrderInv'
  <1>1. /\ phase = "merge" /\ Heads = {} /\ phase' = "pass"
        /\ group' = <<>> /\ previous' = NoEntry /\ out' = <<>>
        /\ merged' = Append(merged, IF previous = NoEntry THEN out ELSE Append(out, previous))
        /\ UNCHANGED <<records, unscanned, ordered, runs, batches>>
        /\ Files(merged) /\ Files(group) /\ File(out) /\ OrderTypes /\ MergeOrder
    BY DEF MergeGroupEnds, OrderInv, OrderTypes
  <1>2. PICK file : file = IF previous = NoEntry THEN out ELSE Append(out, previous)
    OBVIOUS
  <1>3. File(file) /\ \A e : In(e, file) <=> In(e, out) \/ (previous # NoEntry /\ e = previous)
    <2>1. CASE previous = NoEntry
      BY <1>1, <1>2, <2>1
    <2>2. CASE previous # NoEntry
      <3>1. previous \in EntrySet /\ \A j \in 1..Len(out) : out[j].id < previous.id
        BY <1>1, <2>2 DEF MergeOrder, OrderTypes
      <3>2. out \in Seq(EntrySet) /\ file = Append(out, previous)
        BY <1>1, <1>2, <2>2 DEF File
      <3>3. File(file)
        BY <1>1, <3>1, <3>2, FileAppend
      <3>4. \A e : In(e, file) <=> In(e, out) \/ e = previous
        BY <3>1, <3>2, InAppend
      <3> QED BY <2>2, <3>3, <3>4
    <2> QED BY <2>1, <2>2
  <1>4. \A e : ~InSome(e, group)
    <2> SUFFICES ASSUME NEW e, NEW k \in 1..Len(group), In(e, group[k]) PROVE FALSE
      BY DEF InSome
    <2>1. k \in DOMAIN group
      BY <1>1 DEF Files
    <2>2. group[k] = <<>>
      BY <1>1, <2>1 DEF Heads
    <2> QED BY <2>2, EmptyHolds
  <1>5. Files(merged') /\ \A e : InSome(e, merged') <=> InSome(e, merged) \/ In(e, file)
    BY <1>1, <1>2, <1>3, FilesAppend
  <1>6. OrderTypes'
    BY <1>1, <1>5, EmptyFiles DEF OrderTypes
  <1>7. \A e : Held(e)' <=> Held(e)
    BY <1>1, <1>3, <1>4, <1>5, EmptyHolds DEF Held
  <1>8. NothingLost'
    BY <1>1, <1>7, KeepsHeld
  <1> QED BY <1>1, <1>6, <1>8 DEF OrderInv, PlacesOfPhase, MergeOrder, ReadsPrefix

\* A prefix and what follows it.
LEMMA PrefixGrows ==
    ASSUME NEW X, NEW f \in Seq(X), NEW m \in 0..Len(f), NEW n \in 0..(Len(f) - m)
    PROVE  /\ SubSeq(f, 1, m) \o SubSeq(SubSeq(f, m + 1, Len(f)), 1, n) = SubSeq(f, 1, m + n)
           /\ SubSeq(SubSeq(f, m + 1, Len(f)), 1, n) \in Seq(X)
           /\ Len(SubSeq(f, 1, m + n)) = m + n
  <1>1. Len(f) \in Nat /\ m \in Nat /\ n \in Nat /\ m + n <= Len(f)
    OBVIOUS
  <1>2. PICK a : a = SubSeq(f, 1, m)
    OBVIOUS
  <1>3. a \in Seq(X) /\ Len(a) = m /\ \A i \in 1..m : a[i] = f[i]
    BY <1>1, <1>2
  <1>4. PICK r : r = SubSeq(f, m + 1, Len(f))
    OBVIOUS
  <1>5. r \in Seq(X) /\ Len(r) = Len(f) - m /\ \A i \in 1..(Len(f) - m) : r[i] = f[m + i]
    <2>1. Len(r) = Len(f) - m
      BY <1>1, <1>4
    <2> QED BY <1>1, <1>4, <2>1
  <1>6. PICK b : b = SubSeq(r, 1, n)
    OBVIOUS
  <1>7. b \in Seq(X) /\ Len(b) = n /\ \A i \in 1..n : b[i] = f[m + i]
    <2>1. b \in Seq(X) /\ Len(b) = n /\ \A i \in 1..n : b[i] = r[i]
      BY <1>1, <1>5, <1>6
    <2>2. \A i \in 1..n : i \in 1..(Len(f) - m)
      BY <1>1
    <2> QED BY <1>5, <2>1, <2>2
  <1>8. PICK c : c = SubSeq(f, 1, m + n)
    OBVIOUS
  <1>9. c \in Seq(X) /\ Len(c) = m + n /\ \A i \in 1..(m + n) : c[i] = f[i]
    BY <1>1, <1>8
  <1>10. a \o b \in Seq(X) /\ Len(a \o b) = m + n
    <2>1. a \in Seq(X) /\ b \in Seq(X) /\ Len(a) = m /\ Len(b) = n
      BY <1>3, <1>7
    <2> QED BY <2>1
  <1>11. ASSUME NEW i \in 1..(m + n) PROVE (a \o b)[i] = c[i]
    <2>1. CASE i <= m
      BY <1>1, <1>3, <1>7, <1>9, <2>1
    <2>2. CASE ~(i <= m)
      <3>1. i - m \in 1..n /\ m + (i - m) = i
        BY <1>1, <2>2
      <3>2. (a \o b)[i] = b[i - m]
        <4>1. a \in Seq(X) /\ b \in Seq(X) /\ Len(a) = m /\ Len(b) = n /\ i \in 1..(m + n)
          BY <1>3, <1>7
        <4>2. i \in 1..(Len(a) + Len(b)) /\ ~(i <= Len(a))
          BY <2>2, <4>1
        <4>3. (a \o b)[i] = b[i - Len(a)]
          BY <4>1, <4>2
        <4> QED BY <4>1, <4>3
      <3> QED BY <1>7, <1>9, <3>1, <3>2
    <2> QED BY <2>1, <2>2
  <1>12. a \o b = c
    BY <1>9, <1>10, <1>11, SeqEqual
  <1> QED BY <1>2, <1>4, <1>6, <1>7, <1>8, <1>9, <1>12

\* The reader goes on where it stopped, and is done when the file is.
LEMMA ReadKeeps ==
    ASSUME OrderInv, ReadNextEntries
    PROVE  OrderInv'
  <1>1. PICK m : m = Len(ReadSoFar)
    OBVIOUS
  <1>2. PICK rest : rest = SubSeq(Merged, m + 1, Len(Merged))
    OBVIOUS
  <1>3. PICK n : n = IF Len(rest) < BatchSize THEN Len(rest) ELSE BatchSize
    OBVIOUS
  <1>4. /\ IF n = 0 THEN phase' = "done" /\ UNCHANGED batches
           ELSE batches' = Append(batches, SubSeq(rest, 1, n)) /\ UNCHANGED phase
        /\ UNCHANGED <<records, unscanned, ordered, runs, merged, group, previous, out>>
        /\ phase = "read"
    BY <1>1, <1>2, <1>3 DEF ReadNextEntries
  <1>5. /\ Len(merged) = 1 /\ Files(merged) /\ batches \in Seq(Seq(EntrySet))
        /\ Merged \in Seq(EntrySet) /\ Merged' = Merged
    <2>1. Len(merged) = 1 /\ Files(merged) /\ batches \in Seq(Seq(EntrySet))
      BY <1>4 DEF OrderInv, PlacesOfPhase, OrderTypes
    <2> QED BY <1>4, <2>1 DEF Merged, Files
  <1>6. ReadSoFar \in Seq(EntrySet)
    BY <1>5, FlattenAppend, EmptySeq DEF ReadSoFar
  <1>7. m \in 0..Len(Merged) /\ ReadSoFar = SubSeq(Merged, 1, m)
    <2>1. m \in Nat
      BY <1>1, <1>6
    <2> QED BY <1>1, <1>4, <1>5, <2>1 DEF OrderInv, ReadsPrefix
  <1>8. Len(rest) = Len(Merged) - m /\ Len(rest) \in Nat
    BY <1>2, <1>5, <1>7
  <1>9. n \in 0..(Len(Merged) - m) /\ (n = 0 => m = Len(Merged))
    BY <1>3, <1>5, <1>7, <1>8, ReplayOrderAssumption
  <1>10. \A e : Held(e)' <=> Held(e)
    BY <1>4 DEF Held
  <1>11. NothingLost'
    BY <1>4, <1>10, KeepsHeld
  <1>12. CASE n = 0
    <2>1. phase' = "done" /\ batches' = batches
      BY <1>4, <1>12
    <2>2. ReadSoFar' = ReadSoFar
      BY <2>1 DEF ReadSoFar
    <2>3. ReadsPrefix'
      BY <1>1, <1>5, <1>7, <1>9, <1>12, <2>2 DEF ReadsPrefix
    <2>4. OrderTypes'
      BY <1>4, <2>1 DEF OrderInv, OrderTypes
    <2> QED BY <1>4, <1>11, <2>1, <2>3, <2>4 DEF OrderInv, PlacesOfPhase, MergeOrder
  <1>13. CASE n # 0
    <2>1. phase' = phase /\ batches' = Append(batches, SubSeq(rest, 1, n))
      BY <1>4, <1>13
    <2>2. /\ SubSeq(Merged, 1, m) \o SubSeq(rest, 1, n) = SubSeq(Merged, 1, m + n)
          /\ SubSeq(rest, 1, n) \in Seq(EntrySet) /\ Len(SubSeq(Merged, 1, m + n)) = m + n
      BY <1>2, <1>5, <1>7, <1>9, PrefixGrows
    <2>3. ReadSoFar' = ReadSoFar \o SubSeq(rest, 1, n)
      BY <1>5, <2>1, <2>2, FlattenAppend DEF ReadSoFar
    <2>4. ReadSoFar' = SubSeq(Merged, 1, m + n) /\ Len(ReadSoFar') = m + n
      BY <1>7, <2>2, <2>3
    <2>5. m + n <= Len(Merged)
      BY <1>5, <1>7, <1>9
    <2>6. ReadsPrefix'
      BY <1>4, <1>5, <2>1, <2>4, <2>5 DEF ReadsPrefix
    <2>7. batches' \in Seq(Seq(EntrySet))
      BY <1>5, <2>1, <2>2
    <2>8. OrderTypes'
      BY <1>4, <2>7 DEF OrderInv, OrderTypes
    <2> QED BY <1>4, <1>11, <2>1, <2>6, <2>8 DEF OrderInv, PlacesOfPhase, MergeOrder
  <1> QED BY <1>12, <1>13

\* When one file is left, it has the inputs and nothing else, and two entries of
\* one block cannot both be in it.
LEMMA MergedIsInputs ==
    ASSUME OrderInv, phase \in {"read", "done"}
    PROVE  File(Merged) /\ (\A e : In(e, Merged) <=> e \in Inputs) /\ ~Conflicting
  <1>1. /\ Files(merged) /\ Len(merged) = 1 /\ unscanned = <<>> /\ ordered = <<>> /\ runs = <<>>
        /\ group = <<>> /\ out = <<>> /\ previous = NoEntry
    BY DEF OrderInv, OrderTypes, PlacesOfPhase
  <1>2. File(Merged)
    BY <1>1 DEF Merged, Files
  <1>3. \A e : InSome(e, merged) <=> In(e, Merged)
    BY <1>1 DEF InSome, Merged
  <1>4. \A e : In(e, Merged) <=> e \in Inputs
    BY <1>1, <1>3, EmptyHolds DEF OrderInv, NothingLost, Held
  <1>5. ASSUME NEW a \in Inputs, NEW b \in Inputs, Conflict(a, b) PROVE FALSE
    <2>1. PICK i \in 1..Len(Merged) : Merged[i] = a
      BY <1>4 DEF In
    <2>2. PICK j \in 1..Len(Merged) : Merged[j] = b
      BY <1>4 DEF In
    <2>3. i # j /\ a.id = b.id
      BY <1>5, <2>1, <2>2 DEF Conflict
    <2>4. Merged \in Seq(EntrySet) /\ a \in EntrySet /\ b \in EntrySet
      BY <1>2, <2>1, <2>2 DEF File
    <2>5. a.id \in Nat /\ b.id \in Nat
      BY <2>4, EntryIs
    <2>6. i < j \/ j < i
      BY <2>3, <2>4
    <2>7. a.id < b.id \/ b.id < a.id
      BY <1>2, <2>1, <2>2, <2>6 DEF File
    <2> QED BY <2>3, <2>5, <2>7
  <1> QED BY <1>2, <1>4, <1>5 DEF Conflicting

\* The invariant says what the properties say.
LEMMA OrderInvSound ==
    ASSUME OrderInv
    PROVE  ReplayOrderSound
  <1>1. ASSUME NEW f, File(f) PROVE \A i \in 1..(Len(f) - 1) : f[i].id < f[i + 1].id
    BY <1>1 DEF File
  <1>2. ASSUME NEW fs, Files(fs), NEW f \in ToSet(fs) PROVE File(f)
    <2>1. DOMAIN fs = 1..Len(fs)
      BY <1>2 DEF Files
    <2> QED BY <1>2, <2>1 DEF Files, ToSet
  <1>3. FilesStrictlyOrdered
    <2> SUFFICES ASSUME NEW f \in ToSet(runs) \cup ToSet(merged) \cup ToSet(group) \cup {out}
                 PROVE  File(f)
      BY <1>1 DEF FilesStrictlyOrdered
    <2>1. Files(runs) /\ Files(merged) /\ Files(group) /\ File(out)
      BY DEF OrderInv, OrderTypes
    <2> QED BY <1>2, <2>1
  <1>4. EveryInputOnceInOrder
    <2> SUFFICES ASSUME phase = "done"
                 PROVE  /\ ToSet(ReadSoFar) = Inputs
                        /\ \A i \in 1..(Len(ReadSoFar) - 1) : ReadSoFar[i].id < ReadSoFar[i + 1].id
      BY DEF EveryInputOnceInOrder
    <2>1. File(Merged) /\ \A e : In(e, Merged) <=> e \in Inputs
      BY MergedIsInputs
    <2>2. ReadSoFar = SubSeq(Merged, 1, Len(Merged))
      BY DEF OrderInv, ReadsPrefix
    <2>3. Merged \in Seq(EntrySet)
      BY <2>1 DEF File
    <2>4. ReadSoFar = Merged
      BY <2>2, <2>3
    <2>5. ToSet(Merged) = Inputs
      <3>1. DOMAIN Merged = 1..Len(Merged)
        BY <2>3
      <3>2. \A e : e \in ToSet(Merged) <=> In(e, Merged)
        BY <3>1 DEF ToSet, In
      <3> QED BY <2>1, <3>2
    <2> QED BY <1>1, <2>1, <2>4, <2>5
  <1>5. ConflictsFound
    BY MergedIsInputs DEF ConflictsFound, OrderInv
  <1> QED BY <1>3, <1>4, <1>5 DEF ReplayOrderSound

\* ReplayOrderSound for every journal, every length of a run, every fan-in of a merge
\* and every batch size, whatever files fail: the runs and merged files are strictly
\* ordered by block id, the replay reads every input of the journal exactly once and
\* in order, and the sort ends in a conflict only if the journal has one and never
\* hands out a file if it has (flush_sorted_replay_order_run,
\* merge_sorted_replay_order_run_group, ReplayOrderReader::read_next_entries).
THEOREM ReplayOrderSafe == OrderSpec => []ReplayOrderSound
  <1>1. OrderInit => OrderInv
    BY OrderInitInv
  <1>2. OrderInv /\ [OrderNext]_orderVars => OrderInv'
    <2> SUFFICES ASSUME OrderInv, [OrderNext]_orderVars PROVE OrderInv'
      OBVIOUS
    <2>1. CASE UNCHANGED orderVars
      <3>1. OrderTypes' /\ NothingLost' /\ phase' = phase
        BY <2>1, PhaseKeeps DEF orderVars
      <3>2. Heads' = Heads /\ Merged' = Merged /\ ReadSoFar' = ReadSoFar /\ Inputs' = Inputs
        BY <2>1 DEF orderVars, Heads, Merged, ReadSoFar, Inputs
      <3>3. PlacesOfPhase'
        BY <2>1 DEF orderVars, OrderInv, PlacesOfPhase
      <3>4. MergeOrder' /\ ReadsPrefix'
        BY <2>1, <3>2 DEF orderVars, OrderInv, MergeOrder, ReadsPrefix
      <3>5. phase' = "conflict" => Conflicting'
        BY <3>1, <3>2 DEF OrderInv, Conflicting
      <3> QED BY <3>1, <3>3, <3>4, <3>5 DEF OrderInv
    <2> QED
      BY <2>1, ScanKeeps, FlushKeeps, ScanEndsKeeps, MergeGroupKeeps, NextPassKeeps, MergeEndsKeeps,
         MergePopKeeps, MergeGroupEndsKeeps, ReadKeeps
      DEF OrderNext
  <1>3. OrderInv => ReplayOrderSound
    BY OrderInvSound
  <1> QED BY <1>1, <1>2, <1>3, PTL DEF OrderSpec
=============================================================================
