---------------------------- MODULE CopyStopFlag ----------------------------
(***************************************************************************)
(* The state that the two queues of a multi-worker rooted block copy       *)
(* share: the thread sets and the stop_requested flag (an AtomicBool that  *)
(* only ever goes from false to true).                                     *)
(***************************************************************************)
EXTENDS Naturals, FiniteSets, BlockGraph

CONSTANTS
    Workers,    \* traversal threads (worker_thread_count of them)
    Writers     \* destination writer threads (writer_thread_count of them)

ASSUME ThreadsAssumption ==
    /\ IsFiniteSet(Workers) /\ Workers # {}
    /\ IsFiniteSet(Writers) /\ Writers # {}
    /\ Workers \cap Writers = {}

VARIABLE stop_requested

\* usize::saturating_sub
SaturatingSub(a, b) == IF b > a THEN 0 ELSE a - b

=============================================================================
