-------------------------- MODULE ThreadedWorkQueue --------------------------
(***************************************************************************)
(* ThreadedWorkQueue of block_copy.rs: the traversal work queue that the   *)
(* worker threads of a rooted block copy share.  Every method is one       *)
(* critical section under one mutex, so every method is one action; the    *)
(* condition variable is the explicit set work_waiting, which notify_all   *)
(* empties.                                                                *)
(*                                                                         *)
(* The queue also decides when the traversal is over: a worker that finds  *)
(* the queue empty while no other worker is active shuts the queue down.   *)
(*                                                                         *)
(* What a worker does with its item between pop and finish_item belongs to *)
(* ThreadedBlockCopy; here it is the step BusyStep, which may move the     *)
(* worker between the stages in which it holds an item.                    *)
(***************************************************************************)
EXTENDS CopyStopFlag

VARIABLES
    work_queue,         \* pairs <<request root, block>>
    active_workers,     \* workers counted as holding an item
    work_shutdown,
    work_waiting,       \* workers asleep in pop
    stage,              \* where each worker is in its loop
    item                \* the item a worker holds, or NoItem

workVars == <<work_queue, active_workers, work_shutdown, work_waiting, stage, item>>

Items  == Blocks \X Blocks
NoItem == <<>>

\* The stages between pop and the drop of the ThreadedWorkItemGuard.
HoldingStages == {"note_root", "visit", "read", "check_stop", "push_children",
                  "destination", "enqueue_write", "finish", "unwind_item"}
\* The stages of a worker that holds no item: in pop, ended, or past its guard
\* and calling request_threaded_shutdown after a panic.
FreeStages == {"pop", "unwind_work", "unwind_write", "done", "panicked"}

\* The stages of an item that is not being unwound.
BusyStages == HoldingStages \ {"unwind_item"}

Holders == {w \in Workers : stage[w] \in HoldingStages}

WorkQueueInit ==
    /\ stop_requested = FALSE
    /\ work_queue = [i \in 1..Len(RootIds) |-> <<RootIds[i], RootIds[i]>>]
    /\ active_workers = 0
    /\ work_shutdown = FALSE
    /\ work_waiting = {}
    /\ stage = [w \in Workers |-> "pop"]
    /\ item = [w \in Workers |-> NoItem]

NotifyWork == work_waiting' = {}

InPop(w) == stage[w] = "pop" /\ w \notin work_waiting

Moves(w, to) == stage' = [stage EXCEPT ![w] = to]

-----------------------------------------------------------------------------
\* pop, first test: shut down or stopped.
PopStopped(w) ==
    /\ InPop(w)
    /\ work_shutdown \/ stop_requested
    /\ work_shutdown' = TRUE
    /\ NotifyWork
    /\ Moves(w, "done")
    /\ UNCHANGED <<work_queue, active_workers, item, stop_requested>>

\* pop, second test: an item is available.
PopItem(w) ==
    /\ InPop(w)
    /\ ~work_shutdown /\ ~stop_requested
    /\ work_queue # <<>>
    /\ item' = [item EXCEPT ![w] = Head(work_queue)]
    /\ work_queue' = Tail(work_queue)
    /\ active_workers' = active_workers + 1
    /\ Moves(w, "note_root")
    /\ UNCHANGED <<work_shutdown, work_waiting, stop_requested>>

\* Mutant: workers that hold an item are ignored.
PopEmpty(w) ==
    /\ InPop(w)
    /\ ~work_shutdown /\ ~stop_requested
    /\ work_queue = <<>>
    /\ work_shutdown' = TRUE
    /\ NotifyWork
    /\ Moves(w, "done")
    /\ UNCHANGED <<work_queue, active_workers, item, stop_requested>>

\* pop, third test: nothing queued and nobody who could still queue anything.
PopExhausted(w) ==
    /\ InPop(w)
    /\ ~work_shutdown /\ ~stop_requested
    /\ work_queue = <<>> /\ active_workers = 0
    /\ work_shutdown' = TRUE
    /\ NotifyWork
    /\ Moves(w, "done")
    /\ UNCHANGED <<work_queue, active_workers, item, stop_requested>>

\* pop, otherwise: wait on the condition variable.
PopWaits(w) ==
    /\ InPop(w)
    /\ ~work_shutdown /\ ~stop_requested
    /\ work_queue = <<>> /\ active_workers # 0
    /\ work_waiting' = work_waiting \cup {w}
    /\ UNCHANGED <<work_queue, active_workers, work_shutdown, stage, item, stop_requested>>

Pop(w) == PopStopped(w) \/ PopItem(w) \/ PopExhausted(w) \/ PopWaits(w)

\* A condition variable may wake a waiter that nobody notified.
SpuriousPopWake(w) ==
    /\ w \in work_waiting
    /\ work_waiting' = work_waiting \ {w}
    /\ UNCHANGED <<work_queue, active_workers, work_shutdown, stage, item, stop_requested>>

\* enqueue_children under the lock: every child goes to the back of the queue
\* with the root of the item that discovered it, unless the queue is shut down.
\* (The unlocked read of stop_requested that precedes it is the caller's stage
\* "check_stop".)
EnqueueChildren(w, children) ==
    /\ stage[w] = "push_children"
    /\ IF work_shutdown \/ children = <<>>
       THEN UNCHANGED <<work_queue, work_waiting>>
       ELSE /\ work_queue' = work_queue \o
                  [i \in 1..Len(children) |-> <<item[w][1], children[i]>>]
            /\ NotifyWork
    /\ Moves(w, "destination")
    /\ UNCHANGED <<active_workers, work_shutdown, item, stop_requested>>

\* Mutant: workers that still hold an item are ignored.
TraversalOverWhenEmpty(active) == stop_requested \/ work_queue = <<>>

\* Shutdown rule of finish_item, after active_workers has been decremented.
TraversalOver(active) == stop_requested \/ (active = 0 /\ work_queue = <<>>)

\* Mutant: sleeping workers are not notified.
FinishItemSilently(w) ==
    /\ stage[w] = "finish"
    /\ active_workers' = SaturatingSub(active_workers, 1)
    /\ work_shutdown' = (work_shutdown \/ TraversalOver(active_workers'))
    /\ Moves(w, "pop")
    /\ item' = [item EXCEPT ![w] = NoItem]
    /\ UNCHANGED <<work_queue, work_waiting, stop_requested>>

\* finish_item, run by the drop of ThreadedWorkItemGuard.
FinishItem(w) ==
    /\ stage[w] = "finish"
    /\ active_workers' = SaturatingSub(active_workers, 1)
    /\ work_shutdown' = (work_shutdown \/ TraversalOver(active_workers'))
    /\ NotifyWork
    /\ Moves(w, "pop")
    /\ item' = [item EXCEPT ![w] = NoItem]
    /\ UNCHANGED <<work_queue, stop_requested>>

\* A panic while the item is held: the guard's drop stores stop_requested ...
WorkerPanic(w) ==
    /\ stage[w] \in {"read", "destination"}
    /\ stop_requested' = TRUE
    /\ Moves(w, "unwind_item")
    /\ UNCHANGED <<work_queue, active_workers, work_shutdown, work_waiting, item>>

\* ... then shuts the queue down and finishes the item ...
UnwindItem(w) ==
    /\ stage[w] = "unwind_item"
    /\ active_workers' = SaturatingSub(active_workers, 1)
    /\ work_shutdown' = TRUE
    /\ NotifyWork
    /\ Moves(w, "unwind_work")
    /\ item' = [item EXCEPT ![w] = NoItem]
    /\ UNCHANGED <<work_queue, stop_requested>>

\* ThreadedWorkQueue::request_shutdown; whoever calls it has stored
\* stop_requested before.
RequestWorkShutdown ==
    /\ stop_requested
    /\ work_shutdown' = TRUE
    /\ NotifyWork
    /\ UNCHANGED <<work_queue, active_workers, item, stop_requested>>

\* Steps of other parts that this component only sees as a worker moving
\* between stages, or as stop_requested being stored.
BusyStep(w) ==
    /\ \/ /\ stage[w] \in BusyStages
          /\ \E s \in BusyStages : Moves(w, s)
       \/ /\ stage[w] \in FreeStages \ {"pop"}
          /\ \E s \in FreeStages \ {"pop"} : Moves(w, s)
    /\ UNCHANGED <<work_queue, active_workers, work_shutdown, work_waiting, item, stop_requested>>

StopStored ==
    /\ stop_requested' = TRUE
    /\ UNCHANGED workVars

WorkQueueNext ==
    \/ \E w \in Workers :
          \/ Pop(w) \/ SpuriousPopWake(w)
          \/ stage[w] = "push_children" /\
             \E children \in {<<>>, Children[item[w][2]]} : EnqueueChildren(w, children)
          \/ FinishItem(w) \/ WorkerPanic(w) \/ UnwindItem(w)
          \/ BusyStep(w)
          \/ RequestWorkShutdown /\ stage[w] = "unwind_work" /\ Moves(w, "unwind_write")
    \/ RequestWorkShutdown /\ UNCHANGED stage
    \/ StopStored

WorkQueueSpec == WorkQueueInit /\ [][WorkQueueNext]_<<workVars, stop_requested>>

-----------------------------------------------------------------------------
WorkTypeOK ==
    /\ stop_requested \in BOOLEAN
    /\ work_queue \in Seq(Items)
    /\ active_workers \in Nat
    /\ work_shutdown \in BOOLEAN
    /\ work_waiting \subseteq Workers
    /\ stage \in [Workers -> HoldingStages \cup FreeStages]
    /\ item \in [Workers -> Items \cup {NoItem}]
    /\ \A w \in Holders : item[w] \in Items

\* active_workers is exactly the number of workers between pop and the drop of
\* their guard, whichever way (finish, early continue, panic) they leave.
ActiveCountsHolders == active_workers = Cardinality(Holders)

\* Without a stop request the traversal is declared over only when no item is
\* queued and no worker holds one that could still queue children.
NoEarlyShutdown ==
    work_shutdown /\ ~stop_requested => work_queue = <<>> /\ Holders = {}

\* A worker sleeps in pop only while another one holds an item, whose finish
\* will wake it.
SleepersHaveAWaker == work_waiting # {} => Holders # {}

=============================================================================
