--------------------------- MODULE StreamingStage ---------------------------
(***************************************************************************)
(* The clustering stage of an indexer run as a task that waits for the     *)
(* delegated indexer while the operator may press Ctrl-C (runtime.rs,      *)
(* run_streaming_stage_externalized_legacy and _v3, the two awaiting       *)
(* helpers, make_status_observer; interrupt.rs; the Run command of         *)
(* main.rs).                                                               *)
(*                                                                         *)
(* The delegated indexer is external.  An operation of it runs beside the  *)
(* task, reports statuses, and ends well, with an error, or cancelled once *)
(* its cancellation handle was used.  The v3 finalize runs on a thread of  *)
(* the blocking pool, which goes on if nobody waits for it; everything     *)
(* else runs inside the task and is gone when the task drops it.           *)
(*                                                                         *)
(* The flag is polled by a timer while the task waits, so an operation     *)
(* that ends at that moment may still be the first thing seen.             *)
(***************************************************************************)
EXTENDS Naturals, Sequences

CONSTANTS
    Batches,        \* replay batches to ingest
    MaxStatuses,    \* bound: failed statuses reported
    MaxItems        \* bound: item counts a status reports

ASSUME StreamingStageAssumption ==
    Batches \in Nat /\ MaxStatuses \in Nat /\ MaxItems \in Nat \ {0}

VARIABLES
    variant,    \* which streaming indexer the profile selects
    place,         \* where the task is
    batch,      \* batches ingested
    ctrlC,      \* INTERRUPT_SIGNAL_COUNT
    cancelled,  \* the run's StreamingIndexingCancellationHandle
    op,         \* the delegated operation: none, running or how it ended
    seen,       \* the await in progress has seen the flag
    latest,     \* latest_failed_status
    outcome,    \* the indexing outcome is in the replay journal
    refs,       \* the mutable refs name the new root
    earlyC,     \* Ctrl-C came before the finalization ended
    failures,   \* the failed statuses so far, in order
    diagnostics,\* the failed status in the diagnostics file, if one was written
    summary,    \* the summary file and the rendered summary exist
    result      \* how the command ended

stageVars == <<variant, place, batch, ctrlC, cancelled, op, seen, latest, outcome, refs,
               earlyC, failures, diagnostics, summary, result>>
indexerVars == <<op, latest, failures>>
outputVars == <<outcome, refs, diagnostics, summary>>

NoStatus == [specificity |-> 0, items |-> 0, done |-> 0]
\* failed_status_specificity: planning pass, final replay, everything finer.
Statuses == [specificity : 0..2, items : 1..MaxItems, done : 0..1]
Ends == {"ok", "empty", "error", "cancelled", "panic"}

Requested == ctrlC > 0

StageStart(indexer) ==
    /\ variant = indexer
    /\ place = "loop" /\ batch = 0
    /\ ctrlC = 0 /\ cancelled = FALSE /\ seen = FALSE
    /\ op = "none"
    /\ latest = NoStatus /\ failures = <<>>
    /\ outcome = FALSE /\ refs = FALSE
    /\ earlyC = FALSE
    /\ diagnostics = NoStatus /\ summary = FALSE
    /\ result = "none"

StageInit == \E indexer \in {"legacy", "v3"} : StageStart(indexer)

Finish(how) == place' = "ended" /\ result' = how

----------------------------------------------------------------------------
(* The operator.                                                            *)

\* next_interrupt_action: the first signal raises the flag, the second ends the
\* process with everything in it.
CtrlC ==
    /\ place # "ended" /\ ctrlC < 2
    /\ ctrlC' = ctrlC + 1
    /\ earlyC' = (earlyC \/ place \in {"loop", "ingesting", "planning", "finalizing"})
    /\ IF ctrlC = 0
       THEN UNCHANGED <<place, op, result>>
       ELSE Finish("killed") /\ op' = "none"
    /\ UNCHANGED <<variant, batch, cancelled, seen, latest, failures, outputVars>>

----------------------------------------------------------------------------
(* The delegated indexer.                                                   *)

\* prefer_failed_status.
PreferFailedStatus(candidate, existing) ==
    \/ candidate.specificity > existing.specificity
    \/ candidate.specificity = existing.specificity /\ candidate.items <= existing.items

\* The status observer, called with a failed status from the operation's thread.
ReportFailed(status) ==
    /\ op = "running" /\ Len(failures) < MaxStatuses
    /\ failures' = Append(failures, status)
    /\ latest' = IF latest # NoStatus /\ ~PreferFailedStatus(status, latest) THEN latest ELSE status
    /\ UNCHANGED <<variant, place, batch, ctrlC, cancelled, op, seen, earlyC, outputVars, result>>

\* The operation ends; only v3 knows the handle, and only its finalize is joined.
OperationEnds ==
    /\ op = "running"
    /\ \E how \in Ends :
        /\ how = "cancelled" => cancelled
        /\ how = "panic" => variant = "v3" /\ place = "finalizing"
        /\ how = "empty" => place = "finalizing"
        /\ op' = how
    /\ UNCHANGED <<variant, place, batch, ctrlC, cancelled, seen, latest, failures, earlyC, outputVars, result>>

----------------------------------------------------------------------------
(* The task.                                                                *)

\* An operation is started and awaited.
Start(where) == place' = where /\ op' = "running" /\ seen' = FALSE /\ UNCHANGED result

\* The head of the batch loop.  v3 checks the flag before it reads the order,
\* legacy after it got a batch, so not at the end of the order.
BatchLoop ==
    /\ place = "loop"
    /\ IF Requested /\ (variant = "v3" \/ batch < Batches)
       THEN Finish("interrupted") /\ UNCHANGED <<op, seen>>
       ELSE IF batch < Batches
       THEN Start("ingesting")
       ELSE place' = "planning" /\ UNCHANGED <<op, seen, result>>
    /\ UNCHANGED <<variant, batch, ctrlC, cancelled, latest, failures, earlyC, outputVars>>

\* build_externalized_clustering_failure_diagnostics and
\* persist_clustering_failure_diagnostics: there may be too many inputs for
\* diagnostics, and the file may not be written.
Fail ==
    \/ Finish("streaming_error") /\ UNCHANGED diagnostics
    \/ Finish("clustering_failure") /\ diagnostics' \in {latest, NoStatus}

\* Mutant: the wait returns at the interrupt, whoever it waited for.
AwaitReturns ==
    /\ place \in {"ingesting", "finalizing"} /\ Requested
    /\ place = "finalizing" => variant = "v3"
    /\ Finish("interrupted")
    /\ UNCHANGED <<op, cancelled, seen>>
    /\ UNCHANGED <<variant, batch, ctrlC, latest, failures, earlyC, outputVars>>

\* await_with_periodic_progress drops the operation with the interrupt;
\* await_with_periodic_progress_and_cancellation cancels it and waits on.  The
\* legacy finalize is awaited without either.
AwaitSeesInterrupt ==
    /\ place \in {"ingesting", "finalizing"} /\ Requested
    /\ \/ /\ variant = "legacy" /\ place = "ingesting"
          /\ op' = "none" /\ Finish("interrupted")
          /\ UNCHANGED <<cancelled, seen>>
       \/ /\ variant = "v3" /\ ~seen
          /\ cancelled' = TRUE /\ seen' = TRUE
          /\ UNCHANGED <<place, op, result>>
    /\ UNCHANGED <<variant, batch, ctrlC, latest, failures, earlyC, outputVars>>

\* The operation's arm of the select.
OperationSeen == op \in Ends

\* interrupt_aware_streaming_result on Interrupted(Ok(_)).
InterruptedOk == Finish("interrupted") /\ UNCHANGED <<batch, diagnostics>>

\* The batch was taken, or not.
IngestEnds ==
    /\ place = "ingesting" /\ OperationSeen
    /\ op' = "none"
    /\ CASE op = "ok" ->
                IF seen THEN InterruptedOk
                ELSE batch' = batch + 1 /\ place' = "loop" /\ UNCHANGED <<result, diagnostics>>
         [] op = "cancelled" -> Finish("interrupted") /\ UNCHANGED <<batch, diagnostics>>
         [] op = "error" ->
                /\ IF variant = "v3" THEN Fail
                   ELSE Finish("streaming_error") /\ UNCHANGED diagnostics
                /\ UNCHANGED batch
    /\ UNCHANGED <<variant, ctrlC, cancelled, seen, latest, failures, earlyC, outcome, refs, summary>>

\* finish_pass and mark_planning_complete between two checks (legacy), the check
\* before the hand-over (v3).  The legacy planning runs inside the task.
Planning ==
    /\ place = "planning"
    /\ IF Requested
       THEN Finish("interrupted") /\ UNCHANGED <<op, seen, diagnostics>>
       ELSE \/ Start("finalizing") /\ UNCHANGED diagnostics
            \/ variant = "legacy" /\ Fail /\ UNCHANGED <<op, seen>>
    /\ UNCHANGED <<variant, batch, ctrlC, cancelled, latest, failures, earlyC, outcome, refs, summary>>

\* The finalization is over.  v3 looks at the join first, then at the flag, then
\* at what the indexer says; legacy at the error only.
FinalizeEnds ==
    /\ place = "finalizing" /\ OperationSeen
    /\ op' = "none"
    /\ IF op = "panic" THEN Finish("join_error") /\ UNCHANGED diagnostics
       ELSE IF variant = "v3" /\ (Requested \/ op = "cancelled") THEN Finish("interrupted") /\ UNCHANGED diagnostics
       ELSE IF op = "error" THEN Fail
       ELSE IF op = "empty" THEN Finish("empty_output") /\ UNCHANGED diagnostics
       ELSE place' = "publishing" /\ UNCHANGED <<result, diagnostics>>
    /\ UNCHANGED <<variant, batch, ctrlC, cancelled, seen, latest, failures, earlyC, outcome, refs, summary>>

\* publish_replay_journal_and_mutable_refs_async, up to its second check.
AppendOutcome ==
    /\ place = "publishing"
    /\ \/ Requested /\ Finish("interrupted") /\ UNCHANGED outcome
       \/ ~Requested /\ outcome' = TRUE /\ place' = "appended" /\ UNCHANGED result
       \/ ~Requested /\ Finish("publish_error") /\ outcome' \in {outcome, TRUE}
    /\ UNCHANGED <<variant, batch, ctrlC, cancelled, op, seen, latest, failures, earlyC, refs, diagnostics, summary>>

\* The second check: the write itself is a task of its own.
CheckBeforeRefs ==
    /\ place = "appended"
    /\ IF Requested THEN Finish("interrupted") ELSE place' = "writing_refs" /\ UNCHANGED result
    /\ UNCHANGED <<variant, batch, ctrlC, cancelled, op, seen, latest, failures, earlyC, outputVars>>

\* update_mutable_ref_store_async.
UpdateRefs ==
    /\ place = "writing_refs"
    /\ \/ refs' = TRUE /\ place' = "published" /\ UNCHANGED result
       \/ Finish("publish_error") /\ UNCHANGED refs
    /\ UNCHANGED <<variant, batch, ctrlC, cancelled, op, seen, latest, failures, earlyC, outcome, diagnostics, summary>>

\* The Run command: the flag once more, then the summary.
Summarize ==
    /\ place = "published"
    /\ IF Requested THEN Finish("interrupted") /\ UNCHANGED summary
       ELSE \/ Finish("ok") /\ summary' = TRUE
            \/ Finish("summary_error") /\ UNCHANGED summary
    /\ UNCHANGED <<variant, batch, ctrlC, cancelled, op, seen, latest, failures, earlyC, outcome, refs, diagnostics>>

StageTaskStep ==
    \/ BatchLoop \/ AwaitSeesInterrupt \/ IngestEnds \/ Planning \/ FinalizeEnds
    \/ AppendOutcome \/ CheckBeforeRefs \/ UpdateRefs \/ Summarize

IndexerStep == OperationEnds \/ \E status \in Statuses : ReportFailed(status)

StageNext == CtrlC \/ StageTaskStep \/ IndexerStep

\* The executor runs the task, and an operation of the indexer comes to an end.
StageSpec ==
    /\ StageInit /\ [][StageNext]_stageVars
    /\ WF_stageVars(StageTaskStep) /\ WF_stageVars(OperationEnds)

----------------------------------------------------------------------------
(* Properties.                                                              *)

\* When the command returns no delegated operation is still at work on the block
\* store: the v3 finalize thread is waited for, also after an interrupt.
NoWorkLeftBehind == result # "none" => op # "running"

\* A Ctrl-C that came before the tree was built keeps it from being published
\* and from being reported, in either variant and however late it is noticed.
EarlyInterruptPublishesNothing == earlyC => ~refs /\ ~outcome /\ ~summary

\* The failed status a diagnostics file names is the most specific one there
\* was, the smallest of those, and the last of those.
MostSpecificFailureKept ==
    failures # <<>> =>
        LET asGood(i, j) == \/ failures[i].specificity > failures[j].specificity
                            \/ /\ failures[i].specificity = failures[j].specificity
                               /\ failures[i].items <= failures[j].items
        IN \E i \in DOMAIN failures :
            /\ failures[i] = latest
            /\ \A j \in DOMAIN failures : asGood(i, j) /\ (j > i => ~asGood(j, i))

\* However Ctrl-C and the delegated operation race, the command leaves nothing
\* running behind it, publishes nothing that was interrupted in time, and keeps
\* the most telling failure of those reported from the operation's thread
\* (await_with_periodic_progress_and_cancellation, prefer_failed_status).
InterruptedStageSound ==
    NoWorkLeftBehind /\ EarlyInterruptPublishesNothing /\ MostSpecificFailureKept
=============================================================================
