-------------------------- MODULE PlanningTelemetry --------------------------
(***************************************************************************)
(* The planning telemetry of a clustering run (runtime.rs,                 *)
(* PlanningTelemetryContext and the functions it projects with): the       *)
(* verdict on a completed planning pass, the last known thing the indexer  *)
(* was blocked on, and the file of records beside the summary.             *)
(*                                                                         *)
(* Statuses come from the indexer's callback, pass reports from the task   *)
(* that drives it.  A record is projected under the lock of the diagnosis  *)
(* state and written under the lock of the sink.  The program has a v3 and *)
(* a non-v3 family, and each records one of the two; the v2 family, which  *)
(* records both and repeats passes, is only reached from tests.  What the  *)
(* text of a record says is left out: a record is its kind, its verdict    *)
(* and its number.                                                         *)
(***************************************************************************)
EXTENDS Naturals, Sequences, FiniteSets, SequencesExt

CONSTANTS
    MaxTerminal, MaxPlanned,    \* partition counts a pass may report
    MaxEvents,                  \* bound: statuses and pass reports
    MaxSinkErrors               \* bound: writes of the sink that fail

ASSUME PlanningTelemetryAssumption ==
    {MaxTerminal, MaxPlanned, MaxEvents, MaxSinkErrors} \subseteq Nat

VARIABLES
    family,         \* delegated_contract_family
    passes,         \* the reports of the completed passes and how each was completed
    latestDiagnosis,\* latest_pass_diagnosis
    latestBlocked,  \* latest_blocked_on_summary
    statuses,       \* what each status since the last pass said was blocking
    pending,        \* per thread: a record projected and not yet written
    file,           \* the telemetry file: the records of earlier runs, then ours
    initialized,    \* sink_initialized
    lost,           \* numbers of the records whose write failed
    projected       \* records projected so far

telemetryVars == <<family, passes, latestDiagnosis, latestBlocked, statuses, pending, file,
                   initialized, lost, projected>>

Threads == {"task", "indexer"}
Reports == [terminal : 0..MaxTerminal, planned : 0..MaxPlanned]
NoRecord == [kind |-> "none", verdict |-> "none", id |-> 0]
OldRecord == [kind |-> "earlier_run", verdict |-> "none", id |-> 0]
None == "none"

TelemetryStart(contract, earlier) ==
    /\ family = contract
    /\ passes = <<>>
    /\ latestDiagnosis = None /\ latestBlocked = None
    /\ statuses = <<>>
    /\ pending = [t \in Threads |-> NoRecord]
    /\ file = earlier
    /\ initialized = FALSE
    /\ lost = {} /\ projected = 0

TelemetryInit ==
    \E contract \in {"non-v3", "v2", "v3"}, earlier \in {<<>>, <<OldRecord>>} :
        TelemetryStart(contract, earlier)

----------------------------------------------------------------------------
(* The verdict on a pass.                                                   *)

\* planning_partition_gap.
Gap(report) == IF report.planned > report.terminal THEN report.planned - report.terminal ELSE 0

Improves(previous, current) ==
    \/ current.terminal > previous.terminal
    \/ Gap(current) < Gap(previous)

Regresses(previous, current) ==
    \/ current.terminal < previous.terminal
    \/ Gap(current) > Gap(previous)

\* planning_pass_diagnosis, against the pass before.
PassDiagnosis(previous, current) ==
    CASE Improves(previous, current) /\ ~Regresses(previous, current) -> "converging"
      [] ~Improves(previous, current) -> "not-converging"
      [] OTHER -> "inconclusive"

\* project_pass_summary: the verdict of the report that completes a pass.
Diagnosis(report, complete) ==
    IF complete THEN "converging"
    ELSE IF passes = <<>> THEN "inconclusive"
    ELSE PassDiagnosis(Last(passes), report)

----------------------------------------------------------------------------
(* The steps.                                                               *)

\* A record waits for its thread to write it.
Project(t, kind, verdict) ==
    /\ pending' = [pending EXCEPT ![t] = [kind |-> kind, verdict |-> verdict, id |-> projected + 1]]
    /\ projected' = projected + 1

\* The blocked-on summary after a pass.
BlockedAfterPass == None

\* report_planning_pass_completion.  Only the v2 contract asks for another
\* replay; v3 reports no passes.
PassCompleted(report, complete) ==
    /\ family # "v3" /\ (complete \/ family = "v2")
    /\ pending["task"] = NoRecord /\ projected < MaxEvents
    /\ Project("task", "pass-summary", Diagnosis(report, complete))
    /\ latestDiagnosis' = Diagnosis(report, complete)
    /\ passes' = Append(passes, [terminal |-> report.terminal, planned |-> report.planned, complete |-> complete])
    /\ latestBlocked' = BlockedAfterPass
    /\ statuses' = <<>>
    /\ UNCHANGED <<family, file, initialized, lost>>

\* Mutant: the last status wins, whatever it knew.
RememberLast(summary) == summary

\* project_planning_status: an unknown reason does not hide a known one.
Remember(summary) ==
    IF summary # "unknown" \/ latestBlocked = None THEN summary ELSE latestBlocked

\* planning_intra_pass_telemetry_record and planning_live_status_telemetry_record:
\* v2 records the statuses of a planning pass that has not completed, v3 those of
\* every other phase but the final replay.
RecordedKind(phase, state) ==
    CASE family = "v2" /\ phase = "planning-pass" /\ state # "completed" -> "intra-pass"
      [] family = "v3" /\ phase \in {"hierarchy", "partition"} -> "live-status"
      [] OTHER -> None

\* clustering_blocked_on_summary: loading, training, classifying and assembling
\* a layer always say how far they are, the other phases say what the status has.
BlockedOn(phase, evidence) ==
    IF phase = "partition" THEN "layer progress"
    ELSE IF evidence = None THEN "unknown" ELSE evidence

\* A status of the indexer, with or without evidence of what it waits for.
StatusReported(phase, state, evidence) ==
    LET summary == BlockedOn(phase, evidence) IN
    /\ pending["indexer"] = NoRecord /\ Len(statuses) + projected < MaxEvents
    /\ latestBlocked' = Remember(summary)
    /\ statuses' = Append(statuses, summary)
    /\ IF RecordedKind(phase, state) = None THEN UNCHANGED <<pending, projected>>
       ELSE Project("indexer", RecordedKind(phase, state),
                    IF latestDiagnosis = None THEN "inconclusive" ELSE latestDiagnosis)
    /\ UNCHANGED <<family, passes, latestDiagnosis, file, initialized, lost>>

\* What the file keeps when a record is written: the first record truncates.
Kept == IF initialized THEN file ELSE <<>>

\* write_json_record: the first record is claimed before the file is opened.  The
\* write fails before the claim (the directory, the rendering), at the open, or
\* after it, when the file is already truncated.
WriteRecord(t) ==
    /\ pending[t] # NoRecord
    /\ pending' = [pending EXCEPT ![t] = NoRecord]
    /\ \/ /\ initialized' = TRUE /\ file' = Append(Kept, pending[t])
          /\ UNCHANGED lost
       \/ /\ Cardinality(lost) < MaxSinkErrors
          /\ lost' = lost \cup {pending[t].id}
          /\ \/ UNCHANGED <<initialized, file>>
             \/ initialized' = TRUE /\ file' \in {file, Kept}
    /\ UNCHANGED <<family, passes, latestDiagnosis, latestBlocked, statuses, projected>>

TelemetryNext ==
    \/ \E report \in Reports, complete \in BOOLEAN : PassCompleted(report, complete)
    \/ \E phase \in {"planning-pass", "hierarchy", "partition", "final-replay"},
          state \in {"in-progress", "completed"}, evidence \in {"stalled", None} :
            StatusReported(phase, state, evidence)
    \/ \E t \in Threads : WriteRecord(t)

TelemetrySpec == TelemetryInit /\ [][TelemetryNext]_telemetryVars

----------------------------------------------------------------------------
(* Properties.                                                              *)

\* What the run is known to be blocked on is the last informative status of the
\* pass in progress, and unknown only if no status of it said more.
WaitingStateKept ==
    LET known == {i \in DOMAIN statuses : statuses[i] # "unknown"}
    IN  /\ \A i \in known : (\A j \in known : j <= i) => latestBlocked = statuses[i]
        /\ known = {} => latestBlocked = IF statuses # <<>> THEN "unknown" ELSE None

\* A pass that asks for another is called converging exactly when one of the
\* open and terminal partition counts got better than in the pass before and
\* neither got worse, and not converging only when neither got better.
VerdictMatchesTrend ==
    Len(passes) > 1 /\ ~Last(passes).complete =>
        LET before == passes[Len(passes) - 1]
            after == Last(passes)
            noWorse == Gap(after) <= Gap(before) /\ after.terminal >= before.terminal
            noBetter == Gap(after) >= Gap(before) /\ after.terminal <= before.terminal
        IN /\ latestDiagnosis = "converging" <=> noWorse /\ ~noBetter
           /\ latestDiagnosis = "not-converging" <=> noBetter

\* The file holds every record projected, once each, but those in flight and those
\* whose own write failed, wherever it failed: no truncation takes what this run has
\* written.  With no failure nothing of an earlier run is left once one is written.
FileIsThisRuns ==
    /\ {file[i].id : i \in DOMAIN file} \ {0}
        = 1..projected \ (lost \cup {pending[t].id : t \in Threads})
    /\ \A i, j \in DOMAIN file : i # j /\ file[i].id = file[j].id => file[i].id = 0
    /\ initialized /\ lost = {} => OldRecord \notin ToSet(file)

\* What a stalled clustering is diagnosed by is of the pass in progress and of this
\* run, whichever writes of the telemetry fail (project_planning_status,
\* project_pass_summary, write_json_record).
TelemetrySound == WaitingStateKept /\ VerdictMatchesTrend /\ FileIsThisRuns
=============================================================================
