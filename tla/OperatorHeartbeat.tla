-------------------------- MODULE OperatorHeartbeat --------------------------
(***************************************************************************)
(* The heartbeat that tells the operator a long call is still running      *)
(* (crates/lexonarchivebuilder-indexer, OperatorLivenessHeartbeat in       *)
(* block_store.rs and CopyLivenessHeartbeat in main.rs): a thread that     *)
(* parks for the interval and prints, and is stopped through a flag, an    *)
(* unpark and a join when the call returns or unwinds.  Upstream telemetry *)
(* of the same call is printed by whichever thread the database runs it    *)
(* on, unless it repeats the line before it.                               *)
(*                                                                         *)
(* park_timeout returns for the token of an unpark, for the time, or for   *)
(* no reason; a token left by an unpark makes the next park return.        *)
(***************************************************************************)
EXTENDS Naturals, Sequences

CONSTANTS
    Reporters,      \* threads that deliver telemetry
    Messages,       \* what an event can read (one that reads nothing changes nothing)
    MaxLines        \* bound on what is printed

ASSUME HeartbeatAssumption == MaxLines \in Nat /\ "none" \notin Messages

VARIABLES
    keepRunning,    \* the flag
    token,          \* the heartbeat thread's park token
    beat,           \* the heartbeat thread
    main,           \* the thread that makes the call
    last,           \* last_reported_signature
    reporting,      \* what each reporter is about to print
    lines           \* printed: <<who, text>>

heartVars == <<keepRunning, token, beat, main, last, reporting, lines>>

\* What is printed beyond the bound is not kept.
Printed(line) == IF Len(lines) < MaxLines THEN Append(lines, line) ELSE lines

HeartInit ==
    /\ keepRunning = FALSE
    /\ token = FALSE
    /\ beat = "unborn"
    /\ main = "start"
    /\ last = "none"
    /\ reporting = [r \in Reporters |-> "none"]
    /\ lines = <<>>

\* new: without a reporter or with a zero interval there is no thread.
New ==
    /\ main = "start"
    /\ \/ /\ keepRunning' = TRUE
          /\ beat' = "loop"
       \/ UNCHANGED <<keepRunning, beat>>
    /\ main' = "call"
    /\ UNCHANGED <<token, last, reporting, lines>>

\* The loop's condition.
BeatLoop ==
    /\ beat = "loop"
    /\ beat' = IF keepRunning THEN "parked" ELSE "done"
    /\ UNCHANGED <<keepRunning, token, main, last, reporting, lines>>

\* park_timeout returns.
Unpark ==
    /\ beat = "parked"
    /\ token' = FALSE
    /\ beat' = "woken"
    /\ UNCHANGED <<keepRunning, main, last, reporting, lines>>

\* The flag is read again after the park.
Woken ==
    /\ beat = "woken"
    /\ beat' = IF keepRunning THEN "print" ELSE "done"
    /\ UNCHANGED <<keepRunning, token, main, last, reporting, lines>>

PrintBeat ==
    /\ beat = "print"
    /\ lines' = Printed(<<"heartbeat", main>>)
    /\ beat' = "loop"
    /\ UNCHANGED <<keepRunning, token, main, last, reporting>>

HeartbeatStep == BeatLoop \/ Unpark \/ Woken \/ PrintBeat

\* The call returns, with a result or by a panic: stop runs either way, from
\* run_with_operator_liveness or from drop.
CallEnds ==
    /\ main = "call"
    /\ \A r \in Reporters : reporting[r] = "none"
    /\ main' = "stop"
    /\ UNCHANGED <<keepRunning, token, beat, last, reporting, lines>>

StopFlag ==
    /\ main = "stop"
    /\ keepRunning' = FALSE
    /\ main' = IF beat = "unborn" THEN "returned" ELSE "unpark"
    /\ UNCHANGED <<token, beat, last, reporting, lines>>

StopUnpark ==
    /\ main = "unpark"
    /\ token' = TRUE
    /\ main' = "join"
    /\ UNCHANGED <<keepRunning, beat, last, reporting, lines>>

\* Mutant: stop does not wait for the thread.
NoJoin ==
    /\ main = "join"
    /\ main' = "returned"
    /\ UNCHANGED <<keepRunning, token, beat, last, reporting, lines>>

Join ==
    /\ main = "join" /\ beat = "done"
    /\ main' = "returned"
    /\ UNCHANGED <<keepRunning, token, beat, last, reporting, lines>>

StopStep == StopFlag \/ StopUnpark \/ Join

\* project_redb_telemetry_event, under the lock of the signature.
Project(r, message) ==
    /\ message # last
    /\ last' = message
    /\ reporting' = [reporting EXCEPT ![r] = message]

\* An event arrives; the line is printed after the lock is released.
Telemetry(r) ==
    /\ main = "call" /\ reporting[r] = "none"
    /\ \E message \in Messages : Project(r, message)
    /\ UNCHANGED <<keepRunning, token, beat, main, lines>>

Report(r) ==
    /\ reporting[r] # "none"
    /\ lines' = Printed(<<"telemetry", reporting[r]>>)
    /\ reporting' = [reporting EXCEPT ![r] = "none"]
    /\ UNCHANGED <<keepRunning, token, beat, main, last>>

Returned == main = "returned" /\ UNCHANGED heartVars

HeartNext ==
    \/ New \/ HeartbeatStep \/ CallEnds \/ StopStep
    \/ \E r \in Reporters : Telemetry(r) \/ Report(r)
    \/ Returned

\* A thread that can step does so; a park returns at the latest after its interval.
HeartSpec ==
    /\ HeartInit /\ [][HeartNext]_heartVars
    /\ WF_heartVars(HeartbeatStep) /\ WF_heartVars(StopStep)

-----------------------------------------------------------------------------
(* Properties.                                                             *)

\* The operator reads nothing of a call that has returned: no heartbeat line is
\* printed after stop returned, however late the thread was woken.
QuietAfterReturn == main = "returned" => beat \in {"unborn", "done"}

\* Each telemetry event that was projected differs from the one projected before it,
\* so with one reporter no two successive telemetry lines are the same.
IsTelemetry(i) == lines[i][1] = "telemetry"
NoRepeatedLine ==
    \A i, j \in DOMAIN lines :
        /\ i < j /\ IsTelemetry(i) /\ IsTelemetry(j)
        /\ \A k \in DOMAIN lines : i < k /\ k < j => ~IsTelemetry(k)
        => lines[i] # lines[j]

\* No unpark is lost: a caller in the join never waits for a park that only the
\* interval ends, wherever in its loop the thread was when it was told to stop.
StopIsPrompt == main = "join" /\ beat = "parked" => token

\* What the operator reads belongs to a call that is running and is news, and the
\* call's return is not held up (OperatorLivenessHeartbeat::stop,
\* project_redb_telemetry_event).
HeartbeatSound == QuietAfterReturn /\ NoRepeatedLine /\ StopIsPrompt
=============================================================================
