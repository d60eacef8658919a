------------------------------ MODULE MCInputs ------------------------------
(***************************************************************************)
(* What is given to the programs, in every form of a small instance: a     *)
(* batch request ("request"), a command line and Ctrl-C ("command"), the   *)
(* gateway's arguments and environment ("gateway"), the passes of a        *)
(* clustering run ("telemetry"), the embeddings of a failed one ("health") *)
(* and the stored leaves of a replay ("replay").  They share no state, so  *)
(* each behaviour runs one of them and leaves the others as they start.    *)
(***************************************************************************)
EXTENDS RunRequest, CliCommand, GatewayStart, PlanningTelemetry, EmbeddingHealth, ReplayBatches

VARIABLE part

inputsVars == <<part, requestVars, cliVars, startVars, telemetryVars, healthVars, replayVars>>

----------------------------------------------------------------------------
(* The instances.                                                           *)

\* Three vectors of two components, one of them zero.
MCVectors == {<<0, 0>>, <<0, 1>>, <<1, 0>>}

\* Four entries, three of them with the same content.
MCInput == [i \in 1..N |-> IF i = 3 THEN "b" ELSE "a"]

\* What a part that does not run rests with.
RestingRequest == [environment |-> [kind |-> "local", baseUrl |-> TRUE], stage |-> "full",
                   items |-> TRUE, maxConcurrency |-> "absent", replayBatch |-> "absent",
                   refName |-> "valid", v3 |-> FALSE, clusterCount |-> "absent"]
RestingCommand == [name |-> "run", source |-> "local", dest |-> "none", blind |-> FALSE,
                   defaulted |-> {}]
RestingArgs == [profile |-> "local-redb", root |-> "set", sas |-> "absent", cache |-> "absent",
                memory |-> "absent", prefix |-> "absent"]
RestingVariables == [sas |-> "absent", cache |-> "absent", memory |-> "absent", prefix |-> "absent"]

----------------------------------------------------------------------------
InputsInit ==
    /\ part \in {"request", "command", "gateway", "telemetry", "health", "replay"}
    /\ IF part = "request" THEN RequestInit ELSE RequestStart(RestingRequest, "run")
    /\ IF part = "command" THEN CliInit ELSE CliStart(RestingCommand)
    /\ IF part = "gateway" THEN StartInit ELSE StartWith(RestingArgs, RestingVariables)
    /\ IF part = "telemetry" THEN TelemetryInit ELSE TelemetryStart("v3", <<>>)
    /\ IF part = "health" THEN HealthInit ELSE HealthStart(<<>>)
    /\ IF part = "replay" THEN ReplayInit ELSE ReplayStart([i \in 1..N |-> "good"])

InputsNext ==
    \/ /\ part = "request" /\ RequestNext
       /\ UNCHANGED <<part, cliVars, startVars, telemetryVars, healthVars, replayVars>>
    \/ /\ part = "command" /\ CliNext
       /\ UNCHANGED <<part, requestVars, startVars, telemetryVars, healthVars, replayVars>>
    \/ /\ part = "gateway" /\ StartNext
       /\ UNCHANGED <<part, requestVars, cliVars, telemetryVars, healthVars, replayVars>>
    \/ /\ part = "telemetry" /\ TelemetryNext
       /\ UNCHANGED <<part, requestVars, cliVars, startVars, healthVars, replayVars>>
    \/ /\ part = "health" /\ HealthNext
       /\ UNCHANGED <<part, requestVars, cliVars, startVars, telemetryVars, replayVars>>
    \/ /\ part = "replay" /\ ReplayNext
       /\ UNCHANGED <<part, requestVars, cliVars, startVars, telemetryVars, healthVars>>

InputsSpec == InputsInit /\ [][InputsNext]_inputsVars

----------------------------------------------------------------------------
\* The diagnostics of a clustering, its telemetry and its embedding health, are
\* those of the attempt they are written for.
DiagnosticsSound == TelemetrySound /\ HealthSound
=============================================================================
