------------------------------ MODULE MCTasks ------------------------------
(***************************************************************************)
(* The parts of the programs that wait: tasks, threads, calls and passes   *)
(* which must come to an end.  They share no state, so running two at once *)
(* would only multiply their states: each behaviour runs the part that     *)
(* part names and leaves the others as they start.                         *)
(***************************************************************************)
EXTENDS Http3Transport, BlockGateway, EmbeddingPool, ReplayOrder, StreamingStage,
        OperatorHeartbeat, SingleWorkerCopy

VARIABLE part

tasksVars == <<part, transportVars, serverVars, poolVars, orderVars, stageVars, heartVars,
               singleVars>>

----------------------------------------------------------------------------
(* The instances.                                                           *)

\* Two connections with requests, one without.
MCConnOf == [r \in Reqs |-> IF r = "b1" THEN "b" ELSE "a"]

\* Replay inputs for two blocks, one of them with two digests, and an outcome:
\* every journal of up to three records, and every one of five inputs.
Record3(kind, id, digest) == [kind |-> kind, id |-> id, digest |-> digest]
MCReplayInputs == {Record3("ReplayInput", 1, 1), Record3("ReplayInput", 1, 2),
                   Record3("ReplayInput", 2, 1)}
MCJournals == UNION {[1..n -> MCReplayInputs \cup {Record3("Outcome", 0, 0)}] : n \in 0..3}
              \cup [1..5 -> MCReplayInputs]

\* Two requested roots share a block, which has a child that one of them also
\* names directly.
MCRootIds  == <<"r1", "r2">>
MCChildren == [r1 |-> <<"a", "c">>, r2 |-> <<"a", "b">>, a |-> <<"b", "d">>,
               b |-> <<>>, c |-> <<"e">>, d |-> <<>>, e |-> <<>>]
MClen == [r1 |-> 1, r2 |-> 1, a |-> 2, b |-> 5, c |-> 1, d |-> 1, e |-> 2]
MCFaulty == [o \in Operations \ {"CompactDestinationStore"} |->
               CASE o = "ReadSourceBlock"       -> {"b"}
                 [] o = "DecodeSourceBlock"     -> {"a"}
                 [] o = "WriteDestinationBlock" -> {"a", "c", "d"}
                 [] o = "CheckDestinationBlock" -> {"r1"}]

----------------------------------------------------------------------------
TasksInit ==
    /\ part \in {"transport", "server", "pool", "order", "stage", "heartbeat", "copy"}
    /\ TransportInit
    /\ IF part = "server" THEN ServerInit ELSE ServerStart({})
    /\ IF part = "pool" THEN PoolInit ELSE PoolStart("leaves", FALSE)
    /\ IF part = "order" THEN OrderInit ELSE OrderStart(<<>>)
    /\ IF part = "stage" THEN StageInit ELSE StageStart("v3")
    /\ HeartInit
    /\ IF part = "copy" THEN SingleInit ELSE SingleStart(FALSE, FALSE)

\* A step of one part leaves the others alone.
TransportRuns == part = "transport" /\ UNCHANGED <<part, serverVars, poolVars, orderVars, stageVars, heartVars, singleVars>>
ServerRuns == part = "server" /\ UNCHANGED <<part, transportVars, poolVars, orderVars, stageVars, heartVars, singleVars>>
PoolRuns == part = "pool" /\ UNCHANGED <<part, transportVars, serverVars, orderVars, stageVars, heartVars, singleVars>>
OrderRuns == part = "order" /\ UNCHANGED <<part, transportVars, serverVars, poolVars, stageVars, heartVars, singleVars>>
StageRuns == part = "stage" /\ UNCHANGED <<part, transportVars, serverVars, poolVars, orderVars, heartVars, singleVars>>
HeartRuns == part = "heartbeat" /\ UNCHANGED <<part, transportVars, serverVars, poolVars, orderVars, stageVars, singleVars>>
SingleRuns == part = "copy" /\ UNCHANGED <<part, transportVars, serverVars, poolVars, orderVars, stageVars, heartVars>>

TasksNext ==
    \/ TransportRuns /\ TransportNext
    \/ ServerRuns /\ ServerNext
    \/ PoolRuns /\ PoolNext
    \/ OrderRuns /\ OrderNext
    \/ StageRuns /\ StageNext
    \/ HeartRuns /\ HeartNext
    \/ SingleRuns /\ SingleNext

\* What the running part does by itself: the operator, the clients, the gateway's
\* outages and the telemetry need not come.
PartStep ==
    \/ TransportRuns /\ \E c \in Calls : CallStep(c)
    \/ ServerRuns /\ \E c \in Conns : ServerStep(c) \/ IdleTimeout(c)
    \/ ServerRuns /\ \E r \in Reqs : RequestStep(r)
    \/ PoolRuns /\ PoolNext
    \/ OrderRuns /\ OrderNext
    \/ StageRuns /\ (StageTaskStep \/ OperationEnds)
    \/ HeartRuns /\ HeartbeatStep
    \/ SingleRuns /\ CopyStep

\* Less than the fairness of the parts' own specifications: every step but a
\* heartbeat's uses up something finite, so that it is enough that some step is
\* taken as long as one is possible.
TasksFairness ==
    /\ WF_tasksVars(PartStep)
    /\ WF_tasksVars(HeartRuns /\ StopStep)

TasksSpec == TasksInit /\ [][TasksNext]_tasksVars /\ TasksFairness

----------------------------------------------------------------------------
WorkUnderWay ==
    \/ InFlightCalls # {} \/ Unserved # {} \/ Unanswered # {}
    \/ PoolUnderWay \/ OrderUnderWay \/ CopyUnderWay
    \/ Requested /\ result = "none"
    \/ main = "stop"

\* Work that has begun ends, although the operator, the clients and the gateway
\* may go away: a call over HTTP/3 with an answer or an error; every connection
\* accepted and every request on it handled, also when those of another hang; a
\* pool of embedding tasks; the sort of the replay order however many passes it
\* needs; the single-worker copy, whose task waits for futures that only it
\* polls; the command that was interrupted; the heartbeat that is told to stop.
BegunWorkEnds == WorkUnderWay ~> ~WorkUnderWay
=============================================================================
