----------------------------- MODULE BlockGateway ----------------------------
(***************************************************************************)
(* The gateway's server (crates/lexonarchivebuilder-block-gateway/src/     *)
(* lib.rs): serve accepts connections one at a time, takes one of          *)
(* MAX_CONCURRENT_CONNECTION_TASKS slots and spawns handle_connection; that *)
(* accepts requests one at a time, takes one of the connection's           *)
(* MAX_CONCURRENT_REQUEST_TASKS_PER_CONNECTION slots and spawns            *)
(* handle_request.  A slot is given back when its task ends.               *)
(*                                                                         *)
(* QUIC and HTTP/3 are external: a handshake completes or fails, a         *)
(* connection is closed by its peer or for being idle, which its task      *)
(* notices the next time it accepts.  A request task outlives the          *)
(* connection it came from.                                                *)
(***************************************************************************)
EXTENDS Naturals, FiniteSets

CONSTANTS
    Conns,          \* connections that clients open
    Reqs,           \* requests that clients send
    ConnOf,         \* the connection of each request
    Embeddings,     \* the requests for /v1/embeddings; the others are for /block
    Hangs,          \* what may hang: sets of block requests
    ConnSlots, ReqSlots

ASSUME BlockGatewayAssumption ==
    /\ ConnOf \in [Reqs -> Conns]
    /\ Embeddings \subseteq Reqs /\ Hangs \subseteq SUBSET (Reqs \ Embeddings)
    /\ ConnSlots \in Nat \ {0} /\ ReqSlots \in Nat \ {0}

VARIABLES
    stuck,          \* block requests whose store never answers
    conn,           \* each connection's place
    closed,         \* the connections that are closed at the QUIC layer
    connPermits,    \* free permits of connection_task_slots
    req,            \* each request's place
    reqPermits      \* free permits of each connection's request_task_slots

serverVars == <<stuck, conn, closed, connPermits, req, reqPermits>>

\* Not yet opened; waiting at the endpoint; taken by serve, which awaits a slot;
\* in handle_connection before and in its loop; its task is over.
ConnPlaces == {"new", "incoming", "held", "handshake", "open", "ended"}
ReqPlaces == {"new", "sent", "held", "running", "done", "lost"}

ServerStart(hanging) ==
    /\ stuck = hanging
    /\ conn = [c \in Conns |-> "new"]
    /\ closed = {}
    /\ connPermits = ConnSlots
    /\ req = [r \in Reqs |-> "new"]
    /\ reqPermits = [c \in Conns |-> ReqSlots]

ServerInit == \E hanging \in Hangs : ServerStart(hanging)

ConnTasks == {c \in Conns : conn[c] \in {"handshake", "open"}}
ReqTasks(c) == {r \in Reqs : ConnOf[r] = c /\ req[r] = "running"}
RequestsOf(c) == {r \in Reqs : ConnOf[r] = c}

ClientConnects(c) ==
    /\ conn[c] = "new"
    /\ conn' = [conn EXCEPT ![c] = "incoming"]
    /\ UNCHANGED <<stuck, closed, connPermits, req, reqPermits>>

\* serve: endpoint.accept, while no other connection waits for a slot.
ServeAccepts(c) ==
    /\ conn[c] = "incoming"
    /\ \A d \in Conns : conn[d] # "held"
    /\ conn' = [conn EXCEPT ![c] = "held"]
    /\ UNCHANGED <<stuck, closed, connPermits, req, reqPermits>>

\* serve: acquire_owned, then spawn.
ServeSpawns(c) ==
    /\ conn[c] = "held"
    /\ connPermits > 0
    /\ connPermits' = connPermits - 1
    /\ conn' = [conn EXCEPT ![c] = "handshake"]
    /\ UNCHANGED <<stuck, closed, req, reqPermits>>

\* The end of the connection's task drops its slot.
EndConnection(c) ==
    /\ conn' = [conn EXCEPT ![c] = "ended"]
    /\ connPermits' = connPermits + 1

\* incoming.await and the HTTP/3 set-up.
HandshakeDone(c) ==
    /\ conn[c] = "handshake"
    /\ c \notin closed
    /\ conn' = [conn EXCEPT ![c] = "open"]
    /\ UNCHANGED <<stuck, closed, connPermits, req, reqPermits>>

HandshakeFails(c) ==
    /\ conn[c] = "handshake"
    /\ EndConnection(c)
    /\ closed' = closed \cup {c}
    /\ UNCHANGED <<stuck, req, reqPermits>>

ClientSends(r) ==
    /\ req[r] = "new"
    /\ conn[ConnOf[r]] = "open" /\ ConnOf[r] \notin closed
    /\ req' = [req EXCEPT ![r] = "sent"]
    /\ UNCHANGED <<stuck, conn, closed, connPermits, reqPermits>>

\* The loop of handle_connection is at accept.
Accepting(c) ==
    /\ conn[c] = "open"
    /\ \A r \in RequestsOf(c) : req[r] # "held"

AcceptRequest(r) ==
    /\ req[r] = "sent"
    /\ Accepting(ConnOf[r]) /\ ConnOf[r] \notin closed
    /\ req' = [req EXCEPT ![r] = "held"]
    /\ UNCHANGED <<stuck, conn, closed, connPermits, reqPermits>>

\* Mutant: one semaphore serves the requests of all connections.
SharedRequestSlots(r) ==
    LET c == ConnOf[r]
    IN  /\ req[r] = "held"
        /\ Cardinality(UNION {ReqTasks(d) : d \in Conns}) < ReqSlots
        /\ reqPermits' = [reqPermits EXCEPT ![c] = @ - 1]
        /\ req' = [req EXCEPT ![r] = "running"]
        /\ UNCHANGED <<stuck, conn, closed, connPermits>>

\* Mutant: the slot is not taken.
RequestWithoutSlot(r) ==
    /\ req[r] = "held"
    /\ req' = [req EXCEPT ![r] = "running"]
    /\ UNCHANGED <<stuck, conn, closed, connPermits, reqPermits>>

\* acquire_owned, then spawn, although the connection may have been closed.
SpawnRequest(r) ==
    LET c == ConnOf[r]
    IN  /\ req[r] = "held"
        /\ reqPermits[c] > 0
        /\ reqPermits' = [reqPermits EXCEPT ![c] = @ - 1]
        /\ req' = [req EXCEPT ![r] = "running"]
        /\ UNCHANGED <<stuck, conn, closed, connPermits>>

\* get_block answers when its store does.  proxy_embeddings answers once it has the
\* client's body, which it waits for without a limit (here the peer sends it): no
\* upstream is not found, an oversized body is refused, an upstream that fails,
\* exceeds its timeout or breaks off is a bad gateway, and otherwise the
\* upstream's status passes through.
Answers(r) == r \in Embeddings \/ r \notin stuck

\* handle_request: the answer is lost when the connection is gone by then.
RequestEnds(r) ==
    /\ req[r] = "running"
    /\ Answers(r)
    /\ req' = [req EXCEPT ![r] = IF ConnOf[r] \in closed THEN "lost" ELSE "done"]
    /\ reqPermits' = [reqPermits EXCEPT ![ConnOf[r]] = @ + 1]
    /\ UNCHANGED <<stuck, conn, closed, connPermits>>

\* The peer goes away, or the network does.
PeerCloses(c) ==
    /\ conn[c] \in {"incoming", "held", "handshake", "open"}
    /\ closed' = closed \cup {c}
    /\ c \notin closed
    /\ UNCHANGED <<stuck, conn, connPermits, req, reqPermits>>

\* max_idle_timeout: nothing is under way on the connection.
IdleTimeout(c) ==
    /\ conn[c] = "open" /\ c \notin closed
    /\ \A r \in RequestsOf(c) : req[r] \notin {"sent", "held", "running"}
    /\ closed' = closed \cup {c}
    /\ UNCHANGED <<stuck, conn, connPermits, req, reqPermits>>

\* accept returns none or an error: the loop ends, unread requests are lost.
ConnectionEnds(c) ==
    /\ Accepting(c) /\ c \in closed
    /\ EndConnection(c)
    /\ req' = [r \in Reqs |-> IF ConnOf[r] = c /\ req[r] = "sent" THEN "lost" ELSE req[r]]
    /\ UNCHANGED <<stuck, closed, reqPermits>>

ServerStep(c) ==
    ServeAccepts(c) \/ ServeSpawns(c) \/ HandshakeDone(c) \/ HandshakeFails(c) \/ ConnectionEnds(c)

RequestStep(r) == AcceptRequest(r) \/ SpawnRequest(r) \/ RequestEnds(r)

ServerNext ==
    \/ \E c \in Conns : ClientConnects(c) \/ ServerStep(c) \/ PeerCloses(c) \/ IdleTimeout(c)
    \/ \E r \in Reqs : ClientSends(r) \/ RequestStep(r)

\* Tasks are polled and semaphores are fair (tokio's queue in order); the store
\* and the upstream answer, except for the stuck requests, and an idle connection
\* is closed.  Strong where another connection or request can take the slot first.
ServerFairness ==
    /\ \A c \in Conns : /\ SF_serverVars(ServeAccepts(c))
                        /\ WF_serverVars(ServerStep(c))
                        /\ WF_serverVars(IdleTimeout(c))
    /\ \A r \in Reqs : SF_serverVars(AcceptRequest(r)) /\ WF_serverVars(RequestStep(r))

ServerSpec == ServerInit /\ [][ServerNext]_serverVars /\ ServerFairness

----------------------------------------------------------------------------
(* Properties.                                                              *)

\* The variables have their types, the semaphores' permits included.
ServerTypeOK ==
    /\ conn \in [Conns -> ConnPlaces]
    /\ closed \subseteq Conns
    /\ connPermits \in 0..ConnSlots
    /\ req \in [Reqs -> ReqPlaces]
    /\ reqPermits \in [Conns -> 0..ReqSlots]

\* The connection tasks stay within their limit, and so do the request tasks of
\* each connection, also after it has ended and while the next one starts: every
\* slot is held by exactly one task that is still running.
SlotsAreHeldByTasks ==
    /\ ServerTypeOK
    /\ Cardinality(ConnTasks) + connPermits = ConnSlots
    /\ \A c \in Conns : Cardinality(ReqTasks(c)) + reqPermits[c] = ReqSlots

Unserved == {c \in Conns : conn[c] \in {"incoming", "held"}}

\* The requests under way on connections none of whose requests hang.
Unanswered ==
    {r \in Reqs : /\ req[r] \in {"sent", "held", "running"}
                  /\ RequestsOf(ConnOf[r]) \cap stuck = {}}

=============================================================================
