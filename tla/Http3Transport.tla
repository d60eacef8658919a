--------------------------- MODULE Http3Transport ---------------------------
(***************************************************************************)
(* The HTTP/3 gateway client's transport (crates/lexonarchivebuilder-      *)
(* block-store-http3/src/lib.rs, Http3GatewayTransport): concurrent calls  *)
(* share one cached connection.  A call takes the cached connection or     *)
(* opens one with the lock released, sends its request, and on any error   *)
(* or timeout discards whatever is cached and, when the method is          *)
(* idempotent, tries once more.                                            *)
(*                                                                         *)
(* The QUIC connection, the resolver and the gateway are external: a       *)
(* connection is live until the gateway goes down or closes it for being   *)
(* idle, and a dead one fails whoever uses it.  Every await may instead    *)
(* run into the call's timeout.                                            *)
(***************************************************************************)
EXTENDS Naturals, FiniteSets

CONSTANTS
    Calls,          \* concurrent callers of request
    Idempotent,     \* the calls whose method allows_transport_retry accepts
    MaxOutages,     \* bound: times the gateway goes down
    MaxIdleCloses   \* bound: connections closed for being idle

ASSUME Http3Assumption ==
    /\ IsFiniteSet(Calls)
    /\ Idempotent \subseteq Calls
    /\ MaxOutages \in Nat /\ MaxIdleCloses \in Nat

NoConnection == 0

\* Numbers for the connections that are held at one time.
Connections == 1..(Cardinality(Calls) + 1)

VARIABLES
    cached,     \* Http3GatewayState.send_request
    resolved,   \* whether Http3GatewayState.resolved_address is set
    live,       \* the connections that work
    up,         \* whether the gateway runs
    outages, idleCloses,
    call,       \* each call: its place, attempt and connection
    served,     \* how often the gateway received each request not to be repeated
    clean       \* the gateway was up and the call alone and on time so far

transportVars ==
    <<cached, resolved, live, up, outages, idleCloses, call, served, clean>>

\* Where a call is in request: before it, in get_or_connect, in request_once,
\* in reset_connection, or returned with an answer or an error.
Places == {"idle", "lookup", "connect", "install", "send", "wait", "reset",
           "answered", "failed"}

InFlightPlaces == Places \ {"idle", "answered", "failed"}
InFlightCalls == {c \in Calls : call[c].at \in InFlightPlaces}

TransportInit ==
    /\ cached = NoConnection
    /\ resolved = FALSE
    /\ live = {}
    /\ up = TRUE
    /\ outages = 0 /\ idleCloses = 0
    /\ call = [c \in Calls |-> [at |-> "idle", attempt |-> 0, conn |-> NoConnection]]
    /\ served = [c \in Calls \ Idempotent |-> 0]
    /\ clean = [c \in Calls |-> FALSE]

Go(c, at) == call' = [call EXCEPT ![c].at = at]

\* A number for a connection that nobody holds yet.
Fresh ==
    CHOOSE k \in Connections : k \notin {cached} \cup {call[c].conn : c \in Calls}

\* The call lets go of its connection, and a connection that neither the cache
\* nor a call holds any more is closed.
LetGo(c, place, cache) ==
    /\ call' = [call EXCEPT ![c].at = place, ![c].conn = NoConnection]
    /\ live' = live \cap ({cache} \cup {call[d].conn : d \in Calls \ {c}})

BeginCall(c) ==
    /\ call[c].at = "idle"
    /\ call' = [call EXCEPT ![c] = [at |-> "lookup", attempt |-> 1, conn |-> NoConnection]]
    /\ clean' = [d \in Calls |->
                    IF d = c THEN up /\ InFlightCalls = {}
                             ELSE clean[d] /\ d \notin InFlightCalls]
    /\ UNCHANGED <<cached, resolved, live, up, outages, idleCloses, served>>

\* get_or_connect, the first critical section.
Lookup(c) ==
    /\ call[c].at = "lookup"
    /\ IF cached # NoConnection
       THEN call' = [call EXCEPT ![c].at = "send", ![c].conn = cached]
       ELSE Go(c, "connect")
    /\ UNCHANGED <<cached, resolved, live, up, outages, idleCloses, served, clean>>

\* Resolve and connect, without the lock.
Connect(c) ==
    /\ call[c].at = "connect"
    /\ up
    /\ call' = [call EXCEPT ![c].at = "install", ![c].conn = Fresh]
    /\ live' = live \cup {Fresh}
    /\ UNCHANGED <<cached, resolved, up, outages, idleCloses, served, clean>>

\* get_or_connect, the second critical section: a connection that another call
\* has installed meanwhile is used instead of this one.
Install(c) ==
    /\ call[c].at = "install"
    /\ IF cached # NoConnection
       THEN /\ call' = [call EXCEPT ![c].at = "send", ![c].conn = cached]
            /\ live' = live \ {call[c].conn}
            /\ UNCHANGED <<cached, resolved>>
       ELSE /\ cached' = call[c].conn
            /\ resolved' = TRUE
            /\ Go(c, "send")
            /\ UNCHANGED live
    /\ UNCHANGED <<up, outages, idleCloses, served, clean>>

Send(c) ==
    /\ call[c].at = "send"
    /\ call[c].conn \in live
    /\ served' = [d \in DOMAIN served |-> served[d] + (IF d = c THEN 1 ELSE 0)]
    /\ Go(c, "wait")
    /\ UNCHANGED <<cached, resolved, live, up, outages, idleCloses, clean>>

Respond(c) ==
    /\ call[c].at = "wait"
    /\ call[c].conn \in live
    /\ LetGo(c, "answered", cached)
    /\ UNCHANGED <<cached, resolved, up, outages, idleCloses, served, clean>>

\* The first error is followed by a reset, the second is returned.
AfterError(c) == IF call[c].attempt = 1 THEN "reset" ELSE "failed"

\* A connection attempt that is refused, and a stream on a dead connection.
TransportError(c) ==
    /\ \/ call[c].at = "connect" /\ ~up
       \/ call[c].at \in {"send", "wait"} /\ call[c].conn \notin live
    /\ LetGo(c, AfterError(c), cached)
    /\ UNCHANGED <<cached, resolved, up, outages, idleCloses, served, clean>>

\* request_with_timeout gives up on request_once, wherever it is.
TimesOut(c) ==
    /\ call[c].at \in {"lookup", "connect", "install", "send", "wait"}
    /\ LetGo(c, AfterError(c), cached)
    /\ clean' = [clean EXCEPT ![c] = FALSE]
    /\ UNCHANGED <<cached, resolved, up, outages, idleCloses, served>>

AllowsTransportRetry(c) == c \in Idempotent

\* The second attempt, or the first one's error.
AttemptAgain(c) ==
    [call[c] EXCEPT !.at = IF AllowsTransportRetry(c) THEN "lookup" ELSE "failed",
                    !.attempt = 2]

\* Mutant: the retry goes over the connection that failed.
RetryWithoutReset(c) ==
    /\ call[c].at = "reset"
    /\ call' = [call EXCEPT ![c] = AttemptAgain(c)]
    /\ UNCHANGED <<cached, resolved, live, up, outages, idleCloses, served, clean>>

\* reset_connection, whichever connection is cached by now, and the retry.
Reset(c) ==
    /\ call[c].at = "reset"
    /\ cached' = NoConnection
    /\ resolved' = FALSE
    /\ call' = [call EXCEPT ![c] = AttemptAgain(c)]
    /\ live' = live \cap {call[d].conn : d \in Calls}
    /\ UNCHANGED <<up, outages, idleCloses, served, clean>>

GatewayDown ==
    /\ up
    /\ outages < MaxOutages
    /\ up' = FALSE
    /\ live' = {}
    /\ outages' = outages + 1
    /\ clean' = [c \in Calls |-> clean[c] /\ c \notin InFlightCalls]
    /\ UNCHANGED <<cached, resolved, idleCloses, call, served>>

GatewayUp ==
    /\ ~up
    /\ up' = TRUE
    /\ UNCHANGED <<cached, resolved, live, outages, idleCloses, call, served, clean>>

\* The gateway's max_idle_timeout on a connection that nobody uses.
IdleClose ==
    /\ InFlightCalls = {}
    /\ idleCloses < MaxIdleCloses
    /\ cached \in live
    /\ live' = live \ {cached}
    /\ idleCloses' = idleCloses + 1
    /\ UNCHANGED <<cached, resolved, up, outages, call, served, clean>>

CallStep(c) ==
    \/ Lookup(c) \/ Connect(c) \/ Install(c) \/ Send(c) \/ TransportError(c)
    \/ TimesOut(c) \/ Reset(c)

GatewayStep == GatewayDown \/ GatewayUp \/ IdleClose

\* These calls are made.
TransportNextFor(made) ==
    GatewayStep \/ \E c \in made : BeginCall(c) \/ CallStep(c) \/ Respond(c)

TransportNext == TransportNextFor(Calls)

\* Each call's task is polled, and its timer fires when nothing else happens;
\* nothing is assumed of the gateway, which may never answer.
TransportFairness == \A c \in Calls : WF_transportVars(CallStep(c))

TransportSpec == TransportInit /\ [][TransportNext]_transportVars /\ TransportFairness

----------------------------------------------------------------------------
(* Properties.                                                              *)

\* The variables have their types.
TransportTypeOK ==
    /\ cached \in Connections \cup {NoConnection}
    /\ resolved \in BOOLEAN /\ up \in BOOLEAN
    /\ live \subseteq Connections
    /\ call \in [Calls -> [at : Places, attempt : 0..2, conn : Connections \cup {NoConnection}]]
    /\ served \in [Calls \ Idempotent -> 0..2]
    /\ clean \in [Calls -> BOOLEAN]

\* The gateway receives a request that is not idempotent at most once, whatever
\* fails or times out on the way (allows_transport_retry): an embedding is never
\* requested twice behind its caller's back.
NotIdempotentSentOnce == \A c \in Calls \ Idempotent : served[c] <= 1

\* A resolved address is never reused without the connection it led to: after a
\* reset the host is resolved again, so the retry follows a gateway that has
\* moved (get_or_connect and reset_connection set and clear both).
AddressKeptWithConnection == resolved = (cached # NoConnection)

\* An idempotent call that is alone, on time, and meets a running gateway from
\* beginning to end succeeds, although the connection it finds cached may have
\* died in an outage or an idle period before it, or be what another call's
\* failed retry left behind (reset_connection before the retry).
LoneCallHeals == \A c \in Idempotent : clean[c] => call[c].at # "failed"

\* Callers can leave retries to the transport: what must not be repeated is not,
\* what may be heals, and no retry goes to an address that has gone stale
\* (request, get_or_connect, reset_connection).
CallsAreSafeToRetry ==
    TransportTypeOK /\ NotIdempotentSentOnce /\ AddressKeptWithConnection /\ LoneCallHeals
=============================================================================
