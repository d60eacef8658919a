----------------------------- MODULE GatewayRead ----------------------------
(***************************************************************************)
(* Reading a block through the gateway, end to end: the MCP server's       *)
(* get_email over the configured overlay of a memory cache, a filesystem   *)
(* cache and the HTTP/3 store (mcp/src/runtime.rs, indexer/src/            *)
(* block_store.rs, block-store-http3/src/lib.rs), the transport, and the   *)
(* gateway's get_block handler over its own store (block-gateway/src/      *)
(* lib.rs).  Every call of the transport is one block read.                *)
(*                                                                         *)
(* The overlay and the backing stores are libraries: a cache answers with  *)
(* what was read before and may drop it, a layer that answers fills the    *)
(* caches above it, and the backing store may fail for a while.            *)
(***************************************************************************)
EXTENDS Http3Transport

CONSTANTS
    Blocks,         \* block identifiers
    Emails,         \* the blocks that are leaves with one email entry
    Wanted,         \* the block each call reads
    Overlay,        \* storage profile production: the gateway caches too
    MaxFaults       \* bound: times the backing store begins to fail

ASSUME GatewayReadAssumption ==
    /\ Emails \subseteq Blocks
    /\ Wanted \in [Calls -> Blocks]
    /\ Overlay \in BOOLEAN
    /\ MaxFaults \in Nat

VARIABLES
    stored,         \* the blocks of the gateway's backing store
    failing,        \* whether that store fails at present
    faults,
    gatewayCache,   \* the gateway's cache layers
    clientCache,    \* the MCP server's cache layers
    httpStatus,         \* the HTTP status each call was answered with, or 0
    outcome,        \* what get_block_bytes returned: a block, none, an error
    owed            \* the reads whose block was stored when they began, in a
                    \* store that has not failed since

readVars == <<stored, failing, faults, gatewayCache, clientCache, httpStatus, outcome, owed>>
gatewayReadVars == <<transportVars, readVars>>

Outcomes == {"none", "found", "missing", "error"}

ReadInit ==
    /\ TransportInit
    /\ stored = {} /\ failing = FALSE /\ faults = 0
    /\ gatewayCache = {} /\ clientCache = {}
    /\ httpStatus = [c \in Calls |-> 0]
    /\ outcome = [c \in Calls |-> "none"]
    /\ owed = {}

\* A cache layer of the client has the block: the gateway is not asked.
OverlayHit(c) ==
    /\ call[c].at = "idle" /\ outcome[c] = "none"
    /\ Wanted[c] \in clientCache
    /\ outcome' = [outcome EXCEPT ![c] = "found"]
    /\ UNCHANGED <<transportVars, stored, failing, faults, gatewayCache, clientCache,
                   httpStatus, owed>>

\* Http3BlockStore::get_block_bytes asks for /block/<id>.
ReadBegin(c) ==
    /\ outcome[c] = "none"
    /\ Wanted[c] \notin clientCache
    /\ BeginCall(c)
    /\ owed' = IF Wanted[c] \in stored /\ ~failing THEN owed \cup {c} ELSE owed
    /\ UNCHANGED <<stored, failing, faults, gatewayCache, clientCache, httpStatus, outcome>>

TransportStep(c) == CallStep(c) /\ UNCHANGED readVars

\* What the gateway's store returns for a block.
StoreLookup(block) ==
    IF Overlay /\ block \in gatewayCache THEN "found"
    ELSE IF failing THEN "error"
    ELSE IF block \in stored THEN "found" ELSE "missing"

\* Mutant: a block that is only in the store is not found.
StatusOfCached(result, block) == IF block \in gatewayCache THEN 200 ELSE 404

\* get_block: a block is 200, everything else 404, a failed lookup too.
GetBlockStatus(result, block) == IF result = "found" THEN 200 ELSE 404

GetBlock(c) ==
    LET result == StoreLookup(Wanted[c])
    IN  /\ Respond(c)
        /\ httpStatus' = [httpStatus EXCEPT ![c] = GetBlockStatus(result, Wanted[c])]
        /\ gatewayCache' = IF Overlay /\ result = "found"
                           THEN gatewayCache \cup {Wanted[c]} ELSE gatewayCache
        /\ UNCHANGED <<stored, failing, faults, clientCache, outcome, owed>>

\* Http3BlockStore::get_block_bytes: the body, no block, or a backend failure.
ResultOf(c) ==
    IF call[c].at = "failed" THEN "error"
    ELSE CASE httpStatus[c] = 200 -> "found"
           [] httpStatus[c] = 404 -> "missing"
           [] OTHER               -> "error"

ReadEnd(c) ==
    /\ call[c].at \in {"answered", "failed"}
    /\ outcome[c] = "none"
    /\ outcome' = [outcome EXCEPT ![c] = ResultOf(c)]
    /\ clientCache' = IF ResultOf(c) = "found"
                      THEN clientCache \cup {Wanted[c]} ELSE clientCache
    /\ UNCHANGED <<transportVars, stored, failing, faults, gatewayCache, httpStatus, owed>>

\* An index run puts a block.
StorePut ==
    /\ ~failing
    /\ \E b \in Blocks \ stored : stored' = stored \cup {b}
    /\ UNCHANGED <<transportVars, failing, faults, gatewayCache, clientCache, httpStatus,
                   outcome, owed>>

StoreFails ==
    /\ ~failing
    /\ faults < MaxFaults
    /\ failing' = TRUE
    /\ faults' = faults + 1
    /\ owed' = owed \ InFlightCalls
    /\ UNCHANGED <<transportVars, stored, gatewayCache, clientCache, httpStatus, outcome>>

StoreHeals ==
    /\ failing
    /\ failing' = FALSE
    /\ UNCHANGED <<transportVars, stored, faults, gatewayCache, clientCache, httpStatus,
                   outcome, owed>>

\* A bounded cache makes room.
Evict ==
    /\ \/ \E b \in clientCache : clientCache' = clientCache \ {b} /\ UNCHANGED gatewayCache
       \/ \E b \in gatewayCache : gatewayCache' = gatewayCache \ {b} /\ UNCHANGED clientCache
    /\ UNCHANGED <<transportVars, stored, failing, faults, httpStatus, outcome, owed>>

\* These calls read their blocks.
ReadNextFor(made) ==
    \/ GatewayStep /\ UNCHANGED readVars
    \/ \E c \in made  : \/ OverlayHit(c) \/ ReadBegin(c) \/ TransportStep(c)
                        \/ GetBlock(c) \/ ReadEnd(c)
    \/ StorePut \/ StoreFails \/ StoreHeals \/ Evict

ReadNext == ReadNextFor(Calls)

ReadSpec == ReadInit /\ [][ReadNext]_gatewayReadVars

\* McpRuntime::get_email: the answer the tool gives.
EmailAnswer(c) ==
    CASE outcome[c] = "found"   -> IF Wanted[c] \in Emails THEN "email" ELSE "not_an_email"
      [] outcome[c] = "missing" -> "MissingEmailLeafBlock"
      [] outcome[c] = "error"   -> "BlockStore"
      [] OTHER                  -> "pending"

----------------------------------------------------------------------------
(* Properties.                                                              *)

\* The variables of the read path have their types.
ReadTypeOK ==
    /\ stored \subseteq Blocks
    /\ gatewayCache \subseteq Blocks /\ clientCache \subseteq Blocks
    /\ httpStatus \in [Calls -> {0, 200, 404}]
    /\ outcome \in [Calls -> Outcomes]
    /\ (~Overlay => gatewayCache = {})

\* No layer makes a block up: what a read returns, and what any cache holds, was
\* stored, so a cached block can be served for ever as the gateway's headers say.
FoundWasStored ==
    /\ gatewayCache \cup clientCache \subseteq stored
    /\ \A c \in Calls : outcome[c] = "found" => Wanted[c] \in stored

\* A block that was stored before a read began is read, when the store is
\* healthy and the gateway up for its duration: no absence seen by an earlier
\* read is remembered, no dead connection is in the way.
StoredBlockIsRead ==
    \A c \in Idempotent :
        c \in owed /\ clean[c] =>
            EmailAnswer(c) \notin {"MissingEmailLeafBlock", "BlockStore"}

\* A read through both caches and the gateway (get_block, get_block_bytes) answers
\* as the store would.
ReadSound == ReadTypeOK /\ FoundWasStored /\ StoredBlockIsRead
=============================================================================
