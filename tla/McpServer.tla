------------------------------ MODULE McpServer ------------------------------
(***************************************************************************)
(* The MCP server's tools over a published index (crates/                  *)
(* lexonarchivebuilder-mcp) together with the indexer that publishes it,   *)
(* and the rooted search of the indexer's command line, which goes the     *)
(* same way from a root it is given.                                       *)
(*                                                                         *)
(* A run of the indexer puts the blocks of its tree and then writes the    *)
(* summary file that names the root; fs::write empties the file before it  *)
(* fills it, and the process can be killed between any two steps.  A call  *)
(* reads the summary once, loads the root, embeds the query and searches;  *)
(* a search that finds fewer leaves than asked is repeated with the number *)
(* found.  Calls run concurrently, and any access of the store may fail.   *)
(*                                                                         *)
(* Run n's tree is Tree[n]; its searchable leaves in the order of their    *)
(* score are what the external searcher reaches.                           *)
(***************************************************************************)
EXTENDS Integers, Sequences, FiniteSets, TLC

CONSTANTS
    ToolCalls,          \* identities of tool calls
    Runs,           \* the indexer runs, 1..n, in the order they happen
    Branch,         \* Branch[n]: the root of run n is a branch
    Reached,        \* Reached[n]: the leaves the searcher reaches, best first
    Entries,        \* Entries[l]: the entries of leaf l, each "email" or "document"
    IngestionOnly,  \* the runs that only ingest, and publish no root
    MaxTopK

\* A summary file that is not there, and one that is there and empty.
NoRun == 0
Empty == -1

ASSUME RunsAssumption == Runs \subseteq Nat \ {NoRun} /\ IsFiniteSet(Runs)
ASSUME TreeAssumption ==
    /\ Branch \in [Runs -> BOOLEAN]
    /\ IngestionOnly \subseteq Runs
    /\ \A l \in DOMAIN Entries : Entries[l] \in Seq({"email", "document"})
    /\ \A n \in Runs : Reached[n] \in Seq(DOMAIN Entries)

VARIABLES
    summary,    \* the summary file: NoRun, Empty, or the run it names
    persisted,     \* the runs whose tree is in the block store
    runAt,      \* the indexer: idle, or at one of its steps
    done,       \* runs started so far
    calls       \* the calls, by identity

mcpVars == <<summary, persisted, runAt, done, calls>>

\* A call that has not begun.
NewCall == [tool |-> "none", at |-> "idle", topK |-> 0, root |-> NoRun, since |-> NoRun,
            fault |-> FALSE, found |-> <<>>, error |-> "none"]

McpInit ==
    /\ summary = NoRun
    /\ persisted = {}
    /\ runAt = "idle"
    /\ done = 0
    /\ calls = [c \in ToolCalls |-> NewCall]

-----------------------------------------------------------------------------
(* The indexer.                                                            *)

StartRun ==
    /\ runAt = "idle" /\ done + 1 \in Runs
    /\ done' = done + 1
    /\ runAt' = "persist"
    /\ UNCHANGED <<summary, persisted, calls>>

\* persist_staged_blocks, before the summary is returned to main.
PersistBlocks ==
    /\ runAt = "persist"
    /\ persisted' = IF done \in IngestionOnly THEN persisted ELSE persisted \cup {done}
    /\ runAt' = "truncate"
    /\ UNCHANGED <<summary, done, calls>>

\* write_summary_file: fs::write truncates, then writes.
TruncateSummary ==
    /\ runAt = "truncate"
    /\ summary' = Empty
    /\ runAt' = "fill"
    /\ UNCHANGED <<persisted, done, calls>>

FillSummary ==
    /\ runAt = "fill"
    /\ summary' = done
    /\ runAt' = "idle"
    /\ UNCHANGED <<persisted, done, calls>>

Killed ==
    /\ runAt # "idle"
    /\ runAt' = "idle"
    /\ UNCHANGED <<summary, persisted, done, calls>>

-----------------------------------------------------------------------------
(* The calls.                                                              *)

\* A call with some of its fields changed.
Changed(call, changes) ==
    [f \in DOMAIN call |-> IF f \in DOMAIN changes THEN changes[f] ELSE call[f]]

Set(c, changes) == calls' = [calls EXCEPT ![c] = Changed(@, changes)]

Answer(c, found) == Set(c, [at |-> "done", found |-> found])
Fail(c, error) == Set(c, [at |-> "done", error |-> error])
Fault(c, error) == Set(c, [at |-> "done", error |-> error, fault |-> TRUE])

IndexKept == UNCHANGED <<summary, persisted, runAt, done>>

\* search_chunks_with_context: top_k of the request or of the configuration
\* (validated); a request may ask for none, and is refused.
StartSearch(c) ==
    /\ calls[c].at = "idle"
    /\ \E k \in 0..MaxTopK :
        IF k = 0 THEN Fail(c, "top_k")
        ELSE Set(c, [tool |-> "search", at |-> "resolve", topK |-> k,
                     since |-> IF summary \in Runs THEN summary ELSE NoRun])
    /\ IndexKept

\* search_rooted_tree: the root comes with the command.
StartRootedSearch(c) ==
    /\ calls[c].at = "idle"
    /\ \E k \in 1..MaxTopK, n \in Runs :
        Set(c, [tool |-> "rooted", at |-> "root", topK |-> k, root |-> n])
    /\ IndexKept

\* Mutant: the root of an earlier call is kept.
ResolveOnce(c) ==
    /\ calls[c].at = "resolve"
    /\ LET known == {calls[d].root : d \in {e \in ToolCalls : calls[e].tool = "search"}} \ {NoRun}
           n == IF known # {} THEN CHOOSE k \in known : TRUE ELSE summary
       IN IF n \in Runs \ IngestionOnly THEN Set(c, [at |-> "root", root |-> n])
          ELSE Fail(c, "summary")
    /\ IndexKept

\* resolve_root_id_async: the file cannot be read, does not parse, or is the
\* summary of an ingestion-only run.
ResolveRoot(c) ==
    /\ calls[c].at = "resolve"
    /\ IF summary \in Runs \ IngestionOnly
       THEN Set(c, [at |-> "root", root |-> summary])
       ELSE Fail(c, "summary")
    /\ IndexKept

\* block_store.get of the root; the server refuses a leaf, the command does not.
LoadRoot(c) ==
    /\ calls[c].at = "root"
    /\ \/ Fault(c, "store")
       \/ /\ calls[c].root \notin persisted
          /\ Fail(c, "missing root")
       \/ /\ calls[c].root \in persisted
          /\ IF calls[c].tool = "search" /\ ~Branch[calls[c].root]
             THEN Fail(c, "leaf root")
             ELSE Set(c, [at |-> "embed"])
    /\ IndexKept

\* The provider, the embedding of the query, its decoding and the target.
EmbedQuery(c) ==
    /\ calls[c].at = "embed"
    /\ Set(c, [at |-> "search"]) \/ Fault(c, "provider")
    /\ IndexKept

\* The first search of search_with_partial_retry: Exhausted is retried when
\* something was reached, any other error is the call's.
Search(c) ==
    /\ calls[c].at = "search"
    /\ LET reached == Reached[calls[c].root] IN
       \/ Fault(c, "store")
       \/ /\ Len(reached) >= calls[c].topK
          /\ Answer(c, SubSeq(reached, 1, calls[c].topK))
       \/ /\ Len(reached) < calls[c].topK
          /\ IF reached = <<>> THEN Fail(c, "search") ELSE Set(c, [at |-> "again"])
    /\ IndexKept

\* The second search, of the same root with the number of leaves reached.
SearchAgain(c) ==
    /\ calls[c].at = "again"
    /\ Fault(c, "store") \/ Answer(c, Reached[calls[c].root])
    /\ IndexKept

Stored(leaf) == \E n \in persisted : \E i \in DOMAIN Reached[n] : Reached[n][i] = leaf

\* sole_email_leaf_entry and the check of its source_kind.
SoleEmailEntry(leaf) == Len(Entries[leaf]) = 1 /\ Entries[leaf][1] = "email"

\* get_email with the id of any leaf: one that does not parse, is not stored, or
\* is no leaf is refused the same way.
GetEmail(c) ==
    /\ calls[c].at = "idle"
    /\ \E leaf \in DOMAIN Entries :
        \/ Fault(c, "store")
        \/ /\ Stored(leaf) /\ SoleEmailEntry(leaf)
           /\ Set(c, [tool |-> "email", at |-> "done", found |-> <<leaf>>])
        \/ /\ ~(Stored(leaf) /\ SoleEmailEntry(leaf))
           /\ Fail(c, "email")
    /\ IndexKept

\* timed_result: the caller has its answer and may call again.
Return(c) ==
    /\ calls[c].at = "done"
    /\ calls' = [calls EXCEPT ![c] = NewCall]
    /\ IndexKept

CallNext(c) ==
    \/ StartSearch(c) \/ StartRootedSearch(c) \/ ResolveRoot(c) \/ LoadRoot(c)
    \/ EmbedQuery(c) \/ Search(c) \/ SearchAgain(c) \/ GetEmail(c) \/ Return(c)

McpNext ==
    \/ StartRun \/ PersistBlocks \/ TruncateSummary \/ FillSummary \/ Killed
    \/ \E c \in ToolCalls : CallNext(c)

McpSpec == McpInit /\ [][McpNext]_mcpVars

-----------------------------------------------------------------------------
(* Properties.                                                             *)

Answered(c) == calls[c].at = "done" /\ calls[c].error = "none"

\* Every hit belongs to the tree whose root the answer names, also when another
\* run publishes while the search is under way.
HitsAreFromNamedRoot ==
    \A c \in ToolCalls : Answered(c) /\ calls[c].tool \in {"search", "rooted"} =>
        \A i \in DOMAIN calls[c].found :
            \E j \in DOMAIN Reached[calls[c].root] : Reached[calls[c].root][j] = calls[c].found[i]

\* An answer is never older than the index that was published when the call began.
AnswersAreFresh ==
    \A c \in ToolCalls : Answered(c) /\ calls[c].tool = "search" => calls[c].root >= calls[c].since

\* Asking for more leaves than there are is answered with those there are: a search
\* that met no fault fails only when it reached nothing.
ShortIndexIsAnswered ==
    \A c \in ToolCalls : calls[c].error = "search" /\ ~calls[c].fault => Reached[calls[c].root] = <<>>

\* A root that a summary names can be loaded: a call that resolved the summary never
\* finds the root missing, wherever the indexer was killed.
PublishedRootFound ==
    \A c \in ToolCalls : calls[c].tool = "search" => calls[c].error # "missing root"

\* get_email answers with an email and only when it is all its leaf holds, so that
\* what it returns is what the search hit with that id showed.
EmailIsTheHit ==
    \A c \in ToolCalls : Answered(c) /\ calls[c].tool = "email" =>
        Entries[calls[c].found[1]] = <<"email">>

\* Every answer of a tool is one of the index that was published when the call
\* began or of a later one, as a whole, and asking too much of one is no error;
\* an index without a leaf, a root that is a leaf, and a summary met while it is
\* rewritten are refused (resolve_root_id_async, search_with_partial_retry, get_email).
AnswersSound ==
    HitsAreFromNamedRoot /\ AnswersAreFresh /\ ShortIndexIsAnswered /\ PublishedRootFound
    /\ EmailIsTheHit
=============================================================================
