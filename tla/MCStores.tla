------------------------------ MODULE MCStores ------------------------------
(***************************************************************************)
(* What is stored and read back: the archive-sync journal under every      *)
(* order of its calls ("journal") and under source acquisition             *)
(* ("snapshot"), a block read through the gateway ("read"), and the MCP    *)
(* tools while runs publish ("mcp").  The programs share no state, so each *)
(* behaviour runs one of them and leaves the others as they start.         *)
(***************************************************************************)
EXTENDS SourceSnapshot, GatewayRead, McpServer

VARIABLE part

storesVars == <<part, journalVars, snapshotVars, gatewayReadVars, mcpVars>>

----------------------------------------------------------------------------
(* The instances.                                                           *)

\* A mailbox to admit and a chunk to embed.
MCItemsOf == [MailboxAdmission |-> {MailboxItem("p")}, Embedding |-> {<<"chunk", "p">>}]

MCWanted == [c \in Calls |-> "e"]

\* Four runs: a tree with one leaf, an ingestion-only run, a tree that shares
\* that leaf and has two more, and a root that is a leaf.
MCRuns == 1..4
MCBranch == <<TRUE, TRUE, TRUE, FALSE>>
MCReached == <<<<"b">>, <<>>, <<"a", "b", "c">>, <<>>>>
MCEntries == [l \in {"a", "b", "c"} |->
                CASE l = "a" -> <<"email">> [] l = "b" -> <<"document">>
                  [] OTHER -> <<"email", "document">>]
MCSymmetry == Permutations(ToolCalls)

----------------------------------------------------------------------------
StoresInit ==
    /\ part \in {"journal", "snapshot", "read", "mcp"}
    /\ IF part = "journal" THEN JournalInit ELSE JournalStart(FALSE)
    /\ AcquireStart
    /\ ReadInit
    /\ McpInit

StoresNext ==
    \/ /\ part = "journal" /\ JournalNext
       /\ UNCHANGED <<part, snapshotVars, gatewayReadVars, mcpVars>>
    \/ /\ part = "snapshot" /\ SnapshotNext
       /\ UNCHANGED <<part, gatewayReadVars, mcpVars>>
    \/ /\ part = "read" /\ ReadNext
       /\ UNCHANGED <<part, journalVars, snapshotVars, mcpVars>>
    \/ /\ part = "mcp" /\ McpNext
       /\ UNCHANGED <<part, journalVars, snapshotVars, gatewayReadVars>>

StoresSpec == StoresInit /\ [][StoresNext]_storesVars

----------------------------------------------------------------------------
\* A restart can go on from what is on disk: the journal is one of its kind (the
\* mailboxes of an acquired archive come from its paths), committed work has its
\* checkpoints, the manifest can be read, and no mailbox of it is forgotten.
ResumeSound ==
    /\ part = "journal" => JournalTypeOK
    /\ SnapshotTypeOK
    /\ CheckpointsHoldAfterRestart /\ DurableManifestReadable /\ MailboxesAccounted
=============================================================================
