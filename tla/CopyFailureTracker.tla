------------------------- MODULE CopyFailureTracker -------------------------
(***************************************************************************)
(* CopyFailureTracker of block_copy.rs: which requested roots reach which  *)
(* block over the edges discovered so far, and one reported failure for    *)
(* every failed operation on a block and every root that reaches the       *)
(* block, whether the root was associated before or after the operation    *)
(* failed.  The tracker is a value; the copy loops keep it in a variable   *)
(* and change it under one lock.                                           *)
(*                                                                         *)
(* Messages are left out.  Lists are bags here: their order only shows in  *)
(* the order of the report.                                                *)
(***************************************************************************)
EXTENDS Naturals, FiniteSets, Bags, BlockGraph

Operations == {"ReadSourceBlock", "DecodeSourceBlock", "CheckDestinationBlock",
               "WriteDestinationBlock", "CompactDestinationStore"}

\* DESTINATION_STORE_FAILURE_ID: reported in place of a block hash.
DestinationStore == "destination-store"

Failure(root, id, operation) == [root |-> root, id |-> id, operation |-> operation]

NewTracker ==
    [block_roots         |-> [b \in Blocks |-> {}],
     discovered_children |-> [b \in Blocks |-> {}],
     failure_templates   |-> [b \in Blocks |-> EmptyBag],
     failures            |-> EmptyBag]

\* The blocks that the walk of associate_root_with_known_subgraph inserts root
\* into: it follows the discovered children of a block only when root was not
\* associated with that block yet.
NewlyReached(t, root, starts) ==
    LET Closed(S) == /\ starts \subseteq S
                     /\ \A b \in S : root \notin t.block_roots[b] =>
                                        t.discovered_children[b] \subseteq S
    IN {b \in Blocks : /\ root \notin t.block_roots[b]
                       /\ \A S \in SUBSET Blocks : Closed(S) => b \in S}

\* Mutant: failures recorded earlier are not reported for a new root.
AssociateRootsOnly(t, roots, starts) ==
    [t EXCEPT !.block_roots = [b \in Blocks |->
                  @[b] \cup {r \in roots : b \in NewlyReached(t, r, starts)}]]

\* associate_root_with_known_subgraph for each of the roots and starting blocks:
\* a failure recorded earlier is reported for every root that reaches it now.
AssociateRoots(t, roots, starts) ==
    LET reached == [r \in roots |-> NewlyReached(t, r, starts)]
        named   == {f \in [root : roots, id : Blocks, operation : Operations] :
                       f.id \in reached[f.root] /\ BagIn(f.operation, t.failure_templates[f.id])}
        report  == [f \in named |-> t.failure_templates[f.id][f.operation]]
    IN [t EXCEPT !.block_roots = [b \in Blocks |->
                                     @[b] \cup {r \in roots : b \in reached[r]}],
                 !.failures = @ (+) report]

NoteBlockRoot(t, root, b) == AssociateRoots(t, {root}, {b})

RememberChildren(t, b, children) ==
    AssociateRoots([t EXCEPT !.discovered_children[b] = children],
                   t.block_roots[b], children)

\* record for each of these blocks.
RecordEach(t, blocks, operation) ==
    [t EXCEPT !.failure_templates = [b \in Blocks |->
                  IF b \in blocks THEN @[b] (+) SetToBag({operation}) ELSE @[b]],
              !.failures = @ (+) SetToBag(
                  {f \in [root : Blocks, id : blocks, operation : {operation}] :
                      f.root \in t.block_roots[f.id]})]

Record(t, b, operation) == RecordEach(t, {b}, operation)

RecordStoreFailure(t, roots, operation) ==
    [t EXCEPT !.failures = @ (+) SetToBag({Failure(r, DestinationStore, operation) : r \in roots})]

\* How often an entry appears in a list.
Occurrences(e, list) == IF BagIn(e, list) THEN list[e] ELSE 0

\* count_failed_blocks
FailedIds(t) == {f.id : f \in DOMAIN t.failures}

\* The report owes one failure per recorded operation and associated root, and
\* an association reaches every known child.
Attributed(t) ==
    /\ \A r, b \in Blocks, o \in Operations :
          Occurrences(Failure(r, b, o), t.failures) =
             IF r \in t.block_roots[b] THEN Occurrences(o, t.failure_templates[b]) ELSE 0
    /\ \A b \in Blocks : \A c \in t.discovered_children[b] :
          t.block_roots[b] \subseteq t.block_roots[c]

=============================================================================
