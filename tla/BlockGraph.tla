----------------------------- MODULE BlockGraph -----------------------------
(***************************************************************************)
(* What a rooted copy walks: the blocks of the source store, the requested *)
(* roots and the children that each block names.  Both copies, and the     *)
(* failure tracker that they share, are about this graph.                  *)
(***************************************************************************)
EXTENDS Sequences

CONSTANTS
    Blocks,             \* block hashes
    RootIds,            \* the requested roots, in request order
    Children            \* the child ids that decoding a block yields, in order

ASSUME GraphAssumption ==
    /\ RootIds \in Seq(Blocks)
    /\ Children \in [Blocks -> Seq(Blocks)]

=============================================================================
