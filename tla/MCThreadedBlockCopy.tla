------------------------ MODULE MCThreadedBlockCopy ------------------------
(***************************************************************************)
(* Small instances of ThreadedBlockCopy.  Two requested roots share a      *)
(* child, which one of them also reaches through a longer path.            *)
(***************************************************************************)
EXTENDS ThreadedBlockCopy, TLC

CONSTANTS r1, r2, a, b, w1, w2, v1, v2

MCRootIds  == <<r1, r2>>
MCChildren == (r1 :> <<a>>) @@ (r2 :> <<a, b>>) @@ (a :> <<b>>) @@ (b :> <<>>)
MClen == (r1 :> 1) @@ (r2 :> 1) @@ (a :> 2) @@ (b :> 3)

NoFaulty == [o \in Operations \ {"CompactDestinationStore"} |-> {}]
MCFaulty == [NoFaulty EXCEPT !["ReadSourceBlock"] = {b},
                             !["DecodeSourceBlock"] = {a},
                             !["WriteDestinationBlock"] = {a},
                             !["CheckDestinationBlock"] = {r1}]

\* One root with two children, for the runs in which threads also panic.
SmallRootIds  == <<r1>>
SmallChildren == (r1 :> <<a, b>>) @@ (a :> <<>>) @@ (b :> <<>>)
Smalllen == (r1 :> 1) @@ (a :> 2) @@ (b :> 3)

ThreadSymmetry == Permutations(Workers) \cup Permutations(Writers)

=============================================================================
