----------------------------- MODULE MCIndexRun -----------------------------
(***************************************************************************)
(* Small instances of IndexRun.  A request of three items needs two        *)
(* batches; x is so large that it fits a first journal block but neither   *)
(* a block with a predecessor nor one it would share with another record.  *)
(***************************************************************************)
EXTENDS IndexRun, TLC

CONSTANTS x, y, z

MCRequests    == {<<y, z, y>>, <<z, x>>}
MCSortKey     == (x :> 1) @@ (y :> 2) @@ (z :> 3)
MCEncodedSize == (x :> 4) @@ (y :> 2) @@ (z :> 2)

=============================================================================
