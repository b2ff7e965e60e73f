-------------------------------- MODULE MCSync --------------------------------
(***************************************************************************)
(* Sync for TLC: one mutation, sent alone or twice in a batch, with two    *)
(* requests that interleave at every database call.                        *)
(***************************************************************************)
EXTENDS Sync

CONSTANT j1

MCBatches == {<<j1>>, <<j1, j1>>}

=============================================================================
