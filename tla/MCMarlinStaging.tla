-------------------------- MODULE MCMarlinStaging --------------------------
(***************************************************************************)
(* The gate/up and the down matrix of one offloaded layer, the first twice *)
(* the second's size; one batch below and one at the staging threshold;    *)
(* two streams, which are interchangeable.                                 *)
(***************************************************************************)
EXTENDS MarlinStaging, TLC

CONSTANTS main, aux, w13, w2

MCWeight == {w13, w2}

MCSize == [w \in MCWeight |-> IF w = w13 THEN 2 ELSE 1]

Streams == Permutations({main, aux})

MCTokens == {1, 2}

=============================================================================
