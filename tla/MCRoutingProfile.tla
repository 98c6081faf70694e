-------------------------- MODULE MCRoutingProfile --------------------------
(***************************************************************************)
(* Two GPUs of three experts in four lanes: a padding lane of the first    *)
(* GPU names the second's first expert, which the selections include.      *)
(***************************************************************************)
EXTENDS RoutingProfile, TLC

MCSelections == {{0, 2, 5}, {2, 3, 4}}

LayerSymmetry == Permutations(Layers)

=============================================================================
