---------------------------- MODULE MCNumaProbe ----------------------------
(***************************************************************************)
(* Three GPUs: one can be ready, one fail and one hang while main() spawns *)
(* or waits, in both placements.                                           *)
(***************************************************************************)
EXTENDS NumaProbe

=============================================================================
