----------------------------- MODULE MCDownload -----------------------------
(***************************************************************************)
(* The index, another small file and two shards, which the mirrors serve   *)
(* from different uploads; ModelScope lists the hash of one.               *)
(***************************************************************************)
EXTENDS Download

CONSTANTS config, index, first, second

=============================================================================
