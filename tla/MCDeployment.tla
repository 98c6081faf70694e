---------------------------- MODULE MCDeployment ----------------------------
(***************************************************************************)
(* Two edits of vLLM, one of them with a marker preflight asks for, and    *)
(* two of FlashInfer: FI-001, whose stock text it refuses, and one whose   *)
(* new text it asks for, for FI-004 always and for FI-003 with images.     *)
(***************************************************************************)
EXTENDS Deployment

CONSTANTS attention, indexer, decode, gather

MCVllmEdits == {attention, indexer}

MCFlashInferEdits == {decode, gather}

=============================================================================
