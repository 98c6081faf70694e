---------------------------- MODULE MCPatchTool ----------------------------
(***************************************************************************)
(* Two files stand for the seven of vLLM and the six of FlashInfer: one    *)
(* with two different edits, one whose single edit is listed twice because *)
(* its anchor occurs twice (kv_cache_io.cuh).  For FlashInfer the first    *)
(* file also has the edit that only cuts a line out.                       *)
(***************************************************************************)
EXTENDS PatchTool

CONSTANTS swap, other, cut, twin

Vllm(modes) ==
    [edits |-> << <<swap, other>>, <<twin>> >>, oldFirst |-> FALSE, modes |-> modes]

FlashInfer(modes) ==
    [edits |-> << <<swap, cut>>, <<twin, twin>> >>, oldFirst |-> TRUE, modes |-> modes]

MCKind == [k \in {swap, other, cut, twin} |->
             IF k = cut THEN "cut" ELSE "replace"]

AllModes == {"apply", "revert", "check"}

\* FlashInfer's --revert is the subject of a run of its own.
BothScripts == {Vllm(AllModes), FlashInfer(AllModes \ {"revert"})}

FlashInferScript == {FlashInfer(AllModes)}

=============================================================================
