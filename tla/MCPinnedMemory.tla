--------------------------- MODULE MCPinnedMemory ---------------------------
(***************************************************************************)
(* Three weight buffers of different size; each slot can be allocated again, *)
(* so an allocation always meets the release of the other buffer or of its *)
(* own predecessor.                                                        *)
(***************************************************************************)
EXTENDS PinnedMemory

CONSTANTS small, medium, large

MCBuf == {small, medium, large}

MCPages == [b \in MCBuf |-> CASE b = small -> 1 [] b = medium -> 2 [] b = large -> 4]

=============================================================================
