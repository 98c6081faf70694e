---------------------------- MODULE MCNullBlock ----------------------------
(***************************************************************************)
(* One buffer under three views.  The compressor's state ring lies over    *)
(* the first row and one later row of the sliding-window cache, and the    *)
(* compressed cache has a part of the null block to itself.                *)
(***************************************************************************)
EXTENDS Probes

MCViews == {"swa", "ring", "compressed"}

MCBlock0 == [v \in MCViews |->
    CASE v = "swa" -> {1, 2}
      [] v = "ring" -> {1, 2, 3}
      [] v = "compressed" -> {3, 4}]

MCRow0 == [v \in MCViews |->
    CASE v = "swa" -> {1}
      [] v = "ring" -> {1, 2, 3}
      [] v = "compressed" -> {4}]

=============================================================================
