---------------------------- MODULE MCLayerPager ----------------------------
(* Small instances of LayerPager for TLC. *)
EXTENDS LayerPager

CONSTANT hot

(* The pinned tensor is the small one. *)
Sizes == [x \in Tensors |-> IF x = hot THEN 1 ELSE 2]
=============================================================================
