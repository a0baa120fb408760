---------------------------- MODULE MCLayerPage ----------------------------
(* Small instances of LayerPage for TLC. *)
EXTENDS LayerPage, TLC

Symmetry == Permutations(Tasks)

=============================================================================
