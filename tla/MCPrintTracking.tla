--------------------------- MODULE MCPrintTracking ---------------------------
(* Small instances of PrintTracking for TLC. *)
EXTENDS PrintTracking, TLC

Symmetry == Permutations(Tasks)

=============================================================================
