------------------------- MODULE MCHistoryMigration -------------------------
(* Two short tables, with rows known by their task, by their start, and by *)
(* neither, for TLC.                                                       *)
EXTENDS HistoryMigration, TLC

MCSymmetry == Permutations(Tasks)

=============================================================================
