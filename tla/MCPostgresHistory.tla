-------------------------- MODULE MCPostgresHistory --------------------------
(* Small instances of PostgresHistory for TLC. *)
EXTENDS PostgresHistory

Symmetry == Permutations(Tasks)

=============================================================================
