----------------------------- MODULE MCArchiver -----------------------------
(* Small instances of Archiver for TLC. *)
EXTENDS Archiver, TLC

Symmetry == Permutations(Tasks)

=============================================================================
