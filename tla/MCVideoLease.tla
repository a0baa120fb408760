---------------------------- MODULE MCVideoLease ----------------------------
(* Small instances of VideoLease for TLC. *)
EXTENDS VideoLease, TLC

Symmetry == Permutations(Viewers) \union Permutations(Tasks)

=============================================================================
