------------------------------ MODULE MCUpload ------------------------------
(* An upload beside a magic send, for TLC. *)
EXTENDS Upload

=============================================================================
