---------------------------- MODULE MCFilesPage ----------------------------
(* Small instances of FilesPage, with its FileCache, for TLC. *)
EXTENDS FilesPage, TLC

CONSTANTS c1, c2, c3

(* c2 has the size of c1, and c3 another. *)
MCContents == {c1, c2, c3}
MCSizeOf == c1 :> 1 @@ c2 :> 1 @@ c3 :> 2
Interchangeable == Permutations(Loads)

=============================================================================
