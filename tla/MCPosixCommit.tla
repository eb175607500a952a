--------------------------- MODULE MCPosixCommit ---------------------------
(* TLC instance of PosixCommit.                                             *)
EXTENDS PosixCommit, TLC

EditSymmetry == Permutations(Edits)
=============================================================================
