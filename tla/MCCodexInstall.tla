--------------------------- MODULE MCCodexInstall ---------------------------
(* TLC instance of CodexInstall.                                            *)
EXTENDS CodexInstall, TLC

EditSymmetry == Permutations(Edits)
=============================================================================
