--------------------------- MODULE MCWindowsCommit ---------------------------
(* TLC instance of WindowsCommit.                                           *)
EXTENDS WindowsCommit, TLC

EditorSymmetry == Permutations(File \ {FirstFile}) \cup Permutations(Edits \ Large)
=============================================================================
