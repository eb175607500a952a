-------------------------- MODULE MCWorkspaceLease --------------------------
(* TLC instance of WorkspaceLease.                                          *)
EXTENDS WorkspaceLease, TLC

LeaseSymmetry == Permutations(Server) \cup Permutations(Child)
=============================================================================
