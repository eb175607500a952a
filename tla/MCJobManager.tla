---------------------------- MODULE MCJobManager ----------------------------
(* TLC instance of JobManager.                                              *)
EXTENDS JobManager, TLC
=============================================================================
