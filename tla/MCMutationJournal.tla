------------------------- MODULE MCMutationJournal -------------------------
(* TLC instance of MutationJournal.                                         *)
EXTENDS MutationJournal, TLC

TxSymmetry == Permutations(Tx)
=============================================================================
