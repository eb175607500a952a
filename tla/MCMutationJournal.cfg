\* Three mutation calls, in one run or in several, and a journal of two records.
CONSTANTS
  Tx = {t1, t2, t3}
  NoTx = NoTx
  User = User
  MaxRecords = 2
SPECIFICATION Spec
SYMMETRY TxSymmetry
INVARIANTS
  EffectiveIsJournaled
  RunSeesOwnRecordsOnly
  GoesOnOnlyPastCommitted
  RunReportsMutations
  CommittedIsTrue
PROPERTIES
  AckedIsFinal
CHECK_DEADLOCK FALSE
