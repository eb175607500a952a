\* Three starts over two workspaces, against a retention limit of two: the lease alone
\* does not serialise them, and a result may be claimed by two readers.
\* No symmetry: the run also checks liveness.
CONSTANTS
  JobId = {j1, j2, j3}
  NoJob = NoJob
  Client = {c1, c2}
  Workspace = {w1, w2}
  MaxRetained = 2
  MaxQueued = 1
  MaxDoubtful = 1
SPECIFICATION FairSpec
INVARIANTS
  OneExecution
  LeaseMatchesExecution
  NoRunOverPendingRecords
  MutationsReported
  AcceptedCancelWins
  UsageLinesAccounted
PROPERTIES
  NoSteeringDiscardedByAnswer
  PruneKeepsNewest
  SlotFreedAgain
CHECK_DEADLOCK FALSE
