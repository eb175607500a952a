\* Two servers and two tool calls, which may belong to different executions.
\* No symmetry: the run also checks liveness.
CONSTANTS
  Server = {s1, s2}
  Child = {c1, c2}
  NoChild = NoChild
SPECIFICATION FairSpec
INVARIANTS
  BashStatusMeansStopped
PROPERTIES
  ExclusiveSpec
  CrashFreesLease
CHECK_DEADLOCK FALSE
