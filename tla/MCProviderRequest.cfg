\* The retries of the source.  A call may end in any way and nothing follows it.
CONSTANTS
  ApiRetries = 2
  ClientRetries = 1
SPECIFICATION FairSpec
INVARIANTS
  NoChildLeftBehind
PROPERTIES
  CancelWindsUp
CHECK_DEADLOCK FALSE
