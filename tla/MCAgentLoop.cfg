\* Three turns let a run be steered, retried and still answer; batches of one to
\* three calls against a limit of two per turn and three per run.  The third request
\* meets the token budget exactly, fits or does not, depending on whether and how
\* much usage the provider reports.  A run may end at any moment, so there is no
\* deadlock to look for.
CONSTANTS
  MaxTurns = 3
  MaxCallsPerTurn = 2
  MaxCallsPerRun = 3
  MaxRecords = 3
  MaxTokens = 16
  MaxOutput = 2
  MaxHistory = 8
  MaxQueued = 2
  MaxSent = 2
  Batches = {0, 1, 2, 3}
  Overruns = {0, 1}
  UsageReported = {TRUE, FALSE}
SPECIFICATION Spec
INVARIANTS
  RequestsWellFormed
  PlanIsCurrent
  AnswerSawAllSteering
  CancelStopsTools
PROPERTIES
  ThreadContract
  ReservationSuffices
CHECK_DEADLOCK FALSE
