\* Two runs after an earlier installation, so that pruning has a generation to remove,
\* and two texts the user saves.
CONSTANTS
  Earlier = 1
  MaxRuns = 3
  Edits = {e1, e2}
  First = first
  Blank = blank
  NoFile = NoFile
SPECIFICATION Spec
SYMMETRY EditSymmetry
INVARIANTS
  NoEditLost
  RegisteredGenerationExists
  RecoveryIsKept
CHECK_DEADLOCK FALSE
