\* What the installer says of newer edits, against the forced restore of a begin
\* that failed after its commit.
CONSTANTS
  Earlier = 0
  MaxRuns = 1
  Edits = {e1, e2}
  First = first
  Blank = blank
  NoFile = NoFile
SPECIFICATION Spec
SYMMETRY EditSymmetry
INVARIANTS
  NewerEditsSurvive
CHECK_DEADLOCK FALSE
