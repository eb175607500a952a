\* Two versions by the editor, in place, through an old descriptor or by rename.
CONSTANTS
  File = {f0, f1, f2}
  FirstFile = f0
  Ours = ours
  NoFile = nofile
  Edits = {e1, e2}
  Original = original
  Replacement = replacement
  Partial = partial
  NoVersion = noversion
SPECIFICATION Spec
SYMMETRY EditSymmetry
INVARIANTS
  NoSavedDataLost
  FailureRestores
  SuccessReplacedBaseline
  RetainedDataIsNamed
CHECK_DEADLOCK FALSE
