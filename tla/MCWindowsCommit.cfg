\* Three versions by the editor, in place, through an old handle or by rename, the last of
\* them too large for the tool to read.
CONSTANTS
  File = {f0, f1, f2, f3}
  FirstFile = f0
  Ours = ours
  NoFile = nofile
  Edits = {e1, e2, e3}
  Large = {e3}
  Original = original
  Replacement = replacement
  Partial = partial
  NoVersion = noversion
SPECIFICATION Spec
SYMMETRY EditorSymmetry
INVARIANTS
  NoSavedDataLost
  FailureRestores
  SuccessReplacedBaseline
  RetainedDataIsNamed
CHECK_DEADLOCK FALSE
