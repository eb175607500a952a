\* What the docstring of commit promises, when the editor saves a version the tool
\* cannot read back.
CONSTANTS
  File = {f0, f1, f2}
  FirstFile = f0
  Ours = ours
  NoFile = nofile
  Edits = {e1, e2}
  Large = {e2}
  Original = original
  Replacement = replacement
  Partial = partial
  NoVersion = noversion
SPECIFICATION Spec
SYMMETRY EditorSymmetry
INVARIANTS
  RestoresDisplacement
CHECK_DEADLOCK FALSE
