\* The documented life of the lease against the host command of a Bash call.
CONSTANTS
  Server = {s1, s2}
  Child = {c1}
  NoChild = NoChild
SPECIFICATION Spec
SYMMETRY LeaseSymmetry
INVARIANTS
  LeaseCoversHostCommands
CHECK_DEADLOCK FALSE
