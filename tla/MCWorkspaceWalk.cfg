\* Patterns of up to three parts; limits that a search of the tree may meet.
CONSTANTS
  a = a  b = b  h = h  g = g
  root = root  d1 = d1  d2 = d2  d3 = d3  d4 = d4  d5 = d5  d6 = d6  d7 = d7  d8 = d8  secret = secret
  f1 = f1  f2 = f2  f3 = f3  l1 = l1
  Name = {a, b, h, g}
  Hidden = {h, g}
  Pruned = {b}
  Protected = {g}
  Dir = {root, d1, d2, d3, d4, d5, d6, d7, d8, secret}
  Regular = {f1, f2, f3}
  Link = {l1}
  Target <- Links
  Outside = {secret}
  Root = root
  None = none
  Tree <- WorkspaceTree
  Bases <- Starts
  Part <- GlobParts
  DoubleStar = DoubleStar
  Busy = {d1}
  MaxParts = 3
  MaxChanges = 1
  MaxEntries = 7
  MaxDirectories = 3
  MaxDepth = 2
SPECIFICATION WalkSpec
INVARIANTS
  SearchIsComplete
  FindsOnlyMatches
  NoDescriptorLeft
CHECK_DEADLOCK FALSE
