--------------------------- MODULE MCWorkspaceWalk ---------------------------
(* TLC instance of WorkspaceWalk: a plain directory with a file of a pruned  *)
(* name and a directory; a pruned directory at the top of a chain that runs  *)
(* into the limits; a hidden directory with a protected file.  A directory,  *)
(* a file and a link wait to be moved in.                                    *)
EXTENDS WorkspaceWalk, TLC

CONSTANTS a, b, h, g, root, d1, d2, d3, d4, d5, d6, d7, d8, f1, f2, f3, l1, secret

Empty == [n \in {a, b, h, g} |-> None]
WorkspaceTree ==
  root :> [Empty EXCEPT ![a] = d1, ![b] = d2, ![h] = d3] @@
  d1 :> [Empty EXCEPT ![a] = d4, ![b] = f2] @@
  d4 :> [Empty EXCEPT ![a] = f1] @@
  d2 :> [Empty EXCEPT ![a] = d6] @@
  d6 :> [Empty EXCEPT ![a] = d7] @@
  d7 :> [Empty EXCEPT ![a] = d8] @@
  d8 :> Empty @@
  d3 :> [Empty EXCEPT ![g] = f1] @@
  d5 :> [Empty EXCEPT ![h] = f1] @@
  secret :> [Empty EXCEPT ![a] = f1]

Links     == l1 :> secret
Star      == [names |-> {a, b, h, g}, dot |-> FALSE]
DotStar   == [names |-> {h, g}, dot |-> TRUE]
Only(n)   == [names |-> {n}, dot |-> FALSE]
GlobParts == {Star, DotStar, Only(a), Only(b)}
Starts    == {<<>>, <<b>>}
=============================================================================
