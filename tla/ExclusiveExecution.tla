------------------------- MODULE ExclusiveExecution -------------------------
(***************************************************************************)
(* What the workspace lease promises, without locks or descriptors: the     *)
(* processes working in a workspace at any moment all descend from one       *)
(* process that entered while nobody was there.  Only a root enters, and a   *)
(* root is nobody's descendant.                                              *)
(***************************************************************************)
CONSTANTS Root, Descendant
VARIABLE members

Init == members = {}

Enter(r) == members = {} /\ members' = {r}
Fork(p, d) == p \in members /\ d \notin members /\ members' = members \cup {d}
Leave(p) == p \in members /\ members' = members \ {p}

Next ==
  \/ \E r \in Root : Enter(r)
  \/ \E p \in Root \cup Descendant :
       Leave(p) \/ \E d \in Descendant : Fork(p, d)

Spec == Init /\ [][Next]_members
=============================================================================
