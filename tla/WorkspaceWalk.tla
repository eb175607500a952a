---------------------------- MODULE WorkspaceWalk ----------------------------
(***************************************************************************)
(* The walk behind Glob and Grep (workspace_walk.WorkspaceWalk with          *)
(* walk_support), on a system with directory descriptors: one depth-first    *)
(* search of a tree the user may be changing, that matches paths by a set of *)
(* pattern positions, opens what it meets relative to an open directory, and *)
(* stops at limits on entries, directories, depth and time.                  *)
(*                                                                         *)
(* A name is a model value of one of the kinds the code tells apart: hidden  *)
(* (.x), pruned (build, node_modules, __pycache__), protected (.git and the  *)
(* like).  A part of a pattern is "**" or the names fnmatch lets it match.   *)
(***************************************************************************)
EXTENDS Naturals, FiniteSets, Sequences, SequencesExt

CONSTANTS
  Name, Hidden, Pruned, Protected,
  Dir, Regular, Link,   \* inodes by type
  Target,               \* what a link leads to
  Outside,              \* inodes of no workspace, reached by following links only
  Root, None,
  Tree,                 \* the workspace at the start: [Dir -> [Name -> Node or None]]
  Bases,                \* directories a search starts from, as paths
  Part, DoubleStar,     \* parts of patterns: [names, dot] or DoubleStar
  MaxParts,             \* the longest pattern searched with (a bound on the model)
  Busy,                 \* directories the user changes (a bound on the behaviour)
  MaxChanges,           \* changes of the tree (a bound on the behaviour)
  MaxEntries, MaxDirectories, MaxDepth

Node == Dir \cup Regular \cup Link

ASSUME WalkAssumption ==
  /\ Hidden \subseteq Name /\ Pruned \subseteq Name /\ Protected \subseteq Name
  /\ Dir \cap Regular = {} /\ Dir \cap Link = {} /\ Regular \cap Link = {}
  /\ Root \in Dir \ Outside /\ None \notin Node /\ Outside \subseteq Node
  /\ Busy \subseteq Dir \ Outside
  /\ Tree \in [Dir -> [Name -> Node \cup {None}]]
  /\ \A d \in Dir \ Outside, n \in Name : Tree[d][n] \notin Outside
  /\ Target \in [Link -> Outside]
  /\ Bases \subseteq Seq(Name)
  /\ \A p \in Part : p.names \subseteq Name /\ p.dot \in BOOLEAN
  /\ MaxParts \in Nat /\ MaxChanges \in Nat
  /\ MaxDepth \in Nat /\ MaxEntries \in Nat /\ MaxDirectories \in Nat

VARIABLES
  tree,       \* the directories: what each name links to
  changes,    \* changes made so far
  parts,      \* the pattern
  base,       \* the path the search starts from
  openFiles,  \* Grep reads what it finds, Glob does not
  pc,
  fds,        \* open descriptors: [descriptor -> inode]
  stack,      \* directories on the way down, the deepest last
  entry,      \* the entry at hand
  fresh,      \* its descriptor, 0 when it has none
  entries, directories, truncated,
  found,      \* what was yielded
  outcome     \* how the search ended

walkVars == <<tree, changes, parts, base, openFiles, pc, fds, stack, entry, fresh, entries,
              directories, truncated, found, outcome>>
request == <<parts, base, openFiles>>
world   == <<tree, changes>>
counts  == <<entries, directories, truncated>>

Pattern == UNION {[1 .. k -> Part \cup {DoubleStar}] : k \in 1 .. MaxParts}
NoEntry == [path |-> <<>>, node |-> None, states |-> {}]
Top     == stack[Len(stack)]

WalkInit ==
  /\ tree = Tree /\ changes = 0
  /\ parts \in Pattern
  /\ base \in Bases /\ openFiles \in BOOLEAN
  /\ pc = "openRoot" /\ fds = <<>> /\ stack = <<>> /\ entry = NoEntry /\ fresh = 0
  /\ entries = 0 /\ directories = 0 /\ truncated = FALSE
  /\ found = {} /\ outcome = "none"

-----------------------------------------------------------------------------
(* _GlobPattern: a state i says that the first i parts are matched.          *)
SegmentMatches(name, part) == name \in part.names /\ (name \in Hidden => part.dot)

Closure(states) ==
  {j \in 0 .. Len(parts) : \E i \in states :
     i <= j /\ \A k \in i + 1 .. j : parts[k] = DoubleStar}

Advance(states, name, prune) ==
  LET stay == {i \in states : i < Len(parts) /\ parts[i + 1] = DoubleStar
                              /\ name \notin Hidden /\ ~prune}
      step == {i + 1 : i \in {j \in states : j < Len(parts) /\ parts[j + 1] # DoubleStar
                                             /\ SegmentMatches(name, parts[j + 1])}}
  IN  Closure(stay \cup step)

InitialStates      == Closure({0})
IsMatch(states)    == Len(parts) \in states
CanDescend(states) == \E i \in states : i < Len(parts)

-----------------------------------------------------------------------------
(* Descriptors.                                                              *)
NewFd == CHOOSE d \in 1 .. Cardinality(DOMAIN fds) + 1 :
           d \notin DOMAIN fds /\ \A e \in 1 .. d - 1 : e \in DOMAIN fds
Opened(node) == [d \in DOMAIN fds \cup {NewFd} |-> IF d = NewFd THEN node ELSE fds[d]]
Closed(gone) == [d \in DOMAIN fds \ gone |-> fds[d]]

(* openat with O_NOFOLLOW: what a name leads to at this moment.              *)
At(directory, name) == tree[directory][name]

Ends(how) == pc' = "finally" /\ outcome' = how
Loops     == pc' = "loop" /\ entry' = NoEntry /\ fresh' = 0

-----------------------------------------------------------------------------
(* _open_base, one component at a time.  Its errors close the descriptor;    *)
(* require_workspace_stat raises another kind of error, and does not.        *)
OpenRoot ==
  /\ pc = "openRoot"
  /\ \/ fresh' = NewFd /\ fds' = Opened(Root) /\ pc' = "openBase" /\ UNCHANGED outcome
     \/ Ends("error") /\ UNCHANGED <<fds, fresh>>
     \/ Ends("moved") /\ fds' = Opened(Root) /\ UNCHANGED fresh
  /\ UNCHANGED <<request, world, counts, stack, entry, found>>

OpenBase ==
  /\ pc = "openBase"
  /\ LET done == Len(entry.path)
         next == IF done < Len(base) THEN At(fds[fresh], base[done + 1]) ELSE None
     IN  \/ /\ done = Len(base)
            /\ pc' = "scan"
            /\ entry' = [NoEntry EXCEPT !.node = fds[fresh], !.states = InitialStates]
            /\ UNCHANGED <<fds, fresh, outcome>>
         \/ /\ done < Len(base) /\ next \in Dir
            /\ fds' = [fds EXCEPT ![fresh] = next]
            /\ entry' = [entry EXCEPT !.path = SubSeq(base, 1, done + 1)]
            /\ UNCHANGED <<pc, fresh, outcome>>
         \/ /\ done < Len(base)
            /\ Ends("error") /\ fds' = Closed({fresh}) /\ fresh' = 0
            /\ UNCHANGED entry
  /\ UNCHANGED <<request, world, counts, stack, found>>

(* _new_frame: the descriptor of a directory becomes a frame, or is closed;  *)
(* a directory that was removed is skipped.                                  *)
Frame == [fd |-> fresh, path |-> entry.path, states |-> entry.states,
          todo |-> {n \in Name : tree[fds[fresh]][n] # None}]
Matched == stack # <<>> /\ IsMatch(entry.states)
NewFrame ==
  /\ pc = "scan"
  /\ \/ /\ stack' = Append(stack, Frame)
        /\ directories' = directories + 1
        /\ fresh' = 0
        /\ IF Matched THEN pc' = "yield" /\ UNCHANGED entry
                      ELSE pc' = "loop" /\ entry' = NoEntry
        /\ UNCHANGED <<fds, outcome>>
     \/ /\ fds' = Closed({fresh}) /\ fresh' = 0
        /\ \/ Ends("error") /\ UNCHANGED entry
           \/ /\ stack # <<>> /\ changes > 0
              /\ IF Matched THEN pc' = "yield" /\ UNCHANGED entry
                            ELSE pc' = "loop" /\ entry' = NoEntry
              /\ UNCHANGED outcome
        /\ UNCHANGED <<stack, directories>>
  /\ UNCHANGED <<request, world, entries, truncated, found>>

(* The loop of _walk: the budget, then the next entry of the deepest frame.  *)
(* The deadline may have passed at any of its checks.                        *)
Exhausted == entries >= MaxEntries

StopAtBudget ==
  /\ pc = "loop" /\ stack # <<>>
  /\ truncated' = TRUE
  /\ Ends("ended")
  /\ UNCHANGED <<request, world, entries, directories, fds, stack, entry, fresh, found>>

WalkEnds ==
  /\ pc = "loop" /\ stack = <<>>
  /\ Ends("ended")
  /\ UNCHANGED <<request, world, counts, fds, stack, entry, fresh, found>>

NextEntry(name) ==
  /\ pc = "loop" /\ stack # <<>> /\ ~Exhausted
  /\ name \in Top.todo
  /\ stack' = [stack EXCEPT ![Len(stack)].todo = Top.todo \ {name}]
  /\ entries' = entries + 1
  /\ entry' = [path |-> Append(Top.path, name), node |-> None, states |-> {}]
  /\ pc' = "stat"
  /\ UNCHANGED <<request, world, directories, truncated, fds, fresh, found, outcome>>

(* The end of a directory, or an error of its iterator: the frame is closed. *)
PopFrame ==
  /\ pc = "loop" /\ stack # <<>> /\ ~Exhausted
  /\ \/ Top.todo = {} /\ UNCHANGED <<pc, outcome>>
     \/ Ends("error")
  /\ fds' = Closed({Top.fd})
  /\ stack' = Front(stack)
  /\ UNCHANGED <<request, world, counts, entry, fresh, found>>

-----------------------------------------------------------------------------
(* _inspect_entry: lstat relative to the frame, the pattern, protection.     *)
Here == Last(entry.path)
Mut_PrunesFiles(node) == Advance(Top.states, Here, Here \in Pruned)
StatesOf(node) ==
  Advance(Top.states, Here, node \in Dir /\ Here \in Pruned)

Skips(node) ==
  \/ node \in Link \cup {None}
  \/ StatesOf(node) = {}
  \/ Here \in Protected

SkipEntry ==
  /\ pc = "stat"
  /\ Skips(At(fds[Top.fd], Here))
  /\ Loops
  /\ UNCHANGED <<request, world, counts, fds, stack, found, outcome>>

AtLimit == Len(Top.path) >= MaxDepth \/ directories >= MaxDirectories
(* _matched_entry and _child_frame up to the first open.                     *)
InspectEntry ==
  /\ pc = "stat"
  /\ LET node   == At(fds[Top.fd], Here)
         states == StatesOf(node)
         descend == node \in Dir /\ CanDescend(states)
     IN  /\ ~Skips(node)
         /\ entry' = [entry EXCEPT !.node = node, !.states = states]
         /\ pc' = CASE node \in Regular /\ IsMatch(states) /\ openFiles -> "openFile"
                    [] descend /\ ~AtLimit -> "openChild"
                    [] OTHER -> IF IsMatch(states) THEN "yield" ELSE "skip"
         /\ truncated' = (truncated \/ (descend /\ AtLimit))
  /\ UNCHANGED <<request, world, entries, directories, fds, stack, fresh, found, outcome>>

PassEntry ==
  /\ pc = "skip"
  /\ Loops
  /\ UNCHANGED <<request, world, counts, fds, stack, found, outcome>>

(* Any error but those of an entry that went away or turned into a link.     *)
StatFails ==
  /\ pc \in {"stat", "openFile", "openChild"}
  /\ Ends("error")
  /\ UNCHANGED <<request, world, counts, fds, stack, entry, fresh, found>>

(* _open_regular_at and _open_child: the open and the comparison with what   *)
(* lstat saw; a different file is closed again and skipped.                  *)
Mut_SameTypeOnly(node, type) == node \in type
SameFile(node, type) == node \in type /\ node = entry.node

OpenFile ==
  /\ pc = "openFile"
  /\ LET node == At(fds[Top.fd], Here)
     IN  IF SameFile(node, Regular)
           THEN fds' = Opened(node) /\ fresh' = NewFd /\ pc' = "yield" /\ UNCHANGED entry
           ELSE Loops /\ UNCHANGED fds
  /\ UNCHANGED <<request, world, counts, stack, found, outcome>>

OpenChild ==
  /\ pc = "openChild"
  /\ LET node == At(fds[Top.fd], Here)
     IN  IF SameFile(node, Dir)
           THEN fds' = Opened(node) /\ fresh' = NewFd /\ pc' = "scan"
           ELSE /\ pc' = IF IsMatch(entry.states) THEN "yield" ELSE "skip"
                /\ UNCHANGED <<fds, fresh>>
  /\ UNCHANGED <<request, world, counts, stack, entry, found, outcome>>

(* yield_entry: the consumer takes the entry and comes back, or has enough   *)
(* and closes the walk.  Either way the entry's descriptor is closed.        *)
Taken == found' = found \cup {[path |-> entry.path, node |-> entry.node]}
Mut_ForgetsEntryOnClose ==
  /\ pc = "yield"
  /\ Taken
  /\ \/ Loops /\ fds' = Closed({fresh}) /\ UNCHANGED outcome
     \/ Ends("closed") /\ UNCHANGED <<fds, entry, fresh>>
  /\ UNCHANGED <<request, world, counts, stack>>
YieldEntry ==
  /\ pc = "yield"
  /\ Taken
  /\ fds' = Closed({fresh})
  /\ \/ Loops /\ UNCHANGED outcome
     \/ Ends("closed") /\ fresh' = 0 /\ UNCHANGED entry
  /\ UNCHANGED <<request, world, counts, stack>>

(* The finally clause of _walk: close_frames.                                *)
CloseFrames ==
  /\ pc = "finally"
  /\ pc' = "done"
  /\ fds' = Closed({stack[i].fd : i \in 1 .. Len(stack)})
  /\ stack' = <<>> /\ entry' = NoEntry
  /\ UNCHANGED <<request, world, counts, fresh, found, outcome>>

-----------------------------------------------------------------------------
(* The user removes an entry or puts a file, directory or link there that    *)
(* is linked nowhere.                                                        *)
Linked == {Root} \cup {tree[d][n] : d \in Dir, n \in Name}
Change(directory, name, node) ==
  /\ changes < MaxChanges
  /\ pc \notin {"finally", "done"}
  /\ tree[directory][name] # node
  /\ changes' = changes + 1
  /\ tree' = [tree EXCEPT ![directory][name] = node]
  /\ UNCHANGED <<request, counts, pc, fds, stack, entry, fresh, found, outcome>>

Walk ==
  \/ OpenRoot \/ OpenBase \/ NewFrame \/ StopAtBudget \/ WalkEnds
  \/ \E name \in Name : NextEntry(name)
  \/ PopFrame \/ SkipEntry \/ InspectEntry \/ PassEntry \/ StatFails
  \/ OpenFile \/ OpenChild \/ YieldEntry \/ CloseFrames

WalkNext ==
  \/ Walk
  \/ \E d \in Busy, n \in Name, x \in (Node \ (Linked \cup Outside)) \cup {None} :
       Change(d, n, x)

WalkSpec == WalkInit /\ [][WalkNext]_walkVars

-----------------------------------------------------------------------------
WalkTypeOK ==
  /\ tree \in [Dir -> [Name -> Node \cup {None}]] /\ changes \in 0 .. MaxChanges
  /\ parts \in Pattern /\ base \in Seq(Name) /\ openFiles \in BOOLEAN
  /\ DOMAIN fds \subseteq Nat \ {0} /\ fds \in [DOMAIN fds -> Dir \cup Regular]
  /\ fresh \in DOMAIN fds \cup {0}
  /\ stack \in Seq([fd : DOMAIN fds, path : Seq(Name), states : SUBSET (0 .. Len(parts)),
                    todo : SUBSET Name])
  /\ \A i \in 1 .. Len(stack) : fds[stack[i].fd] \in Dir
  /\ entry \in [path : Seq(Name), node : Node \cup {None}, states : SUBSET (0 .. Len(parts))]
  /\ entries \in Nat /\ directories \in Nat /\ truncated \in BOOLEAN
  /\ found \subseteq [path : Seq(Name), node : Dir \cup Regular]
  /\ pc \in {"openRoot", "openBase", "scan", "loop", "stat", "skip", "openFile",
             "openChild", "yield", "finally", "done"}
  /\ outcome \in {"none", "ended", "error", "moved", "closed"}

(* What a pattern means, without its positions: its parts cover the path one *)
(* after the other, "**" any number of components that are neither hidden    *)
(* nor pruned directories, any other part exactly one that it matches.       *)
Cover(path, last) ==
  {f \in [0 .. Len(parts) -> 0 .. Len(path)] :
     /\ f[0] = 0 /\ f[Len(parts)] = Len(path)
     /\ \A i \in 1 .. Len(parts) :
          IF parts[i] = DoubleStar
            THEN /\ f[i - 1] <= f[i]
                 /\ \A k \in f[i - 1] + 1 .. f[i] :
                      /\ path[k] \notin Hidden
                      /\ path[k] \in Pruned => k = Len(path) /\ last \notin Dir
            ELSE f[i] = f[i - 1] + 1 /\ SegmentMatches(path[f[i]], parts[i])}
Matches(path, last) == Cover(path, last) # {}

(* The entries below the base: no links, nothing protected on the way.       *)
NodeAt(path) ==
  LET node[i \in 0 .. Len(path)] ==
        IF i = 0 THEN Root
        ELSE IF node[i - 1] \in Dir THEN tree[node[i - 1]][path[i]] ELSE None
  IN  node[Len(path)]
Paths == UNION {[1 .. k -> Name \ Protected] : k \in 1 .. MaxDepth + 1}
Present == {p \in Paths : NodeAt(base \o p) \in Dir \cup Regular}
Expected == {p \in Present : Matches(p, NodeAt(base \o p))}

(* A search that ends without saying that it was cut short, in a tree nobody *)
(* changed, has found exactly the entries the pattern describes.             *)
SearchIsComplete ==
  pc = "done" /\ outcome = "ended" /\ ~truncated /\ changes = 0 =>
    {e.path : e \in found} = Expected

(* Whatever the user changes meanwhile: each entry found matches the         *)
(* pattern and was no link, and the descriptor handed out with a file is     *)
(* that of the file that was found; nothing outside the workspace is opened. *)
FindsOnlyMatches ==
  /\ \A e \in found : e.node \in Dir \cup Regular /\ Matches(e.path, e.node)
  /\ pc = "yield" /\ fresh # 0 => fds[fresh] = entry.node
  /\ \A d \in DOMAIN fds : fds[d] \notin Outside

(* No way out of a search leaves a descriptor open: its end, a limit, an     *)
(* error, a consumer that has enough.  A workspace replaced before its       *)
(* descriptor is checked is the exception (see OpenRoot).                    *)
NoDescriptorLeft == pc = "done" /\ outcome # "moved" => DOMAIN fds = {}
=============================================================================
