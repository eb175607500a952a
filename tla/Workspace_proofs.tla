-------------------------- MODULE Workspace_proofs --------------------------
(***************************************************************************)
(* Proofs about the two protocols of a workspace, which share nothing else:  *)
(* WorkspaceLease (who may work in it), for every set of servers and tool    *)
(* children, and WorkspaceWalk (a search of it), for every tree, pattern and *)
(* limit.                                                                    *)
(***************************************************************************)
EXTENDS WorkspaceLease, WorkspaceWalk, FiniteSetTheorems, NaturalsInduction,
        WellFoundedInduction, TLAPS

(***************************************************************************)
(* The lease.                                                                *)
(***************************************************************************)
(* Which tool child a server supervises, and since when.                    *)
Supervising == {"calling", "terminating", "killing"}

SupervisionInv ==
  /\ \A s \in Server : srv[s] \in Supervising <=> current[s] \in Child
  /\ \A s \in Server : current[s] \in Child => child[current[s]] # "unused"

(* The open file description is shared by exactly the living members.       *)
HoldersInv ==
  /\ \A s \in Server : s \in lockHolders <=> Holding(s)
  /\ \A c \in Child : c \in lockHolders <=> Alive(c)

(* The answer is given where the command is stopped, and nothing starts one   *)
(* afterwards.                                                               *)
CommandInv ==
  \A c \in Child : answer[c] = "status" => ~command[c] /\ child[c] \in {"ending", "dead"}

LeaseInv == TypeOK /\ SupervisionInv /\ HoldersInv

-----------------------------------------------------------------------------
(* What the clean-up of a command leaves of it.                              *)
LEMMA CleanUpLeaves ==
  ASSUME NEW c \in Child, NEW stopped \in BOOLEAN, command \in [Child -> BOOLEAN],
         command' \in CommandAfterCleanup(c, stopped)
  PROVE  \E left \in BOOLEAN :
           command' = [command EXCEPT ![c] = left] /\ (stopped => left = FALSE)
<1>1. CASE stopped
  BY <1>1 DEF CommandAfterCleanup
<1>2. CASE ~stopped
  <2>1. PICK left \in {FALSE, command[c]} : command' = [command EXCEPT ![c] = left]
    BY <1>2 DEF CommandAfterCleanup
  <2>2. left \in BOOLEAN
    OBVIOUS
  <2> QED  BY <1>2, <2>1, <2>2
<1> QED  BY <1>1, <1>2

(* Every variable keeps its type; stepwise, with the supervision invariant   *)
(* that makes current[s] a child wherever the handlers index with it.        *)
LEMMA TypeStep == TypeOK /\ SupervisionInv /\ [Next]_vars => TypeOK' /\ SupervisionInv'
<1> USE LeaseAssumption DEF LeaseAssumption, TypeOK, SupervisionInv, Supervising,
        ServerStates, ChildStates, Answers
<1> SUFFICES ASSUME TypeOK, SupervisionInv, [Next]_vars
             PROVE  TypeOK' /\ SupervisionInv'
  OBVIOUS
<1>1. ASSUME NEW s \in Server, ServerStep(s) PROVE TypeOK' /\ SupervisionInv'
  <2>1. CASE AcquireLease(s)   BY <2>1 DEF AcquireLease
  <2>2. CASE ReceiveResult(s)  BY <2>2 DEF ReceiveResult
  <2>3. CASE TerminateTool(s)
    <3>1. AfterSigterm(child[current[s]]) \in ChildStates \ {"unused"}
      BY <2>3 DEF TerminateTool, AfterSigterm
    <3> QED  BY <2>3, <3>1 DEF TerminateTool, Sigterm
  <2>4. CASE KillTool(s)       BY <2>4 DEF KillTool
  <2>5. CASE EndStop(s)        BY <2>5 DEF EndStop
  <2>6. CASE ReleaseLease(s)   BY <2>6 DEF ReleaseLease, HoldersAfterRelease
  <2>7. CASE CrashServer(s)    BY <2>7 DEF CrashServer
  <2>8. CASE RestartServer(s)  BY <2>8 DEF RestartServer
  <2>9. ASSUME NEW c \in Child, StartTool(s, c) PROVE TypeOK' /\ SupervisionInv'
    BY <2>9 DEF StartTool, HoldersAfterSpawn
  <2> QED  BY <1>1, <2>1, <2>2, <2>3, <2>4, <2>5, <2>6, <2>7, <2>8, <2>9 DEF ServerStep
<1>2. ASSUME NEW c \in Child, ToolStep(c) PROVE TypeOK' /\ SupervisionInv'
  <2>1. CASE BecomeReady(c)     BY <2>1 DEF BecomeReady, ChildStep, Undecided
  <2>2. CASE FinishFileTool(c)  BY <2>2 DEF FinishFileTool, ChildStep, Undecided
  <2>3. CASE StartCommand(c)    BY <2>3 DEF StartCommand, ChildStep
  <2>4. CASE CommandStarted(c)  BY <2>4 DEF CommandStarted, ChildStep, Undecided
  <2>5. CASE StopWaiting(c)     BY <2>5 DEF StopWaiting, ChildStep, Undecided
  <2>6. ASSUME NEW stopped \in BOOLEAN, NEW captured \in BOOLEAN,
               CleanUpCommand(c, stopped, captured)
        PROVE  TypeOK' /\ SupervisionInv'
    <3>1. command' \in [Child -> BOOLEAN]
      <4>1. PICK left \in BOOLEAN : command' = [command EXCEPT ![c] = left]
        BY <2>6, CleanUpLeaves DEF CleanUpCommand
      <4> QED  BY <4>1
    <3> QED  BY <2>6, <3>1 DEF CleanUpCommand, ChildStep
  <2>7. CASE ExitChild(c)       BY <2>7 DEF ExitChild, ChildStep
  <2>8. CASE CommandExits(c)    BY <2>8 DEF CommandExits
  <2>9. CASE Expire(c)          BY <2>9 DEF Expire
  <2>10. CASE WatchdogFires(c)
    <3>1. AfterSigterm(child[c]) \in ChildStates \ {"unused"}
      BY <2>10 DEF WatchdogFires, AfterSigterm, Waking
    <3> QED  BY <2>10, <3>1 DEF WatchdogFires, Sigterm
  <2>11. CASE ForcedExit(c)     BY <2>11 DEF ForcedExit
  <2>12. CASE StartFails(c)     BY <2>12 DEF StartFails, ChildStep
  <2> QED  BY <1>2, <2>1, <2>2, <2>3, <2>4, <2>5, <2>6, <2>7, <2>8, <2>9, <2>10, <2>11, <2>12
           DEF ToolStep
<1>3. CASE UNCHANGED vars  BY <1>3 DEF vars
<1> QED  BY <1>1, <1>2, <1>3 DEF Next

(* The holders of the open file description stay the living members.        *)
LEMMA HoldersStep == LeaseInv /\ [Next]_vars => HoldersInv'
<1> USE LeaseAssumption DEF LeaseAssumption, LeaseInv, TypeOK, SupervisionInv, Supervising,
        HoldersInv, Holding, Alive, ServerStates, ChildStates
<1> SUFFICES ASSUME LeaseInv, [Next]_vars PROVE HoldersInv'
  OBVIOUS
<1>1. ASSUME NEW s \in Server, ServerStep(s) PROVE HoldersInv'
  <2>1. CASE AcquireLease(s)   BY <2>1 DEF AcquireLease
  <2>2. CASE ReceiveResult(s)  BY <2>2 DEF ReceiveResult
  <2>3. CASE TerminateTool(s)
    <3>1. current[s] \in Child /\ child[current[s]] \notin {"unused", "dead"}
      BY <2>3 DEF TerminateTool
    <3>2. AfterSigterm(child[current[s]]) # "unused"
      BY <3>1 DEF AfterSigterm
    <3> QED  BY <2>3, <3>1, <3>2 DEF TerminateTool, Sigterm
  <2>4. CASE KillTool(s)       BY <2>4 DEF KillTool
  <2>5. CASE EndStop(s)        BY <2>5 DEF EndStop
  <2>6. CASE ReleaseLease(s)   BY <2>6 DEF ReleaseLease, HoldersAfterRelease
  <2>7. CASE CrashServer(s)    BY <2>7 DEF CrashServer
  <2>8. CASE RestartServer(s)  BY <2>8 DEF RestartServer
  <2>9. ASSUME NEW c \in Child, StartTool(s, c) PROVE HoldersInv'
    BY <2>9 DEF StartTool, HoldersAfterSpawn
  <2> QED  BY <1>1, <2>1, <2>2, <2>3, <2>4, <2>5, <2>6, <2>7, <2>8, <2>9 DEF ServerStep
<1>2. ASSUME NEW c \in Child, ToolStep(c) PROVE HoldersInv'
  <2>1. CASE BecomeReady(c)     BY <2>1 DEF BecomeReady, ChildStep, Undecided
  <2>2. CASE FinishFileTool(c)  BY <2>2 DEF FinishFileTool, ChildStep, Undecided
  <2>3. CASE StartCommand(c)    BY <2>3 DEF StartCommand, ChildStep
  <2>4. CASE CommandStarted(c)  BY <2>4 DEF CommandStarted, ChildStep, Undecided
  <2>5. CASE StopWaiting(c)     BY <2>5 DEF StopWaiting, ChildStep, Undecided
  <2>6. ASSUME NEW stopped \in BOOLEAN, NEW captured \in BOOLEAN,
               CleanUpCommand(c, stopped, captured)
        PROVE  HoldersInv'
    BY <2>6 DEF CleanUpCommand, ChildStep
  <2>7. CASE ExitChild(c)       BY <2>7 DEF ExitChild, ChildStep
  <2>8. CASE CommandExits(c)    BY <2>8 DEF CommandExits
  <2>9. CASE Expire(c)          BY <2>9 DEF Expire
  <2>10. CASE WatchdogFires(c)
    <3>1. AfterSigterm(child[c]) \notin {"unused", "dead"}
      BY <2>10 DEF WatchdogFires, AfterSigterm, Waking
    <3> QED  BY <2>10, <3>1 DEF WatchdogFires, Sigterm, Waking
  <2>11. CASE ForcedExit(c)     BY <2>11 DEF ForcedExit
  <2>12. CASE StartFails(c)     BY <2>12 DEF StartFails, ChildStep
  <2> QED  BY <1>2, <2>1, <2>2, <2>3, <2>4, <2>5, <2>6, <2>7, <2>8, <2>9, <2>10, <2>11, <2>12
           DEF ToolStep
<1>3. CASE UNCHANGED vars  BY <1>3 DEF vars
<1> QED  BY <1>1, <1>2, <1>3 DEF Next

(* The lease is held by exactly the living processes of the workspace.       *)
THEOREM LeaseInvariant == Spec => []LeaseInv
<1>1. Init => LeaseInv
  BY LeaseAssumption DEF LeaseAssumption, Init, LeaseInv, TypeOK, SupervisionInv,
     Supervising, HoldersInv, Holding, Alive, ServerStates, ChildStates, Answers
<1>2. LeaseInv /\ [Next]_vars => LeaseInv'
  BY TypeStep, HoldersStep DEF LeaseInv
<1> QED  BY <1>1, <1>2, PTL DEF Spec

(* Type correctness.                                                        *)
THEOREM TypeCorrect == Spec => []TypeOK
BY LeaseInvariant, PTL DEF LeaseInv

-----------------------------------------------------------------------------
(* The lease implements exclusive execution: an execution enters an empty    *)
(* workspace, and afterwards its processes only fork and leave.              *)
LEMMA MembersAreHolders == LeaseInv => Members = lockHolders
BY DEF LeaseInv, TypeOK, HoldersInv, Members

LEMMA ServerStepImplements ==
  ASSUME LeaseInv, LeaseInv', NEW s \in Server, ServerStep(s)
  PROVE  Exclusive!Next \/ UNCHANGED Members
<1> USE MembersAreHolders
<1>0. Members' = lockHolders'
  BY DEF LeaseInv, TypeOK, HoldersInv, Members
<1> USE DEF Exclusive!Next, Exclusive!Enter, Exclusive!Fork, Exclusive!Leave
<1>1. CASE AcquireLease(s)   BY <1>0, <1>1 DEF AcquireLease
<1>2. CASE ReceiveResult(s)  BY <1>0, <1>2 DEF ReceiveResult
<1>3. CASE TerminateTool(s)
  <2>1. current[s] \in Child
    BY <1>3 DEF TerminateTool, LeaseInv, SupervisionInv, Supervising
  <2>2. current[s] \in lockHolders
    BY <1>3, <2>1 DEF TerminateTool, LeaseInv, SupervisionInv, HoldersInv, Alive
  <2> QED  BY <1>0, <1>3, <2>1, <2>2 DEF TerminateTool, Sigterm
<1>4. CASE KillTool(s)       BY <1>0, <1>4 DEF KillTool
<1>5. CASE EndStop(s)        BY <1>0, <1>5 DEF EndStop
<1>6. CASE ReleaseLease(s)
  <2>1. s \in lockHolders
    BY <1>6 DEF ReleaseLease, LeaseInv, HoldersInv, Holding
  <2> QED  BY <1>0, <1>6, <2>1 DEF ReleaseLease, HoldersAfterRelease
<1>7. CASE CrashServer(s)
  <2>1. s \in lockHolders
    BY <1>7 DEF CrashServer, LeaseInv, HoldersInv
  <2> QED  BY <1>0, <1>7, <2>1 DEF CrashServer
<1>8. CASE RestartServer(s)  BY <1>0, <1>8 DEF RestartServer
<1>9. ASSUME NEW c \in Child, StartTool(s, c)
      PROVE  Exclusive!Next \/ UNCHANGED Members
  <2>1. s \in lockHolders
    BY <1>9 DEF StartTool, LeaseInv, HoldersInv, Holding
  <2>2. c \notin lockHolders
    BY <1>9 DEF StartTool, LeaseInv, HoldersInv, Alive
  <2> QED  BY <1>0, <1>9, <2>1, <2>2 DEF StartTool, HoldersAfterSpawn
<1> QED  BY <1>1, <1>2, <1>3, <1>4, <1>5, <1>6, <1>7, <1>8, <1>9 DEF ServerStep

LEMMA ToolStepImplements ==
  ASSUME LeaseInv, LeaseInv', NEW c \in Child, ToolStep(c)
  PROVE  Exclusive!Next \/ UNCHANGED Members
<1> USE MembersAreHolders
<1>0. Members' = lockHolders'
  BY DEF LeaseInv, TypeOK, HoldersInv, Members
<1>a. Alive(c) => c \in lockHolders
  BY DEF LeaseInv, HoldersInv
<1> USE DEF Exclusive!Next, Exclusive!Enter, Exclusive!Fork, Exclusive!Leave
<1>1. CASE BecomeReady(c)     BY <1>0, <1>1 DEF BecomeReady, Undecided
<1>2. CASE FinishFileTool(c)  BY <1>0, <1>2 DEF FinishFileTool, Undecided
<1>3. CASE StartCommand(c)    BY <1>0, <1>3 DEF StartCommand
<1>4. CASE CommandStarted(c)  BY <1>0, <1>4 DEF CommandStarted, Undecided
<1>5. CASE StopWaiting(c)     BY <1>0, <1>5 DEF StopWaiting, Undecided
<1>6. ASSUME NEW stopped \in BOOLEAN, NEW captured \in BOOLEAN,
             CleanUpCommand(c, stopped, captured)
      PROVE  Exclusive!Next \/ UNCHANGED Members
  BY <1>0, <1>6 DEF CleanUpCommand
<1>7. CASE ExitChild(c)
  <2>1. c \in lockHolders
    BY <1>7, <1>a DEF ExitChild, ChildStep, Alive
  <2> QED  BY <1>0, <1>7, <2>1 DEF ExitChild
<1>8. CASE CommandExits(c)    BY <1>0, <1>8 DEF CommandExits
<1>9. CASE Expire(c)          BY <1>0, <1>9 DEF Expire
<1>10. CASE WatchdogFires(c)
  <2>1. c \in lockHolders
    BY <1>10, <1>a DEF WatchdogFires, Waking, Alive
  <2> QED  BY <1>0, <1>10, <2>1 DEF WatchdogFires, Sigterm
<1>11. CASE ForcedExit(c)     BY <1>0, <1>a, <1>11 DEF ForcedExit
<1>12. CASE StartFails(c)     BY <1>0, <1>12 DEF StartFails
<1> QED  BY <1>1, <1>2, <1>3, <1>4, <1>5, <1>6, <1>7, <1>8, <1>9, <1>10, <1>11, <1>12
         DEF ToolStep

(* Every behaviour of the lease protocol, crashes and orphaned children      *)
(* included, is one of the abstract specification.                           *)
THEOREM LeaseImplementsExclusion == Spec => ExclusiveSpec
<1>1. Init => Exclusive!Init
  BY DEF Init, Exclusive!Init, Members, Holding, Alive
<1>2. LeaseInv /\ LeaseInv' /\ [Next]_vars => [Exclusive!Next]_Members
  <2> SUFFICES ASSUME LeaseInv, LeaseInv', [Next]_vars
               PROVE  Exclusive!Next \/ UNCHANGED Members
    OBVIOUS
  <2>1. CASE UNCHANGED vars
    BY <2>1 DEF vars, Members, Holding, Alive
  <2> QED  BY <2>1, ServerStepImplements, ToolStepImplements DEF Next
<1> QED  BY <1>1, <1>2, LeaseInvariant, PTL DEF Spec, ExclusiveSpec, Exclusive!Spec

-----------------------------------------------------------------------------
(* A tool child nobody supervises any more has lost its liveness pipe.       *)
THEOREM OrphansAreToldSo == Spec => []UnsupervisedIsOrphaned
<1>1. Init => UnsupervisedIsOrphaned
  BY DEF Init, UnsupervisedIsOrphaned, Alive
<1>2. LeaseInv /\ UnsupervisedIsOrphaned /\ [Next]_vars => UnsupervisedIsOrphaned'
  <2> USE LeaseAssumption DEF LeaseAssumption, LeaseInv, TypeOK, SupervisionInv,
          Supervising, UnsupervisedIsOrphaned, Alive
  <2> SUFFICES ASSUME LeaseInv, UnsupervisedIsOrphaned, [Next]_vars
               PROVE  UnsupervisedIsOrphaned'
    OBVIOUS
  <2>1. ASSUME NEW s \in Server, ServerStep(s) PROVE UnsupervisedIsOrphaned'
    <3>1. CASE AcquireLease(s)   BY <2>1, <3>1 DEF AcquireLease
    <3>2. CASE ReceiveResult(s)  BY <2>1, <3>2 DEF ReceiveResult
    <3>3. CASE TerminateTool(s)  BY <2>1, <3>3 DEF TerminateTool, Sigterm
    <3>4. CASE KillTool(s)       BY <2>1, <3>4 DEF KillTool
    <3>5. CASE EndStop(s)        BY <2>1, <3>5 DEF EndStop
    <3>6. CASE ReleaseLease(s)   BY <2>1, <3>6 DEF ReleaseLease
    <3>7. CASE CrashServer(s)    BY <2>1, <3>7 DEF CrashServer
    <3>8. CASE RestartServer(s)  BY <2>1, <3>8 DEF RestartServer
    <3>9. ASSUME NEW c \in Child, StartTool(s, c) PROVE UnsupervisedIsOrphaned'
      BY <2>1, <3>9 DEF StartTool
    <3> QED  BY <2>1, <3>1, <3>2, <3>3, <3>4, <3>5, <3>6, <3>7, <3>8, <3>9
             DEF ServerStep
  <2>2. ASSUME NEW c \in Child, ToolStep(c) PROVE UnsupervisedIsOrphaned'
    BY <2>2 DEF ToolStep, BecomeReady, FinishFileTool, StartCommand, CommandStarted, StartFails,
       StopWaiting, CleanUpCommand, Undecided, ExitChild, CommandExits, Expire, WatchdogFires,
       ForcedExit, ChildStep, Sigterm, Waking
  <2>3. CASE UNCHANGED vars  BY <2>3 DEF vars
  <2> QED  BY <2>1, <2>2, <2>3 DEF Next
<1> QED  BY <1>1, <1>2, LeaseInvariant, PTL DEF Spec

(* Over every failure and signal between Popen and its answer, a Bash call    *)
(* that reports a status has left nothing of its command running.            *)
THEOREM BashStatusIsTrue == Spec => []BashStatusMeansStopped
<1>1. Init => CommandInv
  BY DEF Init, CommandInv
<1>2. LeaseInv /\ CommandInv /\ [Next]_vars => CommandInv'
  <2> USE LeaseAssumption DEF LeaseAssumption, LeaseInv, TypeOK, SupervisionInv,
          Supervising, CommandInv
  <2> SUFFICES ASSUME LeaseInv, CommandInv, [Next]_vars PROVE CommandInv'
    OBVIOUS
  <2>1. ASSUME NEW s \in Server, ServerStep(s) PROVE CommandInv'
    <3>1. CASE AcquireLease(s)   BY <2>1, <3>1 DEF AcquireLease
    <3>2. CASE ReceiveResult(s)  BY <2>1, <3>2 DEF ReceiveResult
    <3>3. CASE TerminateTool(s)
      <4>1. current[s] \in Child
        BY <3>3 DEF TerminateTool
      <4>2. child[current[s]] = "ending" => AfterSigterm(child[current[s]]) = "ending"
        BY DEF AfterSigterm
      <4>3. child[current[s]] # "dead"
        BY <3>3 DEF TerminateTool
      <4> QED  BY <3>3, <4>1, <4>2, <4>3 DEF TerminateTool, Sigterm
    <3>4. CASE KillTool(s)       BY <2>1, <3>4 DEF KillTool
    <3>5. CASE EndStop(s)        BY <2>1, <3>5 DEF EndStop
    <3>6. CASE ReleaseLease(s)   BY <2>1, <3>6 DEF ReleaseLease
    <3>7. CASE CrashServer(s)    BY <2>1, <3>7 DEF CrashServer
    <3>8. CASE RestartServer(s)  BY <2>1, <3>8 DEF RestartServer
    <3>9. ASSUME NEW c \in Child, StartTool(s, c) PROVE CommandInv'
      BY <2>1, <3>9 DEF StartTool
    <3> QED  BY <2>1, <3>1, <3>2, <3>3, <3>4, <3>5, <3>6, <3>7, <3>8, <3>9
             DEF ServerStep
  <2>2. ASSUME NEW c \in Child, ToolStep(c) PROVE CommandInv'
    <3>1. CASE BecomeReady(c)     BY <2>2, <3>1 DEF BecomeReady, ChildStep, Undecided
    <3>2. CASE FinishFileTool(c)  BY <2>2, <3>2 DEF FinishFileTool, ChildStep, Undecided
    <3>3. CASE StartCommand(c)    BY <2>2, <3>3 DEF StartCommand, ChildStep
    <3>4. CASE CommandStarted(c)  BY <2>2, <3>4 DEF CommandStarted, ChildStep, Undecided
    <3>5. CASE StopWaiting(c)     BY <2>2, <3>5 DEF StopWaiting, ChildStep, Undecided
    <3>6. ASSUME NEW stopped \in BOOLEAN, NEW captured \in BOOLEAN,
                 CleanUpCommand(c, stopped, captured)
          PROVE  CommandInv'
      <4>1. PICK left \in BOOLEAN : /\ command' = [command EXCEPT ![c] = left]
                                    /\ stopped => left = FALSE
        BY <3>6, CleanUpLeaves DEF CleanUpCommand
      <4> QED  BY <3>6, <4>1 DEF CleanUpCommand, ChildStep
    <3>7. CASE ExitChild(c)       BY <2>2, <3>7 DEF ExitChild, ChildStep
    <3>8. CASE CommandExits(c)    BY <2>2, <3>8 DEF CommandExits
    <3>9. CASE Expire(c)          BY <2>2, <3>9 DEF Expire
    <3>10. CASE WatchdogFires(c)  BY <2>2, <3>10 DEF WatchdogFires, Sigterm
    <3>11. CASE ForcedExit(c)     BY <2>2, <3>11 DEF ForcedExit
    <3>12. CASE StartFails(c)     BY <2>2, <3>12 DEF StartFails, ChildStep
    <3> QED  BY <2>2, <3>1, <3>2, <3>3, <3>4, <3>5, <3>6, <3>7, <3>8, <3>9, <3>10, <3>11,
                <3>12
             DEF ToolStep
  <2>3. CASE UNCHANGED vars  BY <2>3 DEF vars
  <2> QED  BY <2>1, <2>2, <2>3 DEF Next
<1>3. CommandInv => BashStatusMeansStopped
  BY DEF CommandInv, BashStatusMeansStopped
<1> QED  BY <1>1, <1>2, <1>3, LeaseInvariant, PTL DEF Spec

-----------------------------------------------------------------------------
(***************************************************************************)
(* The search: its descriptors, then the pattern, then where it is in the    *)
(* tree and what it has still to come to.                                    *)
(***************************************************************************)
LEMMA LeastNumber ==
  ASSUME NEW T \in SUBSET Nat, T # {}
  PROVE  \E x \in T : \A y \in T : x <= y
<1>1. IsWellFoundedOn(OpToRel(<, Nat), Nat)
  BY NatLessThanWellFounded, Zenon
<1>2. PICK x \in T : \A y \in T : ~(<<y, x>> \in OpToRel(<, Nat))
  BY <1>1, WFMin, Zenon
<1>3. ASSUME NEW y \in T PROVE ~(y < x)
  BY <1>2, Zenon DEF OpToRel
<1> QED  BY <1>3

(* The descriptor the system hands out is one that is not open.              *)
LEMMA NewFdIsNew ==
  ASSUME IsFiniteSet(DOMAIN fds)
  PROVE  NewFd \in Nat \ {0} /\ NewFd \notin DOMAIN fds
<1> DEFINE open == DOMAIN fds
           n    == Cardinality(open)
           free == (1 .. n + 1) \ open
<1>1. n \in Nat
  BY FS_CardinalityType
<1>2. free # {}
  <2> SUFFICES ASSUME 1 .. n + 1 \subseteq open PROVE FALSE
    OBVIOUS
  <2>1. Cardinality(1 .. n + 1) = n + 1
    <3> HIDE DEF n
    <3> QED  BY <1>1, FS_Interval
  <2>2. Cardinality(1 .. n + 1) <= n
    BY FS_Subset
  <2> HIDE DEF n
  <2> QED  BY <1>1, <2>1, <2>2
<1> HIDE DEF n
<1>3. PICK d \in free : \A e \in free : d <= e
  <2>1. free \in SUBSET Nat
    BY <1>1
  <2> QED  BY <1>2, <2>1, LeastNumber
<1>4. d \in 1 .. n + 1 /\ d \notin open /\ \A e \in 1 .. d - 1 : e \in open
  BY <1>1, <1>3
<1> QED  BY <1>1, <1>4 DEF NewFd, n

(* The types of the variables that say where the search is.                  *)
WalkStates == {"openRoot", "openBase", "scan", "loop", "stat", "skip", "openFile",
               "openChild", "yield", "finally", "done"}
SearchTypes ==
  /\ tree \in [Dir -> [Name -> Node \cup {None}]] /\ changes \in 0 .. MaxChanges
  /\ parts \in Pattern /\ base \in Seq(Name) /\ openFiles \in BOOLEAN
  /\ entries \in Nat /\ directories \in Nat /\ truncated \in BOOLEAN
  /\ pc \in WalkStates /\ outcome \in {"none", "ended", "error", "moved", "closed"}

(* What is open belongs to a frame or to the entry at hand, and each frame   *)
(* has a descriptor of its own.                                              *)
DescriptorInv ==
  /\ DOMAIN fds \subseteq Nat \ {0} /\ fds \in [DOMAIN fds -> Dir \cup Regular]
  /\ IsFiniteSet(DOMAIN fds)
  /\ fresh \in DOMAIN fds \cup {0}
  /\ fresh # 0 => pc \in {"openBase", "scan", "yield"}
  /\ pc \in {"openBase", "scan"} => fresh # 0 /\ fds[fresh] \in Dir
  /\ outcome # "moved" =>
       \A d \in DOMAIN fds : d = fresh \/ \E i \in 1 .. Len(stack) : d = stack[i].fd

FramePart == [fd : Nat, path : Seq(Name), states : SUBSET Nat, todo : SUBSET Name]
FrameInv ==
  /\ stack \in Seq(FramePart)
  /\ \A i \in 1 .. Len(stack) :
       /\ stack[i].fd \in DOMAIN fds /\ fds[stack[i].fd] \in Dir
       /\ stack[i].states \subseteq 0 .. Len(parts)
       /\ stack[i].fd # fresh
       /\ \A j \in 1 .. Len(stack) : i # j => stack[i].fd # stack[j].fd

EntryInv ==
  /\ entry \in [path : Seq(Name), node : Node \cup {None}, states : SUBSET Nat]
  /\ entry.states \subseteq 0 .. Len(parts)
  /\ pc = "yield" => entry.node \in Dir \cup Regular
  /\ pc \in {"openChild", "scan"} => entry.node \in Dir
  /\ found \subseteq [path : Seq(Name), node : Dir \cup Regular]

(* Where the search stands in its frames.                                    *)
PlaceInv ==
  /\ pc \in {"openRoot", "openBase", "done"} => stack = <<>>
  /\ pc \in {"stat", "skip", "openFile", "openChild", "yield"} =>
       stack # <<>> /\ entry.path # <<>>
  /\ pc = "openRoot" => DOMAIN fds = {} /\ entry = NoEntry
  /\ pc = "openBase" => Len(entry.path) <= Len(base)
  /\ pc = "scan" => (entry.path = <<>> <=> stack = <<>>)
  /\ outcome # "none" <=> pc \in {"finally", "done"}

WalkInv == SearchTypes /\ DescriptorInv /\ FrameInv /\ EntryInv /\ PlaceInv

LEMMA SearchTypesStep == SearchTypes /\ [WalkNext]_walkVars => SearchTypes'
<1> SUFFICES ASSUME SearchTypes, [WalkNext]_walkVars PROVE SearchTypes'
  OBVIOUS
<1> USE DEF SearchTypes, WalkStates, request, world, counts, Ends, Loops
<1>1. CASE OpenRoot \/ OpenBase
  BY <1>1 DEF OpenRoot, OpenBase
<1>2. CASE NewFrame
  BY <1>2 DEF NewFrame
<1>3. CASE StopAtBudget \/ WalkEnds \/ \E name \in Name : NextEntry(name)
  <2>1. CASE StopAtBudget \/ WalkEnds
    BY <2>1 DEF StopAtBudget, WalkEnds
  <2>2. ASSUME NEW name \in Name, NextEntry(name) PROVE SearchTypes'
    BY <2>2 DEF NextEntry
  <2> QED  BY <1>3, <2>1, <2>2
<1>10. CASE PopFrame
  <2>1. UNCHANGED <<tree, changes, parts, base, openFiles, entries, directories, truncated>>
    BY <1>10 DEF PopFrame
  <2>2. pc' \in {"loop", "finally"} /\ outcome' \in {outcome, "error"}
    BY <1>10 DEF PopFrame
  <2> QED  BY <2>1, <2>2
<1>4. CASE SkipEntry \/ PassEntry \/ StatFails
  BY <1>4 DEF SkipEntry, PassEntry, StatFails
<1>5. CASE InspectEntry
  <2>1. truncated' \in BOOLEAN /\ UNCHANGED <<tree, changes, parts, base, openFiles, entries,
                                             directories, outcome>>
    BY <1>5 DEF InspectEntry
  <2>2. pc' \in WalkStates
    BY <1>5 DEF InspectEntry
  <2> QED  BY <2>1, <2>2
<1>6. CASE OpenFile \/ OpenChild
  BY <1>6 DEF OpenFile, OpenChild
<1>7. CASE YieldEntry \/ CloseFrames
  BY <1>7 DEF YieldEntry, CloseFrames
<1>8. ASSUME NEW d \in Busy, NEW n \in Name, NEW x \in (Node \ (Linked \cup Outside)) \cup {None},
             Change(d, n, x)
      PROVE  SearchTypes'
  <2>1. tree' \in [Dir -> [Name -> Node \cup {None}]]
    BY <1>8, WalkAssumption DEF WalkAssumption, Change
  <2>2. changes' \in 0 .. MaxChanges
    BY <1>8, WalkAssumption DEF WalkAssumption, Change
  <2> QED  BY <1>8, <2>1, <2>2 DEF Change
<1>9. CASE UNCHANGED walkVars
  BY <1>9 DEF walkVars
<1> QED  BY <1>1, <1>2, <1>3, <1>4, <1>5, <1>6, <1>7, <1>8, <1>9, <1>10 DEF WalkNext, Walk

(* What an open and a close do to the open descriptors.                      *)
LEMMA FdsOpened ==
  ASSUME DescriptorInv, NEW x \in Dir \cup Regular
  PROVE  /\ NewFd \in Nat \ {0} /\ NewFd \notin DOMAIN fds
         /\ DOMAIN Opened(x) = DOMAIN fds \cup {NewFd}
         /\ Opened(x)[NewFd] = x
         /\ \A d \in DOMAIN fds : Opened(x)[d] = fds[d]
         /\ Opened(x) \in [DOMAIN fds \cup {NewFd} -> Dir \cup Regular]
         /\ IsFiniteSet(DOMAIN fds \cup {NewFd})
  BY NewFdIsNew, FS_AddElement DEF DescriptorInv, Opened

LEMMA FdsClosed ==
  ASSUME DescriptorInv, NEW gone
  PROVE  /\ DOMAIN Closed(gone) = DOMAIN fds \ gone
         /\ \A d \in DOMAIN fds \ gone : Closed(gone)[d] = fds[d]
         /\ Closed(gone) \in [DOMAIN fds \ gone -> Dir \cup Regular]
         /\ IsFiniteSet(DOMAIN fds \ gone)
<1>1. IsFiniteSet(DOMAIN fds \ gone)
  BY FS_Subset DEF DescriptorInv
<1> QED  BY <1>1 DEF DescriptorInv, Closed

LEMMA StatesTyped ==
  ASSUME NEW states, NEW name, NEW prune
  PROVE  /\ Closure(states) \subseteq 0 .. Len(parts)
         /\ Advance(states, name, prune) \subseteq 0 .. Len(parts)
         /\ InitialStates \subseteq 0 .. Len(parts)
  BY DEF Closure, Advance, InitialStates

LEMMA NoEntryTyped ==
  /\ NoEntry \in [path : Seq(Name), node : Node \cup {None}, states : SUBSET Nat]
  /\ NoEntry.path = <<>> /\ NoEntry.states = {} /\ NoEntry.node = None
  BY DEF NoEntry

LEMMA PartsTyped ==
  ASSUME SearchTypes
  PROVE  /\ parts \in Seq(Part \cup {DoubleStar})
         /\ Len(parts) \in Nat \ {0}
         /\ DOMAIN parts = 1 .. Len(parts)
<1>1. PICK k \in 1 .. MaxParts : parts \in [1 .. k -> Part \cup {DoubleStar}]
  BY WalkAssumption DEF WalkAssumption, SearchTypes, Pattern
<1> QED  BY <1>1, WalkAssumption DEF WalkAssumption

(* The beginning, and the steps that open and close nothing.                 *)
LEMMA WalkInvInit == WalkInit => WalkInv
<1> SUFFICES ASSUME WalkInit PROVE WalkInv
  OBVIOUS
<1> USE WalkAssumption DEF WalkAssumption, WalkInit
<1>1. DOMAIN fds = {}
  OBVIOUS
<1>2. SearchTypes
  <2>1. tree \in [Dir -> [Name -> Node \cup {None}]] /\ changes \in 0 .. MaxChanges
    OBVIOUS
  <2>2. parts \in Pattern /\ base \in Seq(Name)
    OBVIOUS
  <2> QED  BY <2>1, <2>2 DEF SearchTypes, WalkStates
<1>3. DescriptorInv
  BY <1>1, FS_EmptySet DEF DescriptorInv
<1>4. FrameInv
  BY DEF FrameInv
<1>5. EntryInv
  BY DEF EntryInv, NoEntry
<1>6. PlaceInv
  BY <1>1 DEF PlaceInv
<1> QED  BY <1>2, <1>3, <1>4, <1>5, <1>6 DEF WalkInv

-----------------------------------------------------------------------------
LEMMA FramesStay ==
  ASSUME FrameInv, UNCHANGED <<stack, parts>>,
         \A i \in 1 .. Len(stack) :
           /\ stack[i].fd \in DOMAIN fds' /\ fds'[stack[i].fd] = fds[stack[i].fd]
           /\ stack[i].fd # fresh'
  PROVE  FrameInv'
  BY DEF FrameInv

LEMMA EntryStays ==
  ASSUME EntryInv, UNCHANGED <<parts, found>>, entry' \in {entry, NoEntry},
         pc' \in {"yield", "scan", "openChild"} => entry' = entry,
         pc' = "yield" => entry.node \in Dir \cup Regular,
         pc' \in {"scan", "openChild"} => entry.node \in Dir
  PROVE  EntryInv'
<1>1. CASE entry' = entry
  BY <1>1 DEF EntryInv
<1>2. CASE entry' = NoEntry
  BY <1>2, NoEntryTyped DEF EntryInv
<1> QED  BY <1>1, <1>2

(* Steps that open, close and move no descriptor.                            *)
Quiet == WalkEnds \/ StopAtBudget \/ SkipEntry \/ PassEntry \/ StatFails \/ InspectEntry

LEMMA QuietStep == WalkInv /\ Quiet => DescriptorInv' /\ FrameInv' /\ EntryInv' /\ PlaceInv'
<1> SUFFICES ASSUME SearchTypes, DescriptorInv, FrameInv, EntryInv, PlaceInv, Quiet
             PROVE  DescriptorInv' /\ FrameInv' /\ EntryInv' /\ PlaceInv'
  BY DEF WalkInv
<1>1. /\ UNCHANGED <<parts, base, fds, stack, found>>
      /\ pc \in {"loop", "stat", "skip", "openFile", "openChild"}
      /\ pc' \in {"loop", "openFile", "openChild", "yield", "skip", "finally"}
      /\ outcome' # "moved"
      /\ outcome' # "none" <=> pc' = "finally"
      /\ pc = "loop" => pc' = "finally"
      /\ fresh' \in {0, fresh}
  BY DEF Quiet, WalkEnds, StopAtBudget, SkipEntry, PassEntry, StatFails, InspectEntry, Ends,
     Loops, request, world, counts, PlaceInv
<1>2. fresh = 0 /\ fresh' = 0 /\ outcome = "none"
  BY <1>1 DEF DescriptorInv, PlaceInv
<1>3. DescriptorInv'
  BY <1>1, <1>2 DEF DescriptorInv
<1>4. FrameInv'
  BY <1>1, <1>2, FramesStay DEF FrameInv
<1>5. /\ EntryInv'
      /\ pc' \in {"openFile", "openChild", "yield", "skip"} => entry'.path = entry.path
  <2>1. CASE InspectEntry
    <3> DEFINE x == At(fds[Top.fd], Here)
    <3>1. /\ entry' = [entry EXCEPT !.node = x, !.states = StatesOf(x)]
          /\ UNCHANGED <<parts, found>>
          /\ ~Skips(x) /\ pc = "stat" /\ pc' # "scan"
          /\ pc' = "openChild" => x \in Dir
      BY <2>1 DEF InspectEntry, request
    <3>2. x \in Node /\ x \notin Link
      <4>1. Top.fd \in DOMAIN fds /\ fds[Top.fd] \in Dir /\ Here \in Name
        BY <3>1 DEF FrameInv, PlaceInv, EntryInv, Top, Here, Last
      <4>2. x \in Node \cup {None}
        BY <4>1 DEF SearchTypes, At
      <4> QED  BY <3>1, <4>2 DEF Skips
    <3>3. StatesOf(x) \subseteq 0 .. Len(parts)
      BY StatesTyped DEF StatesOf
    <3>4. StatesOf(x) \in SUBSET Nat
      BY <3>3, PartsTyped
    <3>5. /\ entry' \in [path : Seq(Name), node : Node \cup {None}, states : SUBSET Nat]
          /\ entry'.path = entry.path /\ entry'.node = x /\ entry'.states = StatesOf(x)
      <4> HIDE DEF x
      <4> QED  BY <3>1, <3>2, <3>4 DEF EntryInv
    <3> HIDE DEF x
    <3> QED  BY <3>1, <3>2, <3>3, <3>5 DEF EntryInv, Node
  <2>2. CASE ~InspectEntry
    <3>1. UNCHANGED found /\ entry' \in {entry, NoEntry} /\ pc' \in {"loop", "finally"}
      BY <2>2 DEF Quiet, WalkEnds, StopAtBudget, SkipEntry, PassEntry, StatFails, Ends, Loops,
         counts
    <3> QED  BY <1>1, <3>1, EntryStays
  <2> QED  BY <2>1, <2>2
<1>6. PlaceInv'
  BY <1>1, <1>5 DEF PlaceInv
<1> QED  BY <1>3, <1>4, <1>5, <1>6

(* Opening the base directory.                                               *)
LEMMA OpenStep ==
  WalkInv /\ (OpenRoot \/ OpenBase) => DescriptorInv' /\ FrameInv' /\ EntryInv' /\ PlaceInv'
<1> SUFFICES ASSUME SearchTypes, DescriptorInv, FrameInv, EntryInv, PlaceInv,
                    OpenRoot \/ OpenBase
             PROVE  DescriptorInv' /\ FrameInv' /\ EntryInv' /\ PlaceInv'
  BY DEF WalkInv
<1> USE DEF request, world, counts, Ends
<1>1. CASE OpenRoot
  <2>1. stack = <<>> /\ DOMAIN fds = {} /\ fresh = 0 /\ outcome = "none"
    BY <1>1 DEF OpenRoot, PlaceInv, DescriptorInv
  <2>2. Root \in Dir
    BY WalkAssumption DEF WalkAssumption
  <2>3. DescriptorInv'
    <3>1. /\ DOMAIN Opened(Root) = {NewFd} /\ NewFd \in Nat \ {0}
          /\ Opened(Root) \in [{NewFd} -> Dir \cup Regular]
          /\ Opened(Root)[NewFd] = Root /\ IsFiniteSet({NewFd})
      BY <2>1, <2>2, FdsOpened
    <3> QED  BY <1>1, <2>1, <2>2, <3>1 DEF OpenRoot, DescriptorInv
  <2>4. FrameInv' /\ EntryInv'
    BY <1>1, <2>1 DEF OpenRoot, FrameInv, EntryInv
  <2>5. PlaceInv'
    BY <1>1, <2>1 DEF OpenRoot, PlaceInv, NoEntry, SearchTypes
  <2> QED  BY <2>3, <2>4, <2>5
<1>2. CASE OpenBase
  <2> DEFINE sofar == Len(entry.path)
             next  == IF sofar < Len(base) THEN At(fds[fresh], base[sofar + 1]) ELSE None
  <2>a. pc = "openBase" /\ UNCHANGED <<stack, parts, base, found>>
    BY <1>2 DEF OpenBase
  <2>b. /\ stack = <<>> /\ fresh \in DOMAIN fds /\ fresh # 0 /\ fds[fresh] \in Dir
        /\ DOMAIN fds = {fresh} /\ outcome = "none"
    <3>1. stack = <<>> /\ outcome = "none"
      BY <2>a DEF PlaceInv
    <3>2. fresh \in DOMAIN fds /\ fresh # 0 /\ fds[fresh] \in Dir
      BY <2>a DEF DescriptorInv
    <3>3. \A d \in DOMAIN fds : d = fresh
      BY <3>1 DEF DescriptorInv
    <3> QED  BY <3>1, <3>2, <3>3
  <2>c. sofar \in 0 .. Len(base) /\ base \in Seq(Name) /\ Len(base) \in Nat
    BY <2>a DEF PlaceInv, SearchTypes, EntryInv
  <2>1. /\ stack = <<>> /\ fresh \in DOMAIN fds /\ fresh # 0 /\ fds[fresh] \in Dir
        /\ DOMAIN fds = {fresh} /\ outcome = "none" /\ pc = "openBase"
        /\ sofar \in 0 .. Len(base) /\ base \in Seq(Name) /\ Len(base) \in Nat
        /\ stack' = stack /\ parts' = parts /\ base' = base /\ found' = found
    BY <2>a, <2>b, <2>c
  <2>2. FrameInv'
    BY <2>1 DEF FrameInv
  <2>3. CASE /\ sofar = Len(base)
             /\ pc' = "scan"
             /\ entry' = [NoEntry EXCEPT !.node = fds[fresh], !.states = InitialStates]
             /\ UNCHANGED <<fds, fresh, outcome>>
    <3>1. InitialStates \subseteq 0 .. Len(parts) /\ Len(parts) \in Nat
      BY StatesTyped, PartsTyped
    <3>2. entry' = [path |-> <<>>, node |-> fds[fresh], states |-> InitialStates]
      BY <2>3 DEF NoEntry
    <3>3. EntryInv'
      <4>1. entry' \in [path : Seq(Name), node : Node \cup {None}, states : SUBSET Nat]
        BY <2>1, <3>1, <3>2 DEF Node
      <4>2. found' \subseteq [path : Seq(Name), node : Dir \cup Regular]
        BY <2>1 DEF EntryInv
      <4> QED  BY <2>1, <2>3, <3>1, <3>2, <4>1, <4>2 DEF EntryInv
    <3>4. DescriptorInv'
      BY <2>1, <2>3 DEF DescriptorInv
    <3>5. PlaceInv'
      <4>1. entry'.path = <<>> /\ stack' = <<>> /\ pc' = "scan" /\ outcome' = "none"
        <5>1. entry'.path = <<>>
          BY <3>2
        <5>2. stack' = <<>> /\ pc' = "scan" /\ outcome' = "none"
          BY <2>1, <2>3
        <5> QED  BY <5>1, <5>2
      <4> QED  BY <4>1 DEF PlaceInv
    <3> QED  BY <2>2, <3>3, <3>4, <3>5
  <2>4. CASE /\ sofar < Len(base) /\ next \in Dir
             /\ fds' = [fds EXCEPT ![fresh] = next]
             /\ entry' = [entry EXCEPT !.path = SubSeq(base, 1, sofar + 1)]
             /\ UNCHANGED <<pc, fresh, outcome>>
    <3> HIDE DEF next
    <3>1. SubSeq(base, 1, sofar + 1) \in Seq(Name) /\ Len(SubSeq(base, 1, sofar + 1)) = sofar + 1
      BY <2>1, <2>4
    <3>2. EntryInv'
      BY <2>1, <2>4, <3>1 DEF EntryInv
    <3>3. DOMAIN fds' = DOMAIN fds /\ fds'[fresh] = next
      BY <2>1, <2>4
    <3>4. DescriptorInv'
      BY <2>1, <2>4, <3>3 DEF DescriptorInv
    <3>5. entry'.path = SubSeq(base, 1, sofar + 1)
      BY <2>4 DEF EntryInv
    <3>6. PlaceInv'
      BY <2>1, <2>4, <3>1, <3>5 DEF PlaceInv
    <3> QED  BY <2>2, <3>2, <3>4, <3>6
  <2>5. CASE /\ sofar < Len(base)
             /\ Ends("error") /\ fds' = Closed({fresh}) /\ fresh' = 0
             /\ UNCHANGED entry
    <3>1. DOMAIN fds' = {} /\ fds' \in [{} -> Dir \cup Regular] /\ IsFiniteSet({})
      <4>1. DOMAIN fds \ {fresh} = {}
        BY <2>1
      <4> QED  BY <2>5, <4>1, FdsClosed
    <3>2. DescriptorInv'
      BY <2>1, <2>5, <3>1 DEF DescriptorInv
    <3>3. EntryInv' /\ PlaceInv'
      BY <2>1, <2>5 DEF EntryInv, PlaceInv
    <3> QED  BY <2>2, <3>2, <3>3
  <2> QED  BY <1>2, <2>3, <2>4, <2>5 DEF OpenBase
<1> QED  BY <1>1, <1>2

(* The descriptor of the entry is closed, or one is opened for it.           *)
LEMMA FreshClosed ==
  ASSUME DescriptorInv, FrameInv, fds' = Closed({fresh}), fresh' = 0, UNCHANGED <<stack, parts>>,
         pc' \notin {"openBase", "scan"}, outcome # "moved"
  PROVE  DescriptorInv' /\ FrameInv'
<1>1. /\ DOMAIN fds' = DOMAIN fds \ {fresh}
      /\ \A d \in DOMAIN fds \ {fresh} : fds'[d] = fds[d]
      /\ fds' \in [DOMAIN fds \ {fresh} -> Dir \cup Regular]
      /\ IsFiniteSet(DOMAIN fds \ {fresh})
  BY FdsClosed
<1>2. \A i \in 1 .. Len(stack) : stack[i].fd \in DOMAIN fds \ {fresh} /\ stack[i].fd # 0
  BY DEF FrameInv, DescriptorInv
<1>3. FrameInv'
  BY <1>1, <1>2, FramesStay
<1>4. DescriptorInv'
  BY <1>1 DEF DescriptorInv
<1> QED  BY <1>3, <1>4

(* A descriptor that becomes, or stops being, that of the entry at hand.     *)
LEMMA FreshOpened ==
  ASSUME DescriptorInv, FrameInv, NEW x \in Dir \cup Regular,
         fds' = Opened(x), fresh = 0, fresh' = NewFd, UNCHANGED <<stack, parts>>,
         pc' \in {"openBase", "scan", "yield"}, pc' # "yield" => x \in Dir, outcome # "moved"
  PROVE  DescriptorInv' /\ FrameInv'
<1>1. /\ NewFd \in Nat \ {0} /\ NewFd \notin DOMAIN fds
      /\ DOMAIN fds' = DOMAIN fds \cup {NewFd} /\ fds'[NewFd] = x
      /\ \A d \in DOMAIN fds : fds'[d] = fds[d]
      /\ fds' \in [DOMAIN fds \cup {NewFd} -> Dir \cup Regular]
      /\ IsFiniteSet(DOMAIN fds \cup {NewFd})
  BY FdsOpened
<1>2. \A i \in 1 .. Len(stack) : stack[i].fd \in DOMAIN fds /\ stack[i].fd # NewFd
  BY <1>1 DEF FrameInv
<1>3. FrameInv'
  BY <1>1, <1>2, FramesStay
<1>4. DescriptorInv'
  BY <1>1 DEF DescriptorInv
<1> QED  BY <1>3, <1>4

(* The descriptor of the entry becomes that of a frame.                      *)
LEMMA FramePushed ==
  ASSUME SearchTypes, DescriptorInv, FrameInv, EntryInv, pc = "scan", pc' \in {"yield", "loop"},
         stack' = Append(stack, Frame), fresh' = 0, UNCHANGED <<fds, parts, outcome>>
  PROVE  DescriptorInv' /\ FrameInv'
<1>1. /\ fresh \in DOMAIN fds /\ fresh # 0 /\ fresh \in Nat /\ fds[fresh] \in Dir
      /\ DOMAIN fds \subseteq Nat \ {0}
  BY DEF DescriptorInv
<1>2. /\ Frame \in FramePart /\ Frame.fd = fresh
      /\ Frame.states \subseteq 0 .. Len(parts)
  BY <1>1 DEF Frame, FramePart, EntryInv
<1>3. /\ Len(stack') = Len(stack) + 1 /\ Len(stack) \in Nat /\ stack' \in Seq(FramePart)
      /\ \A i \in 1 .. Len(stack) : stack'[i] = stack[i]
      /\ stack'[Len(stack) + 1] = Frame
  BY <1>2 DEF FrameInv
<1>4. \A i \in 1 .. Len(stack') : i \in 1 .. Len(stack) \/ i = Len(stack) + 1
  BY <1>3
<1>5. FrameInv'
  <2>1. \A i \in 1 .. Len(stack) : stack'[i].fd \in DOMAIN fds /\ stack'[i].fd # fresh
    BY <1>3 DEF FrameInv
  <2>2. ASSUME NEW i \in 1 .. Len(stack')
        PROVE  /\ stack'[i].fd \in DOMAIN fds /\ fds[stack'[i].fd] \in Dir
               /\ stack'[i].states \subseteq 0 .. Len(parts)
               /\ stack'[i].fd # 0
    BY <1>1, <1>2, <1>3, <1>4 DEF FrameInv
  <2>3. ASSUME NEW i \in 1 .. Len(stack'), NEW j \in 1 .. Len(stack'), i # j
        PROVE  stack'[i].fd # stack'[j].fd
    <3>1. CASE i = Len(stack) + 1 \/ j = Len(stack) + 1
      BY <1>2, <1>3, <1>4, <2>1, <2>3, <3>1
    <3>2. CASE i \in 1 .. Len(stack) /\ j \in 1 .. Len(stack)
      BY <1>3, <2>3, <3>2 DEF FrameInv
    <3> QED  BY <1>4, <3>1, <3>2
  <2> QED  BY <1>3, <2>2, <2>3 DEF FrameInv
<1>6. DescriptorInv'
  <2>1. ASSUME outcome # "moved", NEW d \in DOMAIN fds
        PROVE  \E i \in 1 .. Len(stack') : d = stack'[i].fd
    <3>1. CASE d = fresh
      BY <1>2, <1>3, <3>1
    <3>2. CASE \E i \in 1 .. Len(stack) : d = stack[i].fd
      BY <1>3, <3>2
    <3> QED  BY <2>1, <3>1, <3>2 DEF DescriptorInv
  <2> QED  BY <2>1 DEF DescriptorInv
<1> QED  BY <1>5, <1>6

(* Beginnings of sequences.                                                  *)
LEMMA Prefix ==
  ASSUME NEW S, NEW s \in Seq(S), NEW n \in 0 .. Len(s)
  PROVE  /\ SubSeq(s, 1, n) \in Seq(S) /\ Len(SubSeq(s, 1, n)) = n
         /\ \A i \in 1 .. n : SubSeq(s, 1, n)[i] = s[i]
  OBVIOUS

LEMMA FrontOf ==
  ASSUME NEW S, NEW s \in Seq(S), s # <<>>
  PROVE  /\ Front(s) \in Seq(S) /\ Len(s) \in Nat \ {0} /\ Len(Front(s)) = Len(s) - 1
         /\ \A i \in 1 .. Len(Front(s)) : Front(s)[i] = s[i]
<1>1. Len(s) \in Nat \ {0} /\ Len(s) - 1 \in 0 .. Len(s)
  OBVIOUS
<1>2. /\ SubSeq(s, 1, Len(s) - 1) \in Seq(S) /\ Len(SubSeq(s, 1, Len(s) - 1)) = Len(s) - 1
      /\ \A i \in 1 .. Len(s) - 1 : SubSeq(s, 1, Len(s) - 1)[i] = s[i]
  BY <1>1, Prefix
<1> QED  BY <1>1, <1>2 DEF Front

(* The deepest frame is closed.                                              *)
LEMMA FramePopped ==
  ASSUME DescriptorInv, FrameInv, PlaceInv, pc = "loop", stack # <<>>, fds' = Closed({Top.fd}),
         stack' = Front(stack), UNCHANGED <<fresh, parts>>, pc' \in {"loop", "finally"}
  PROVE  DescriptorInv' /\ FrameInv'
<1>1. /\ stack \in Seq(FramePart) /\ Len(stack) \in Nat \ {0}
      /\ Top.fd \in DOMAIN fds /\ Top = stack[Len(stack)] /\ fresh = 0 /\ outcome = "none"
  BY DEF FrameInv, Top, DescriptorInv, PlaceInv
<1>2. /\ stack' \in Seq(FramePart) /\ Len(stack') = Len(stack) - 1
      /\ \A i \in 1 .. Len(stack') : stack'[i] = stack[i] /\ i \in 1 .. Len(stack)
  BY <1>1, FrontOf
<1>3. /\ DOMAIN fds' = DOMAIN fds \ {Top.fd}
      /\ \A d \in DOMAIN fds \ {Top.fd} : fds'[d] = fds[d]
      /\ fds' \in [DOMAIN fds \ {Top.fd} -> Dir \cup Regular]
      /\ IsFiniteSet(DOMAIN fds \ {Top.fd})
  BY FdsClosed
<1>4. \A i \in 1 .. Len(stack') : stack[i].fd \in DOMAIN fds \ {Top.fd}
  BY <1>1, <1>2 DEF FrameInv
<1>5. FrameInv'
  <2>1. ASSUME NEW i \in 1 .. Len(stack')
        PROVE  /\ stack'[i].fd \in DOMAIN fds' /\ fds'[stack'[i].fd] \in Dir
               /\ stack'[i].states \subseteq 0 .. Len(parts)
               /\ stack'[i].fd # fresh'
    <3>1. stack'[i] = stack[i] /\ i \in 1 .. Len(stack)
      BY <1>2
    <3>2. /\ stack[i].fd \in DOMAIN fds' /\ fds'[stack[i].fd] = fds[stack[i].fd]
      BY <1>3, <1>4
    <3>3. /\ fds[stack[i].fd] \in Dir /\ stack[i].states \subseteq 0 .. Len(parts)
          /\ stack[i].fd # fresh
      BY <3>1 DEF FrameInv
    <3> QED  BY <3>1, <3>2, <3>3
  <2>2. ASSUME NEW i \in 1 .. Len(stack'), NEW j \in 1 .. Len(stack'), i # j
        PROVE  stack'[i].fd # stack'[j].fd
    <3>1. stack'[i] = stack[i] /\ stack'[j] = stack[j]
          /\ i \in 1 .. Len(stack) /\ j \in 1 .. Len(stack)
      BY <1>2
    <3> QED  BY <2>2, <3>1 DEF FrameInv
  <2> QED  BY <1>2, <2>1, <2>2 DEF FrameInv
<1>6. DescriptorInv'
  <2>1. ASSUME NEW d \in DOMAIN fds \ {Top.fd}
        PROVE  \E i \in 1 .. Len(stack') : d = stack'[i].fd
    <3>1. PICK i \in 1 .. Len(stack) : d = stack[i].fd
      BY <1>1, <2>1 DEF DescriptorInv
    <3>2. i # Len(stack)
      BY <1>1, <2>1, <3>1
    <3>3. i \in 1 .. Len(stack')
      BY <1>1, <1>2, <3>2
    <3> QED  BY <1>2, <3>1, <3>3
  <2> QED  BY <1>1, <1>3, <2>1 DEF DescriptorInv
<1> QED  BY <1>5, <1>6

(* An entry is taken from the deepest frame.                                 *)
LEMMA EntryTaken ==
  ASSUME DescriptorInv, FrameInv, stack # <<>>, NEW gone, NEW taken,
         taken = [Top EXCEPT !.todo = Top.todo \ gone],
         stack' = [stack EXCEPT ![Len(stack)] = taken],
         UNCHANGED <<fds, fresh, parts, outcome>>, pc = "loop", pc' = "stat"
  PROVE  /\ DescriptorInv' /\ FrameInv'
         /\ Len(stack') = Len(stack)
         /\ \A i \in 1 .. Len(stack) : stack'[i] = IF i = Len(stack) THEN taken ELSE stack[i]
<1>1. stack \in Seq(FramePart) /\ Len(stack) \in Nat \ {0} /\ Len(stack) \in 1 .. Len(stack)
  BY DEF FrameInv
<1>2. Top \in FramePart
  BY <1>1 DEF Top
<1>3. taken \in FramePart /\ taken.fd = Top.fd /\ taken.states = Top.states
  BY <1>2 DEF FramePart
<1>4. /\ stack' \in Seq(FramePart) /\ Len(stack') = Len(stack)
      /\ \A i \in 1 .. Len(stack) : stack'[i] = IF i = Len(stack) THEN taken ELSE stack[i]
  BY <1>1, <1>3
<1>5. \A i \in 1 .. Len(stack) : stack'[i].fd = stack[i].fd /\ stack'[i].states = stack[i].states
  BY <1>3, <1>4 DEF Top
<1>6. FrameInv'
  BY <1>4, <1>5 DEF FrameInv
<1>7. DescriptorInv'
  BY <1>4, <1>5 DEF DescriptorInv
<1> QED  BY <1>4, <1>6, <1>7

FrameStep == NewFrame \/ PopFrame \/ \E name \in Name : NextEntry(name)

(* The steps that change the frames.                                         *)
LEMMA FrameStepKeeps ==
  WalkInv /\ FrameStep => DescriptorInv' /\ FrameInv' /\ EntryInv' /\ PlaceInv'
<1> SUFFICES ASSUME SearchTypes, DescriptorInv, FrameInv, EntryInv, PlaceInv, FrameStep
             PROVE  DescriptorInv' /\ FrameInv' /\ EntryInv' /\ PlaceInv'
  BY DEF WalkInv
<1> USE DEF request, world, counts
<1>1. CASE NewFrame
  <2>1. pc = "scan" /\ outcome = "none" /\ UNCHANGED <<parts, base, found>>
    BY <1>1 DEF NewFrame, PlaceInv
  <2>2. fresh \in DOMAIN fds /\ fresh # 0 /\ fds[fresh] \in Dir
    BY <2>1 DEF DescriptorInv
  <2>3. stack \in Seq(FramePart)
    BY DEF FrameInv
  <2>4. CASE /\ stack' = Append(stack, Frame)
             /\ fresh' = 0
             /\ IF Matched THEN pc' = "yield" /\ UNCHANGED entry
                           ELSE pc' = "loop" /\ entry' = NoEntry
             /\ UNCHANGED <<fds, outcome>>
    <3>1. DescriptorInv' /\ FrameInv'
      BY <2>1, <2>4, FramePushed
    <3>2. stack' # <<>>
      BY <2>3, <2>4
    <3>3. pc' = "yield" => stack # <<>> /\ entry' = entry
      BY <2>4 DEF Matched
    <3>4. EntryInv'
      <4>1. entry' \in {entry, NoEntry} /\ (pc' = "yield" => entry' = entry)
        BY <2>4
      <4>2. entry.node \in Dir
        BY <2>1 DEF EntryInv
      <4> QED  BY <2>1, <2>4, <4>1, <4>2, EntryStays
    <3>5. PlaceInv'
      BY <2>1, <2>4, <3>2, <3>3 DEF PlaceInv
    <3> QED  BY <3>1, <3>4, <3>5
  <2>5. CASE /\ fds' = Closed({fresh}) /\ fresh' = 0 /\ UNCHANGED stack
             /\ \/ Ends("error") /\ UNCHANGED entry
                \/ /\ stack # <<>> /\ changes > 0
                   /\ IF Matched THEN pc' = "yield" /\ UNCHANGED entry
                                 ELSE pc' = "loop" /\ entry' = NoEntry
                   /\ UNCHANGED outcome
    <3>1. pc' \in {"finally", "yield", "loop"} /\ (outcome' # "none" <=> pc' = "finally")
      BY <2>1, <2>5 DEF Ends
    <3>2. DescriptorInv' /\ FrameInv'
      BY <2>1, <2>5, <3>1, FreshClosed
    <3>3. /\ pc' = "yield" => stack # <<>>
          /\ entry' = entry \/ (entry' = NoEntry /\ pc' = "loop")
      BY <2>5 DEF Ends
    <3>4. EntryInv'
      <4>1. entry' \in {entry, NoEntry} /\ (pc' = "yield" => entry' = entry)
        BY <3>3
      <4>2. entry.node \in Dir
        BY <2>1 DEF EntryInv
      <4> QED  BY <2>1, <3>1, <4>1, <4>2, EntryStays
    <3>5. PlaceInv'
      BY <2>1, <2>5, <3>1, <3>3 DEF PlaceInv
    <3> QED  BY <3>2, <3>4, <3>5
  <2> QED  BY <1>1, <2>4, <2>5 DEF NewFrame
<1>2. CASE PopFrame
  <2>1. /\ pc = "loop" /\ stack # <<>> /\ fds' = Closed({Top.fd}) /\ stack' = Front(stack)
        /\ UNCHANGED <<parts, base, entry, fresh, found>>
    BY <1>2 DEF PopFrame
  <2>2. /\ pc' \in {"loop", "finally"} /\ (outcome' # "none" <=> pc' = "finally")
    BY <1>2 DEF PopFrame, Ends, PlaceInv
  <2>3. DescriptorInv' /\ FrameInv'
    BY <2>1, <2>2, FramePopped
  <2>4. EntryInv' /\ PlaceInv'
    BY <2>1, <2>2 DEF EntryInv, PlaceInv
  <2> QED  BY <2>3, <2>4
<1>3. ASSUME NEW name \in Name, NextEntry(name)
      PROVE  DescriptorInv' /\ FrameInv' /\ EntryInv' /\ PlaceInv'
  <2> DEFINE taken == [Top EXCEPT !.todo = Top.todo \ {name}]
  <2>1. /\ pc = "loop" /\ pc' = "stat" /\ stack # <<>>
        /\ stack' = [stack EXCEPT ![Len(stack)].todo = Top.todo \ {name}]
        /\ entry' = [path |-> Append(Top.path, name), node |-> None, states |-> {}]
        /\ UNCHANGED <<parts, base, fds, fresh, found, outcome>>
    BY <1>3 DEF NextEntry
  <2>2. stack' = [stack EXCEPT ![Len(stack)] = taken]
    BY <2>1 DEF Top
  <2>3. DescriptorInv' /\ FrameInv' /\ Len(stack') = Len(stack)
    <3> HIDE DEF taken
    <3>1. taken = [Top EXCEPT !.todo = Top.todo \ {name}]
      BY DEF taken
    <3> QED  BY <2>1, <2>2, <3>1, EntryTaken
  <2>4. stack' # <<>> /\ outcome = "none"
    BY <2>1, <2>3 DEF PlaceInv, FrameInv
  <2>5. Append(Top.path, name) \in Seq(Name) /\ Append(Top.path, name) # <<>>
    <3>1. Top \in FramePart
      BY <2>1 DEF Top, FrameInv
    <3>2. Top.path \in Seq(Name)
      BY <3>1 DEF FramePart
    <3> QED  BY <3>2
  <2>6. EntryInv'
    BY <2>1, <2>5 DEF EntryInv
  <2>7. entry'.path = Append(Top.path, name)
    BY <2>1
  <2>8. PlaceInv'
    BY <2>1, <2>4, <2>5, <2>7 DEF PlaceInv
  <2> QED  BY <2>3, <2>6, <2>8
<1> QED  BY <1>1, <1>2, <1>3 DEF FrameStep

FileStep == OpenFile \/ OpenChild \/ YieldEntry \/ CloseFrames

(* The steps that open an entry, hand it out, or end the search.             *)
LEMMA FileStepKeeps ==
  WalkInv /\ FileStep => DescriptorInv' /\ FrameInv' /\ EntryInv' /\ PlaceInv'
<1> SUFFICES ASSUME SearchTypes, DescriptorInv, FrameInv, EntryInv, PlaceInv, FileStep
             PROVE  DescriptorInv' /\ FrameInv' /\ EntryInv' /\ PlaceInv'
  BY DEF WalkInv
<1> USE DEF request, world, counts
<1> DEFINE x == At(fds[Top.fd], Here)
<1>1. CASE OpenFile
  <2> HIDE DEF x
  <2>1. /\ pc = "openFile" /\ UNCHANGED <<parts, base, stack, found, outcome>>
        /\ outcome = "none" /\ fresh = 0 /\ stack # <<>> /\ entry.path # <<>>
    BY <1>1 DEF OpenFile, PlaceInv, DescriptorInv
  <2>2. CASE SameFile(x, Regular)
    <3>1. /\ x \in Regular /\ x = entry.node
          /\ fds' = Opened(x) /\ fresh' = NewFd /\ pc' = "yield" /\ UNCHANGED entry
      BY <1>1, <2>2 DEF OpenFile, SameFile, x
    <3>2. DescriptorInv' /\ FrameInv'
      BY <2>1, <3>1, FreshOpened
    <3>3. EntryInv' /\ PlaceInv'
      BY <2>1, <3>1 DEF EntryInv, PlaceInv
    <3> QED  BY <3>2, <3>3
  <2>3. CASE ~SameFile(x, Regular)
    <3>1. pc' = "loop" /\ entry' = NoEntry /\ fresh' = 0 /\ fds' = fds
      BY <1>1, <2>3 DEF OpenFile, Loops, x
    <3>2. FrameInv'
      BY <2>1, <3>1, FramesStay DEF FrameInv
    <3>3. DescriptorInv' /\ EntryInv' /\ PlaceInv'
      BY <2>1, <3>1, NoEntryTyped DEF DescriptorInv, EntryInv, PlaceInv
    <3> QED  BY <3>2, <3>3
  <2> QED  BY <2>2, <2>3
<1>2. CASE OpenChild
  <2> HIDE DEF x
  <2>1. /\ pc = "openChild" /\ UNCHANGED <<parts, base, stack, entry, found, outcome>>
        /\ outcome = "none" /\ fresh = 0 /\ stack # <<>> /\ entry.path # <<>>
    BY <1>2 DEF OpenChild, PlaceInv, DescriptorInv
  <2>2. CASE SameFile(x, Dir)
    <3>1. x \in Dir /\ fds' = Opened(x) /\ fresh' = NewFd /\ pc' = "scan"
      BY <1>2, <2>2 DEF OpenChild, SameFile, x
    <3>2. DescriptorInv' /\ FrameInv'
      BY <2>1, <3>1, FreshOpened
    <3>3. EntryInv' /\ PlaceInv'
      BY <2>1, <3>1 DEF EntryInv, PlaceInv
    <3> QED  BY <3>2, <3>3
  <2>3. CASE ~SameFile(x, Dir)
    <3>1. pc' \in {"yield", "skip"} /\ fresh' = 0 /\ fds' = fds
      BY <1>2, <2>1, <2>3 DEF OpenChild, x
    <3>a. entry.node \in Dir
      BY <2>1 DEF EntryInv
    <3>2. FrameInv'
      BY <2>1, <3>1, FramesStay DEF FrameInv
    <3>3. EntryInv'
      BY <2>1, <3>1, <3>a, EntryStays
    <3>4. DescriptorInv' /\ PlaceInv'
      BY <2>1, <3>1 DEF DescriptorInv, PlaceInv
    <3> QED  BY <3>2, <3>3, <3>4
  <2> QED  BY <2>2, <2>3
<1>3. CASE YieldEntry
  <2>1. /\ pc = "yield" /\ UNCHANGED <<parts, base, stack>> /\ fds' = Closed({fresh})
        /\ fresh' = 0 /\ pc' \in {"loop", "finally"} /\ outcome = "none"
        /\ entry' \in {entry, NoEntry} /\ (outcome' # "none" <=> pc' = "finally")
    BY <1>3 DEF YieldEntry, Loops, Ends, PlaceInv
  <2>2. DescriptorInv' /\ FrameInv'
    BY <2>1, FreshClosed
  <2>3. found' = found \cup {[path |-> entry.path, node |-> entry.node]}
    BY <1>3 DEF YieldEntry, Taken
  <2>4. [path |-> entry.path, node |-> entry.node] \in [path : Seq(Name), node : Dir \cup Regular]
    BY <2>1 DEF EntryInv
  <2>5. EntryInv'
    BY <2>1, <2>3, <2>4, NoEntryTyped DEF EntryInv
  <2>6. PlaceInv'
    BY <2>1 DEF PlaceInv
  <2> QED  BY <2>2, <2>5, <2>6
<1>4. CASE CloseFrames
  <2> DEFINE gone == {stack[i].fd : i \in 1 .. Len(stack)}
  <2>1. /\ pc = "finally" /\ pc' = "done" /\ stack' = <<>> /\ entry' = NoEntry
        /\ fds' = Closed(gone)
        /\ UNCHANGED <<parts, base, fresh, found, outcome>>
    BY <1>4 DEF CloseFrames
  <2>2. /\ DOMAIN fds' = DOMAIN fds \ gone
        /\ fds' \in [DOMAIN fds \ gone -> Dir \cup Regular]
        /\ IsFiniteSet(DOMAIN fds \ gone)
    <3> HIDE DEF gone
    <3> QED  BY <2>1, FdsClosed
  <2>3. fresh = 0
    BY <2>1 DEF DescriptorInv
  <2>4. outcome # "moved" => DOMAIN fds \ gone = {}
    BY <2>3 DEF DescriptorInv
  <2>5. DescriptorInv'
    <3> HIDE DEF gone
    <3> QED  BY <2>1, <2>2, <2>3, <2>4 DEF DescriptorInv
  <2>6. FrameInv'
    BY <2>1 DEF FrameInv
  <2>7. EntryInv'
    BY <2>1, NoEntryTyped DEF EntryInv
  <2>8. PlaceInv'
    BY <2>1 DEF PlaceInv
  <2> QED  BY <2>5, <2>6, <2>7, <2>8
<1> QED  BY <1>1, <1>2, <1>3, <1>4 DEF FileStep

(* Every step keeps the invariant.                                           *)
LEMMA WalkInvStep == WalkInv /\ [WalkNext]_walkVars => WalkInv'
<1> SUFFICES ASSUME WalkInv, [WalkNext]_walkVars PROVE WalkInv'
  OBVIOUS
<1>1. SearchTypes'
  BY SearchTypesStep DEF WalkInv
<1>2. CASE Walk
  BY <1>1, <1>2, OpenStep, QuietStep, FrameStepKeeps, FileStepKeeps
     DEF Walk, WalkInv, Quiet, FrameStep, FileStep
<1>3. CASE UNCHANGED <<parts, base, fds, stack, pc, outcome, entry, fresh, found>>
  <2>1. DescriptorInv' /\ FrameInv'
    BY <1>3, FramesStay DEF WalkInv, FrameInv, DescriptorInv
  <2>2. EntryInv' /\ PlaceInv'
    BY <1>3 DEF WalkInv, EntryInv, PlaceInv
  <2> QED  BY <1>1, <2>1, <2>2 DEF WalkInv
<1> QED  BY <1>2, <1>3 DEF WalkNext, Change, walkVars, request, counts

(* Every variable keeps its type.                                            *)
THEOREM WalkTypeCorrect == WalkSpec => []WalkTypeOK
<1>1. WalkInv => WalkTypeOK
  <2> SUFFICES ASSUME WalkInv PROVE WalkTypeOK
    OBVIOUS
  <2>1. stack \in Seq([fd : DOMAIN fds, path : Seq(Name), states : SUBSET (0 .. Len(parts)),
                       todo : SUBSET Name])
    <3> DEFINE F == [fd : DOMAIN fds, path : Seq(Name), states : SUBSET (0 .. Len(parts)),
                     todo : SUBSET Name]
    <3>1. ASSUME NEW i \in 1 .. Len(stack) PROVE stack[i] \in F
      <4>1. /\ stack[i] \in FramePart /\ stack[i].fd \in DOMAIN fds
            /\ stack[i].states \subseteq 0 .. Len(parts)
        BY DEF WalkInv, FrameInv
      <4> QED  BY <4>1 DEF FramePart
    <3>2. stack \in Seq(FramePart)
      BY DEF WalkInv, FrameInv
    <3> HIDE DEF F
    <3>3. stack \in Seq(F)
      BY <3>1, <3>2
    <3> QED  BY <3>3 DEF F
  <2>2. entry \in [path : Seq(Name), node : Node \cup {None}, states : SUBSET (0 .. Len(parts))]
    BY DEF WalkInv, EntryInv
  <2> QED  BY <2>1, <2>2 DEF WalkTypeOK, WalkInv, SearchTypes, DescriptorInv, FrameInv, EntryInv,
              WalkStates
<1> QED  BY <1>1, WalkInvInit, WalkInvStep, PTL DEF WalkSpec

(* No way out of a search leaves a descriptor open.                          *)
THEOREM WalkClosesAll == WalkSpec => []NoDescriptorLeft
<1>1. WalkInv => NoDescriptorLeft
  <2> SUFFICES ASSUME WalkInv, pc = "done", outcome # "moved", NEW d \in DOMAIN fds PROVE FALSE
    BY DEF NoDescriptorLeft
  <2>1. stack = <<>> /\ fresh = 0
    BY DEF WalkInv, PlaceInv, DescriptorInv
  <2> QED  BY <2>1 DEF WalkInv, DescriptorInv
<1> QED  BY <1>1, WalkInvInit, WalkInvStep, PTL DEF WalkSpec

-----------------------------------------------------------------------------
(* What a set of positions means.  Reach: the first j parts cover the path;  *)
(* a position is one that is reached, or the one before a "**" that is.      *)
PartOver(ps, i, u, v, path, last) ==
  IF ps[i] = DoubleStar
    THEN /\ u <= v
         /\ \A k \in u + 1 .. v :
              /\ path[k] \notin Hidden
              /\ path[k] \in Pruned => k = Len(path) /\ last \notin Dir
    ELSE v = u + 1 /\ SegmentMatches(path[v], ps[i])

Fits(ps, f, path, last, j) ==
  /\ f \in [0 .. j -> 0 .. Len(path)] /\ f[0] = 0 /\ f[j] = Len(path)
  /\ \A i \in 1 .. j : PartOver(ps, i, f[i - 1], f[i], path, last)
Reach(ps, path, last, j) == \E f : Fits(ps, f, path, last, j)

AllStars(ps, i, j) == \A k \in i + 1 .. j : ps[k] = DoubleStar

Positions(ps, path, last) ==
  {j \in 0 .. Len(ps) :
     \/ Reach(ps, path, last, j)
     \/ j < Len(ps) /\ ps[j + 1] = DoubleStar /\ Reach(ps, path, last, j + 1)}

(* Parts cover the path from left to right.                                  *)
LEMMA FitsRises ==
  ASSUME NEW f, NEW path \in Seq(Name), NEW last, NEW j \in Nat, Fits(parts, f, path, last, j),
         NEW i \in 0 .. j, NEW k \in i .. j
  PROVE  f[i] <= f[k]
<1> DEFINE Bad == {m \in i .. j : ~(f[i] <= f[m])}
<1>1. /\ \A m \in 0 .. j : f[m] \in Nat
      /\ \A m \in 1 .. j : PartOver(parts, m, f[m - 1], f[m], path, last)
  BY DEF Fits
<1>2. \A m \in 1 .. j : f[m - 1] <= f[m]
  BY <1>1 DEF PartOver
<1>3. Bad = {}
  <2> SUFFICES ASSUME Bad # {} PROVE FALSE
    OBVIOUS
  <2>1. Bad \in SUBSET Nat
    OBVIOUS
  <2>2. PICK m \in Bad : \A l \in Bad : m <= l
    <3> HIDE DEF Bad
    <3> QED  BY <2>1, LeastNumber
  <2>3. m # i /\ m - 1 \in i .. j /\ m - 1 \notin Bad
    BY <1>1, <2>2
  <2>4. f[i] <= f[m - 1] /\ ~(f[i] <= f[m])
    BY <2>2, <2>3
  <2>5. f[m - 1] <= f[m] /\ f[i] \in Nat /\ f[m] \in Nat /\ f[m - 1] \in Nat
    BY <1>1, <1>2, <2>2, <2>3
  <2> QED  BY <2>4, <2>5
<1> QED  BY <1>3

Extends(p, q) == Len(p) < Len(q) /\ \A k \in 1 .. Len(p) : q[k] = p[k]

(* What a part makes of a directory's path is what it makes of the beginning *)
(* of a path below it.                                                       *)
LEMMA SamePart ==
  ASSUME NEW p \in Seq(Name), NEW q \in Seq(Name), Extends(p, q), NEW d \in Dir, NEW x,
         NEW i, NEW u \in Nat, NEW v \in 0 .. Len(p)
  PROVE  PartOver(parts, i, u, v, q, x) <=> PartOver(parts, i, u, v, p, d)
<1>1. CASE parts[i] = DoubleStar
  <2>1. \A k \in u + 1 .. v : q[k] = p[k] /\ k < Len(q) /\ k \in 1 .. Len(p)
    BY DEF Extends
  <2> QED  BY <1>1, <2>1 DEF PartOver
<1>2. CASE parts[i] # DoubleStar
  <2>1. v = u + 1 => q[v] = p[v]
    BY DEF Extends
  <2> QED  BY <1>2, <2>1 DEF PartOver
<1> QED  BY <1>1, <1>2

(* At the base the pattern is where leading "**" parts let it be.            *)
LEMMA EmptyReach ==
  ASSUME NEW last, NEW j \in Nat
  PROVE  Reach(parts, <<>>, last, j) <=> AllStars(parts, 0, j)
<1>1. ASSUME AllStars(parts, 0, j) PROVE Reach(parts, <<>>, last, j)
  <2> DEFINE f == [i \in 0 .. j |-> 0]
  <2>1. Fits(parts, f, <<>>, last, j)
    BY <1>1 DEF Fits, PartOver, AllStars
  <2> QED  BY <2>1 DEF Reach
<1>2. ASSUME NEW f, Fits(parts, f, <<>>, last, j), NEW k \in 1 .. j PROVE parts[k] = DoubleStar
  <2>1. f[k] = 0 /\ f[k - 1] = 0 /\ PartOver(parts, k, f[k - 1], f[k], <<>>, last)
    BY <1>2 DEF Fits
  <2> QED  BY <2>1 DEF PartOver
<1> QED  BY <1>1, <1>2 DEF Reach, AllStars

LEMMA StartPositions ==
  ASSUME SearchTypes, NEW last
  PROVE  Positions(parts, <<>>, last) = InitialStates
<1>1. Len(parts) \in Nat
  BY PartsTyped
<1>2. ASSUME NEW j \in 0 .. Len(parts)
      PROVE  j \in Positions(parts, <<>>, last) <=> AllStars(parts, 0, j)
  <2>1. AllStars(parts, 0, j + 1) => AllStars(parts, 0, j)
    BY DEF AllStars
  <2>2. j \in Nat /\ j + 1 \in Nat
    OBVIOUS
  <2> QED  BY <2>1, <2>2, EmptyReach DEF Positions
<1>3. ASSUME NEW j \in 0 .. Len(parts)
      PROVE  j \in InitialStates <=> AllStars(parts, 0, j)
  BY DEF InitialStates, Closure, AllStars
<1> QED  BY <1>2, <1>3 DEF Positions, InitialStates, Closure

(* A path matches when the last position is among its positions.             *)
LEMMA MatchIsLastPosition ==
  ASSUME SearchTypes, NEW path, NEW last
  PROVE  Matches(path, last) <=> IsMatch(Positions(parts, path, last))
<1>1. Len(parts) \in Nat
  BY PartsTyped
<1>2. \A f : f \in Cover(path, last) <=> Fits(parts, f, path, last, Len(parts))
  BY DEF Cover, Fits, PartOver
<1> QED  BY <1>1, <1>2 DEF Matches, IsMatch, Positions, Reach

(* Where the parts that cover a path leave the path of a directory above it. *)
LEMMA Cut ==
  ASSUME NEW p \in Seq(Name), NEW q \in Seq(Name), Extends(p, q), NEW d \in Dir, NEW x,
         NEW j \in Nat, NEW f, Fits(parts, f, q, x, j)
  PROVE  \E i \in 1 .. j :
           /\ f[i - 1] <= Len(p) /\ \A t \in i .. j : Len(p) < f[t]
           /\ IF parts[i] = DoubleStar THEN Reach(parts, p, d, i)
              ELSE f[i - 1] = Len(p) /\ Reach(parts, p, d, i - 1)
<1> DEFINE n == Len(p)
           T == {t \in 0 .. j : n < f[t]}
<1>1. /\ n \in Nat /\ Len(q) \in Nat /\ n < Len(q)
      /\ \A t \in 0 .. j : f[t] \in 0 .. Len(q)
      /\ f[0] = 0 /\ f[j] = Len(q)
      /\ \A t \in 1 .. j : PartOver(parts, t, f[t - 1], f[t], q, x)
  BY DEF Extends, Fits
<1> HIDE DEF n
<1>2. T \in SUBSET Nat /\ T # {}
  <2>1. j \in T
    BY <1>1
  <2> QED  BY <2>1
<1>3. PICK i \in T : \A t \in T : i <= t
  <2> HIDE DEF T
  <2> QED  BY <1>2, LeastNumber
<1>4. i \in 1 .. j /\ \A t \in 0 .. i - 1 : f[t] \in 0 .. n
  <2>1. i \in 0 .. j /\ n < f[i]
    BY <1>3
  <2>2. i \in 1 .. j
    BY <1>1, <2>1
  <2>3. ASSUME NEW t \in 0 .. i - 1 PROVE f[t] \in 0 .. n
    <3>1. t \in 0 .. j /\ ~(i <= t) /\ f[t] \in Nat
      BY <1>1, <2>2
    <3>2. t \notin T
      <4> HIDE DEF T
      <4> QED  BY <1>3, <3>1
    <3> QED  BY <1>1, <3>1, <3>2
  <2> QED  BY <2>2, <2>3
<1>5. \A t \in i .. j : n < f[t]
  <2>1. ASSUME NEW t \in i .. j PROVE f[i] <= f[t]
    BY <1>4, <2>1, FitsRises
  <2> QED  BY <1>1, <1>3, <1>4, <2>1
<1>6. ASSUME NEW t \in 1 .. i - 1 PROVE PartOver(parts, t, f[t - 1], f[t], p, d)
  <2>1. f[t - 1] \in Nat /\ f[t] \in 0 .. Len(p) /\ PartOver(parts, t, f[t - 1], f[t], q, x)
    BY <1>1, <1>4 DEF n
  <2> QED  BY <2>1, SamePart
<1>7. PartOver(parts, i, f[i - 1], f[i], q, x) /\ f[i - 1] \in 0 .. n /\ f[i] \in Nat /\ n < f[i]
  BY <1>1, <1>3, <1>4
<1>8. CASE parts[i] = DoubleStar
  <2> DEFINE g == [t \in 0 .. i |-> IF t = i THEN n ELSE f[t]]
  <2>1. PartOver(parts, i, f[i - 1], n, q, x)
    BY <1>1, <1>7, <1>8 DEF PartOver
  <2>2. PartOver(parts, i, f[i - 1], n, p, d)
    <3>1. n \in 0 .. Len(p) /\ f[i - 1] \in Nat
      BY <1>1, <1>7 DEF n
    <3> QED  BY <2>1, <3>1, SamePart
  <2>3. g \in [0 .. i -> 0 .. n] /\ g[0] = 0 /\ g[i] = n
    BY <1>1, <1>4
  <2>4. ASSUME NEW t \in 1 .. i PROVE PartOver(parts, t, g[t - 1], g[t], p, d)
    <3>1. CASE t = i
      BY <1>4, <2>2, <3>1
    <3>2. CASE t # i
      <4>1. t \in 1 .. i - 1 /\ g[t] = f[t] /\ g[t - 1] = f[t - 1]
        BY <1>4, <3>2
      <4> QED  BY <1>6, <4>1
    <3> QED  BY <3>1, <3>2
  <2> HIDE DEF g
  <2>5. Reach(parts, p, d, i)
    BY <2>3, <2>4 DEF Reach, Fits, n
  <2> QED  BY <1>4, <1>5, <1>7, <1>8, <2>5 DEF n
<1>9. CASE parts[i] # DoubleStar
  <2> DEFINE g == [t \in 0 .. i - 1 |-> f[t]]
  <2>1. f[i - 1] = n
    BY <1>1, <1>7, <1>9 DEF PartOver
  <2>2. g \in [0 .. i - 1 -> 0 .. n] /\ g[0] = 0 /\ g[i - 1] = n
    BY <1>1, <1>4, <2>1
  <2>3. ASSUME NEW t \in 1 .. i - 1 PROVE PartOver(parts, t, g[t - 1], g[t], p, d)
    <3>1. g[t] = f[t] /\ g[t - 1] = f[t - 1]
      BY <1>4
    <3> QED  BY <1>6, <3>1
  <2> HIDE DEF g
  <2>4. Reach(parts, p, d, i - 1)
    BY <2>2, <2>3 DEF Reach, Fits, n
  <2> QED  BY <1>4, <1>5, <1>7, <1>9, <2>1, <2>4 DEF n
<1> QED  BY <1>8, <1>9

LEMMA AppendExtends ==
  ASSUME NEW p \in Seq(Name), NEW a \in Name
  PROVE  /\ Append(p, a) \in Seq(Name) /\ Extends(p, Append(p, a))
         /\ Len(Append(p, a)) = Len(p) + 1 /\ Append(p, a)[Len(p) + 1] = a
  BY DEF Extends

(* One name more: the "**" before a reached position takes it, or the next   *)
(* part does.                                                                *)
LEMMA StarTakes ==
  ASSUME NEW p \in Seq(Name), NEW a \in Name, NEW d \in Dir, NEW x,
         NEW i \in Nat \ {0}, NEW j \in Nat, i <= j, Reach(parts, p, d, i),
         parts[i] = DoubleStar, a \notin Hidden, ~(x \in Dir /\ a \in Pruned), AllStars(parts, i, j)
  PROVE  Reach(parts, Append(p, a), x, j)
<1> DEFINE n == Len(p)
           q == Append(p, a)
<1>1. /\ q \in Seq(Name) /\ Extends(p, q) /\ Len(q) = n + 1 /\ q[n + 1] = a /\ n \in Nat
  BY AppendExtends
<1>2. PICK f : Fits(parts, f, p, d, i)
  BY DEF Reach
<1>3. /\ \A t \in 0 .. i : f[t] \in 0 .. n
      /\ f[0] = 0 /\ f[i] = n
      /\ \A t \in 1 .. i : PartOver(parts, t, f[t - 1], f[t], p, d)
  BY <1>2 DEF Fits
<1>4. ASSUME NEW t \in 1 .. i PROVE PartOver(parts, t, f[t - 1], f[t], q, x)
  <2>1. f[t - 1] \in Nat /\ f[t] \in 0 .. Len(p) /\ PartOver(parts, t, f[t - 1], f[t], p, d)
    BY <1>3
  <2> HIDE DEF q
  <2> QED  BY <1>1, <2>1, SamePart
<1> HIDE DEF n, q
<1>5. PartOver(parts, i, f[i - 1], n + 1, q, x)
  <2>1. PartOver(parts, i, f[i - 1], n, q, x) /\ f[i - 1] \in 0 .. n
    BY <1>3, <1>4
  <2> QED  BY <1>1, <2>1 DEF PartOver
<1> DEFINE g == [t \in 0 .. j |-> IF t < i THEN f[t] ELSE n + 1]
<1>6. g \in [0 .. j -> 0 .. Len(q)] /\ g[0] = 0 /\ g[j] = Len(q)
  BY <1>1, <1>3
<1>7. ASSUME NEW t \in 1 .. j PROVE PartOver(parts, t, g[t - 1], g[t], q, x)
  <2>1. CASE t < i
    BY <1>4, <2>1
  <2>2. CASE t = i
    BY <1>5, <2>2
  <2>3. CASE t > i
    BY <1>1, <2>3 DEF PartOver, AllStars
  <2> QED  BY <2>1, <2>2, <2>3
<1> HIDE DEF g
<1>8. Reach(parts, q, x, j)
  BY <1>6, <1>7 DEF Reach, Fits
<1> QED  BY <1>8 DEF q

(* The part after a reached position takes one name more.                    *)
LEMMA PartTakes ==
  ASSUME NEW p \in Seq(Name), NEW a \in Name, NEW d \in Dir, NEW x,
         NEW i \in Nat, NEW j \in Nat, i < j, Reach(parts, p, d, i),
         parts[i + 1] # DoubleStar, SegmentMatches(a, parts[i + 1]), AllStars(parts, i + 1, j)
  PROVE  Reach(parts, Append(p, a), x, j)
<1> DEFINE n == Len(p)
           q == Append(p, a)
<1>1. /\ q \in Seq(Name) /\ Extends(p, q) /\ Len(q) = n + 1 /\ q[n + 1] = a /\ n \in Nat
  BY AppendExtends
<1>2. PICK f : Fits(parts, f, p, d, i)
  BY DEF Reach
<1>3. /\ \A t \in 0 .. i : f[t] \in 0 .. n
      /\ f[0] = 0 /\ f[i] = n
      /\ \A t \in 1 .. i : PartOver(parts, t, f[t - 1], f[t], p, d)
  BY <1>2 DEF Fits
<1>4. ASSUME NEW t \in 1 .. i PROVE PartOver(parts, t, f[t - 1], f[t], q, x)
  <2>1. f[t - 1] \in Nat /\ f[t] \in 0 .. Len(p) /\ PartOver(parts, t, f[t - 1], f[t], p, d)
    BY <1>3
  <2> HIDE DEF q
  <2> QED  BY <1>1, <2>1, SamePart
<1> HIDE DEF n, q
<1>5. PartOver(parts, i + 1, n, n + 1, q, x)
  BY <1>1 DEF PartOver
<1> DEFINE g == [t \in 0 .. j |-> IF t <= i THEN f[t] ELSE n + 1]
<1>6. g \in [0 .. j -> 0 .. Len(q)] /\ g[0] = 0 /\ g[j] = Len(q)
  BY <1>1, <1>3
<1>7. ASSUME NEW t \in 1 .. j PROVE PartOver(parts, t, g[t - 1], g[t], q, x)
  <2>1. CASE t <= i
    BY <1>4, <2>1
  <2>2. CASE t = i + 1
    BY <1>3, <1>5, <2>2
  <2>3. CASE t > i + 1
    BY <1>1, <2>3 DEF PartOver, AllStars
  <2> QED  BY <2>1, <2>2, <2>3
<1> HIDE DEF g
<1>8. Reach(parts, q, x, j)
  BY <1>6, <1>7 DEF Reach, Fits
<1> QED  BY <1>8 DEF q

(* A "**" may take nothing.                                                  *)
LEMMA StarReach ==
  ASSUME NEW p \in Seq(Name), NEW d, NEW i \in Nat, Reach(parts, p, d, i),
         parts[i + 1] = DoubleStar
  PROVE  Reach(parts, p, d, i + 1)
<1>1. PICK f : Fits(parts, f, p, d, i)
  BY DEF Reach
<1> DEFINE g == [t \in 0 .. i + 1 |-> IF t = i + 1 THEN Len(p) ELSE f[t]]
<1>2. g \in [0 .. i + 1 -> 0 .. Len(p)] /\ g[0] = 0 /\ g[i + 1] = Len(p)
  BY <1>1 DEF Fits
<1>3. ASSUME NEW t \in 1 .. i + 1 PROVE PartOver(parts, t, g[t - 1], g[t], p, d)
  <2>1. CASE t = i + 1
    <3>1. g[t] = Len(p) /\ g[t - 1] = Len(p) /\ Len(p) \in Nat /\ parts[t] = DoubleStar
      BY <1>1, <2>1 DEF Fits
    <3> HIDE DEF g
    <3> QED  BY <3>1 DEF PartOver
  <2>2. CASE t # i + 1
    <3>1. t \in 1 .. i /\ g[t] = f[t] /\ g[t - 1] = f[t - 1]
      BY <2>2
    <3> QED  BY <1>1, <3>1 DEF Fits
  <2> QED  BY <2>1, <2>2
<1> HIDE DEF g
<1> QED  BY <1>2, <1>3 DEF Reach, Fits

(* The positions the code computes for an entry, from those of its directory.*)
Stays(w, S, a, prune) ==
  /\ w \in S /\ w < Len(parts) /\ parts[w + 1] = DoubleStar
  /\ a \notin Hidden /\ ~prune
Steps(w, S, a) ==
  /\ w \in S /\ w < Len(parts) /\ parts[w + 1] # DoubleStar
  /\ SegmentMatches(a, parts[w + 1])

(* What advance() adds, position by position.                                *)
LEMMA AdvanceTo ==
  ASSUME SearchTypes, NEW S \in SUBSET (0 .. Len(parts)), NEW a, NEW prune \in BOOLEAN,
         NEW j \in 0 .. Len(parts)
  PROVE  j \in Advance(S, a, prune) <=>
           \E w \in 0 .. Len(parts) :
             \/ Stays(w, S, a, prune) /\ w <= j /\ AllStars(parts, w, j)
             \/ Steps(w, S, a) /\ w + 1 <= j /\ AllStars(parts, w + 1, j)
<1>1. Len(parts) \in Nat
  BY PartsTyped
<1> DEFINE stay == {i \in S : i < Len(parts) /\ parts[i + 1] = DoubleStar
                              /\ a \notin Hidden /\ ~prune}
           step == {i + 1 : i \in {k \in S : k < Len(parts) /\ parts[k + 1] # DoubleStar
                                             /\ SegmentMatches(a, parts[k + 1])}}
<1>2. j \in Advance(S, a, prune) <=> \E i \in stay \cup step : i <= j /\ AllStars(parts, i, j)
  BY DEF Advance, Closure, AllStars
<1>3. \A i : i \in stay <=> Stays(i, S, a, prune)
  BY DEF Stays
<1>4. \A i : i \in step <=> \E w : Steps(w, S, a) /\ i = w + 1
  BY DEF Steps
<1>5. \A w : Stays(w, S, a, prune) \/ Steps(w, S, a) => w \in 0 .. Len(parts)
  BY DEF Stays, Steps
<1> HIDE DEF stay, step
<1> QED  BY <1>2, <1>3, <1>4, <1>5

(* A position of the longer path comes from one of the shorter path.         *)
LEMMA ReachFrom ==
  ASSUME SearchTypes, NEW p \in Seq(Name), NEW a \in Name, NEW d \in Dir, NEW x,
         NEW j \in 0 .. Len(parts), Reach(parts, Append(p, a), x, j)
  PROVE  \E w \in 0 .. Len(parts) :
           \/ /\ Stays(w, Positions(parts, p, d), a, x \in Dir /\ a \in Pruned)
              /\ w < j /\ AllStars(parts, w, j)
           \/ /\ Steps(w, Positions(parts, p, d), a)
              /\ w + 1 <= j /\ AllStars(parts, w + 1, j)
<1> DEFINE n == Len(p)
           q == Append(p, a)
<1>1. /\ q \in Seq(Name) /\ Extends(p, q) /\ Len(q) = n + 1 /\ q[n + 1] = a /\ n \in Nat
      /\ Len(parts) \in Nat
  BY AppendExtends, PartsTyped
<1>2. PICK f : Fits(parts, f, q, x, j)
  BY DEF Reach
<1>3. /\ \A t \in 0 .. j : f[t] \in 0 .. n + 1
      /\ \A t \in 1 .. j : PartOver(parts, t, f[t - 1], f[t], q, x)
  BY <1>1, <1>2 DEF Fits
<1> HIDE DEF q
<1>4. PICK i \in 1 .. j :
        /\ f[i - 1] <= n /\ \A t \in i .. j : n < f[t]
        /\ IF parts[i] = DoubleStar THEN Reach(parts, p, d, i)
           ELSE f[i - 1] = n /\ Reach(parts, p, d, i - 1)
  <2>1. j \in Nat /\ n = Len(p)
    BY <1>1
  <2> HIDE DEF n
  <2> QED  BY <1>1, <1>2, <2>1, Cut
<1> HIDE DEF n
<1>5. \A t \in i .. j : f[t] = n + 1
  BY <1>1, <1>3, <1>4
<1>6. ASSUME NEW k \in i + 1 .. j PROVE parts[k] = DoubleStar
  <2>1. f[k - 1] = n + 1 /\ f[k] = n + 1 /\ PartOver(parts, k, f[k - 1], f[k], q, x)
    BY <1>3, <1>5
  <2> QED  BY <1>1, <2>1 DEF PartOver
<1>7. PartOver(parts, i, f[i - 1], n + 1, q, x) /\ f[i - 1] \in 0 .. n
  BY <1>1, <1>3, <1>4, <1>5
<1>8. i - 1 \in 0 .. Len(parts) /\ i - 1 < Len(parts) /\ (i - 1) + 1 = i /\ i - 1 < j
  BY <1>1
<1>9. CASE parts[i] = DoubleStar
  <2>1. a \notin Hidden /\ ~(x \in Dir /\ a \in Pruned)
    BY <1>1, <1>7, <1>9 DEF PartOver
  <2>2. i - 1 \in Positions(parts, p, d)
    BY <1>4, <1>8, <1>9 DEF Positions
  <2>3. AllStars(parts, i - 1, j)
    BY <1>6, <1>9 DEF AllStars
  <2> QED  BY <1>8, <1>9, <2>1, <2>2, <2>3 DEF Stays
<1>10. CASE parts[i] # DoubleStar
  <2>1. SegmentMatches(a, parts[i])
    BY <1>1, <1>7, <1>10 DEF PartOver
  <2>2. i - 1 \in Positions(parts, p, d)
    BY <1>4, <1>8, <1>10 DEF Positions
  <2>3. AllStars(parts, i, j)
    BY <1>6 DEF AllStars
  <2> QED  BY <1>8, <1>10, <2>1, <2>2, <2>3 DEF Steps
<1> QED  BY <1>9, <1>10

(* And each that advance() computes is one of the longer path.               *)
LEMMA ReachTo ==
  ASSUME SearchTypes, NEW p \in Seq(Name), NEW a \in Name, NEW d \in Dir, NEW x,
         NEW j \in 0 .. Len(parts), NEW w \in 0 .. Len(parts),
         \/ /\ Stays(w, Positions(parts, p, d), a, x \in Dir /\ a \in Pruned)
            /\ w < j /\ AllStars(parts, w, j)
         \/ /\ Steps(w, Positions(parts, p, d), a)
            /\ w + 1 <= j /\ AllStars(parts, w + 1, j)
  PROVE  Reach(parts, Append(p, a), x, j)
<1>1. Len(parts) \in Nat
  BY PartsTyped
<1>2. CASE /\ Stays(w, Positions(parts, p, d), a, x \in Dir /\ a \in Pruned)
           /\ w < j /\ AllStars(parts, w, j)
  <2>1. Reach(parts, p, d, w + 1)
    BY <1>2, StarReach DEF Stays, Positions
  <2>2. AllStars(parts, w + 1, j)
    BY <1>2 DEF AllStars
  <2>3. w + 1 \in Nat \ {0} /\ j \in Nat /\ w + 1 <= j
    BY <1>2
  <2> QED  BY <1>2, <2>1, <2>2, <2>3, StarTakes DEF Stays
<1>3. CASE /\ Steps(w, Positions(parts, p, d), a)
           /\ w + 1 <= j /\ AllStars(parts, w + 1, j)
  <2>1. Reach(parts, p, d, w) /\ w \in Nat /\ j \in Nat /\ w < j
    BY <1>3 DEF Steps, Positions
  <2> QED  BY <1>3, <2>1, PartTakes DEF Steps
<1> QED  BY <1>2, <1>3

(* PrunedDirectories.advance and _GlobPattern.advance compute exactly the    *)
(* positions of a path with one name more, for every pattern and path.       *)
THEOREM AdvanceIsExact ==
  ASSUME SearchTypes, NEW p \in Seq(Name), NEW a \in Name, NEW d \in Dir, NEW x
  PROVE  Positions(parts, Append(p, a), x) =
           Advance(Positions(parts, p, d), a, x \in Dir /\ a \in Pruned)
<1> DEFINE S == Positions(parts, p, d)
           prune == x \in Dir /\ a \in Pruned
           q == Append(p, a)
<1>1. Len(parts) \in Nat /\ S \in SUBSET (0 .. Len(parts)) /\ prune \in BOOLEAN
  BY PartsTyped DEF Positions
<1>2. ASSUME NEW j \in 0 .. Len(parts)
      PROVE  j \in Positions(parts, q, x) <=> j \in Advance(S, a, prune)
  <2>1. j \in Positions(parts, q, x) <=>
          \/ Reach(parts, q, x, j)
          \/ j < Len(parts) /\ parts[j + 1] = DoubleStar /\ Reach(parts, q, x, j + 1)
    BY DEF Positions
  <2> HIDE DEF S, prune, q
  <2>2. j \in Advance(S, a, prune) <=>
          \E w \in 0 .. Len(parts) :
             \/ Stays(w, S, a, prune) /\ w <= j /\ AllStars(parts, w, j)
             \/ Steps(w, S, a) /\ w + 1 <= j /\ AllStars(parts, w + 1, j)
    BY <1>1, AdvanceTo
  <2>3. \A k \in 0 .. Len(parts) :
          Reach(parts, q, x, k) <=>
            \E w \in 0 .. Len(parts) :
              \/ Stays(w, S, a, prune) /\ w < k /\ AllStars(parts, w, k)
              \/ Steps(w, S, a) /\ w + 1 <= k /\ AllStars(parts, w + 1, k)
    BY ReachFrom, ReachTo DEF S, prune, q
  <2>4. ASSUME NEW w \in 0 .. Len(parts), Steps(w, S, a), w + 1 <= j, AllStars(parts, w + 1, j)
        PROVE  Reach(parts, q, x, j)
    BY <2>3, <2>4
  <2>5. ASSUME NEW w \in 0 .. Len(parts), Stays(w, S, a, prune), w <= j, AllStars(parts, w, j)
        PROVE  \/ Reach(parts, q, x, j)
               \/ j < Len(parts) /\ parts[j + 1] = DoubleStar /\ Reach(parts, q, x, j + 1)
    <3>1. CASE w < j
      BY <2>3, <2>5, <3>1
    <3>2. CASE w = j
      <4>1. j < Len(parts) /\ parts[j + 1] = DoubleStar /\ j + 1 \in 0 .. Len(parts)
        BY <1>1, <2>5, <3>2 DEF Stays
      <4>2. AllStars(parts, w, j + 1) /\ w < j + 1
        BY <3>2, <4>1 DEF AllStars
      <4> QED  BY <2>3, <2>5, <4>1, <4>2
    <3> QED  BY <2>5, <3>1, <3>2
  <2>6. ASSUME Reach(parts, q, x, j)
        PROVE  \E w \in 0 .. Len(parts) :
             \/ Stays(w, S, a, prune) /\ w <= j /\ AllStars(parts, w, j)
             \/ Steps(w, S, a) /\ w + 1 <= j /\ AllStars(parts, w + 1, j)
    BY <2>3, <2>6
  <2>7. ASSUME j < Len(parts), parts[j + 1] = DoubleStar, Reach(parts, q, x, j + 1)
        PROVE  \E w \in 0 .. Len(parts) :
             \/ Stays(w, S, a, prune) /\ w <= j /\ AllStars(parts, w, j)
             \/ Steps(w, S, a) /\ w + 1 <= j /\ AllStars(parts, w + 1, j)
    <3>1. j + 1 \in 0 .. Len(parts)
      BY <1>1, <2>7
    <3>2. PICK w \in 0 .. Len(parts) :
              \/ Stays(w, S, a, prune) /\ w < j + 1 /\ AllStars(parts, w, j + 1)
              \/ Steps(w, S, a) /\ w + 1 <= j + 1 /\ AllStars(parts, w + 1, j + 1)
      BY <2>3, <2>7, <3>1
    <3>3. CASE Stays(w, S, a, prune) /\ w < j + 1 /\ AllStars(parts, w, j + 1)
      BY <3>3 DEF AllStars
    <3>4. CASE Steps(w, S, a) /\ w + 1 <= j + 1 /\ AllStars(parts, w + 1, j + 1)
      <4>1. w # j
        BY <2>7, <3>4 DEF Steps
      <4>2. w + 1 <= j /\ AllStars(parts, w + 1, j)
        BY <3>4, <4>1 DEF AllStars
      <4> QED  BY <3>4, <4>2
    <3> QED  BY <3>2, <3>3, <3>4
  <2> QED  BY <2>1, <2>2, <2>4, <2>5, <2>6, <2>7
<1>3. Positions(parts, q, x) \subseteq 0 .. Len(parts)
  BY DEF Positions
<1>4. Advance(S, a, prune) \subseteq 0 .. Len(parts)
  BY StatesTyped
<1> QED  BY <1>2, <1>3, <1>4

(* A directory above a match is one to descend into.                         *)
LEMMA AboveMatch ==
  ASSUME SearchTypes, NEW p \in Seq(Name), NEW q \in Seq(Name), Extends(p, q), NEW d \in Dir,
         NEW x, Matches(q, x)
  PROVE  CanDescend(Positions(parts, p, d))
<1>1. Len(parts) \in Nat
  BY PartsTyped
<1>2. Reach(parts, q, x, Len(parts))
  BY <1>1, MatchIsLastPosition DEF IsMatch, Positions
<1>3. PICK f : Fits(parts, f, q, x, Len(parts))
  BY <1>2 DEF Reach
<1>4. PICK i \in 1 .. Len(parts) :
        IF parts[i] = DoubleStar THEN Reach(parts, p, d, i) ELSE Reach(parts, p, d, i - 1)
  BY <1>1, <1>3, Cut
<1>5. i - 1 \in 0 .. Len(parts) /\ i - 1 < Len(parts) /\ (i - 1) + 1 = i
  BY <1>1
<1>6. i - 1 \in Positions(parts, p, d)
  BY <1>4, <1>5 DEF Positions
<1> QED  BY <1>5, <1>6 DEF CanDescend

-----------------------------------------------------------------------------
(* What the search knows of the pattern: the positions of its frames and of  *)
(* its entry are those of their paths; and it opens nothing outside.         *)
AtEntry == {"stat", "openFile", "openChild"}
PatternInv ==
  /\ \A i \in 1 .. Len(stack) :
       stack[i].states = Positions(parts, stack[i].path, Root)
  /\ pc \in AtEntry => entry.path = Append(Top.path, Here)
  /\ pc \in {"skip", "openFile", "openChild", "yield", "scan"} =>
       entry.states = Positions(parts, entry.path, entry.node)
  /\ pc \in {"openFile", "yield"} => Len(parts) \in entry.states
  /\ pc = "yield" /\ fresh # 0 => fds[fresh] = entry.node
  /\ \A e \in found : Reach(parts, e.path, e.node, Len(parts))

InsideInv ==
  /\ \A d \in Dir \ Outside, n \in Name : tree[d][n] \notin Outside
  /\ \A d \in DOMAIN fds : fds[d] \notin Outside

(* What a path leads to in a tree, and the entries a search should find.     *)
NodeIn(tr, path) ==
  LET node[i \in 0 .. Len(path)] ==
        IF i = 0 THEN Root
        ELSE IF node[i - 1] \in Dir THEN tr[node[i - 1]][path[i]] ELSE None
  IN  node[Len(path)]
ExpectedIn(tr, ps, bs) ==
  {p \in Paths : /\ NodeIn(tr, bs \o p) \in Dir \cup Regular
                 /\ Reach(ps, p, NodeIn(tr, bs \o p), Len(ps))}

Open(path, limit) == path \in Seq(Name \ Protected) /\ Len(path) <= limit

Placed(tr, bs, e, limit) == e.node = NodeIn(tr, bs \o e.path) /\ Open(e.path, limit)

(* In a tree nobody changes, the search is where its paths say it is.        *)
LocatedInv ==
  /\ \A i \in 1 .. Len(stack) :
       /\ fds[stack[i].fd] = NodeIn(tree, base \o stack[i].path)
       /\ Open(stack[i].path, MaxDepth)
  /\ pc \in {"openFile", "yield"} => Placed(tree, base, entry, MaxDepth + 1)
  /\ pc \in {"openChild", "scan"} => Placed(tree, base, entry, MaxDepth)
  /\ pc = "openFile" => entry.node \in Regular
  /\ pc = "scan" => fds[fresh] = entry.node
  /\ pc = "openBase" => /\ fds[fresh] = NodeIn(tree, entry.path)
                        /\ \A k \in 1 .. Len(entry.path) : entry.path[k] = base[k]
  /\ \A e \in found : e.path \in ExpectedIn(tree, parts, base)

(* What it has not found it will still come to.                              *)
Waits(frames, q) ==
  \E i \in 1 .. Len(frames) :
    Extends(frames[i].path, q) /\ q[Len(frames[i].path) + 1] \in frames[i].todo
Ahead(q) ==
  \/ pc \in {"openRoot", "openBase"}
  \/ pc \in {"stat", "openChild", "scan"} /\ Extends(entry.path, q)
  \/ pc \in {"stat", "openFile", "openChild", "scan", "yield"} /\ q = entry.path
  \/ pc \notin {"finally", "done"} /\ Waits(stack, q)
CoverInv ==
  ~truncated /\ outcome \in {"none", "ended"} =>
    \A q \in ExpectedIn(tree, parts, base) : Ahead(q) \/ \E e \in found : e.path = q

CompleteInv == changes = 0 => LocatedInv /\ CoverInv

-----------------------------------------------------------------------------
LEMMA AnyDirectory ==
  ASSUME NEW path, NEW d \in Dir, NEW e \in Dir
  PROVE  Positions(parts, path, d) = Positions(parts, path, e)
<1>1. \A j : Reach(parts, path, d, j) <=> Reach(parts, path, e, j)
  BY DEF Reach, Fits, PartOver
<1> QED  BY <1>1 DEF Positions

LEMMA MatchIsReach ==
  ASSUME SearchTypes, NEW path, NEW last
  PROVE  /\ Matches(path, last) <=> Reach(parts, path, last, Len(parts))
         /\ Matches(path, last) <=> IsMatch(Positions(parts, path, last))
<1>1. Len(parts) \in Nat
  BY PartsTyped
<1>2. IsMatch(Positions(parts, path, last)) <=> Reach(parts, path, last, Len(parts))
  BY <1>1 DEF IsMatch, Positions
<1> QED  BY <1>2, MatchIsLastPosition

(* The states the code computes for an entry are its positions.              *)
LEMMA StatesAreCorrect ==
  ASSUME WalkInv, PatternInv, pc = "stat", NEW x
  PROVE  StatesOf(x) = Positions(parts, entry.path, x)
<1>1. Len(stack) \in Nat \ {0} /\ Top \in FramePart /\ Top = stack[Len(stack)]
  BY DEF WalkInv, FrameInv, PlaceInv, Top
<1>2. Top.path \in Seq(Name) /\ Top.states = Positions(parts, Top.path, Root)
  BY <1>1 DEF FramePart, PatternInv
<1>3. entry.path = Append(Top.path, Here)
  BY DEF PatternInv, AtEntry
<1>4. Here \in Name
  <2>1. entry.path \in Seq(Name) /\ entry.path # <<>>
    BY DEF WalkInv, EntryInv, PlaceInv
  <2> QED  BY <2>1 DEF Here, Last
<1>5. Root \in Dir /\ SearchTypes
  BY WalkAssumption DEF WalkAssumption, WalkInv
<1> QED  BY <1>2, <1>3, <1>4, <1>5, AdvanceIsExact DEF StatesOf

(* The beginning, and every step.                                            *)
LEMMA PatternInvInit == WalkInit => PatternInv /\ InsideInv
  BY WalkAssumption DEF WalkAssumption, WalkInit, PatternInv, InsideInv, AtEntry

(* Steps that leave the frames as they are.                                  *)
LEMMA PatternStays ==
  ASSUME PatternInv, UNCHANGED <<stack, parts>>, fresh' = 0 \/ pc' # "yield",
         pc' \in AtEntry => pc \in AtEntry /\ entry'.path = entry.path,
         pc' \in {"skip", "openFile", "openChild", "yield", "scan"} =>
           entry'.states = Positions(parts, entry'.path, entry'.node),
         pc' \in {"openFile", "yield"} => Len(parts) \in entry'.states,
         \A e \in found' : Reach(parts, e.path, e.node, Len(parts))
  PROVE  PatternInv'
<1>2. Top' = Top
  BY DEF Top
<1>3. pc' \in AtEntry => Here' = Here
  BY DEF Here, Last
<1>4. \A i \in 1 .. Len(stack') : stack'[i].states = Positions(parts', stack'[i].path, Root)
  BY DEF PatternInv
<1>5. pc' \in AtEntry => entry'.path = Append(Top'.path, Here')
  BY <1>2, <1>3 DEF PatternInv
<1> QED  BY <1>4, <1>5 DEF PatternInv

LEMMA PatternStep == WalkInv /\ PatternInv /\ [WalkNext]_walkVars => PatternInv'
<1> SUFFICES ASSUME WalkInv, PatternInv, [WalkNext]_walkVars PROVE PatternInv'
  OBVIOUS
<1> USE DEF request, world, counts
<1>1. SearchTypes /\ Len(parts) \in Nat
  BY PartsTyped DEF WalkInv
<1>2. \A e \in found : Reach(parts, e.path, e.node, Len(parts))
  BY DEF PatternInv
<1>3. CASE OpenRoot \/ WalkEnds \/ StopAtBudget \/ SkipEntry \/ PassEntry \/ StatFails
  <2>1. UNCHANGED <<stack, parts, found>> /\ pc' \in {"openBase", "loop", "finally"}
    BY <1>3 DEF OpenRoot, WalkEnds, StopAtBudget, SkipEntry, PassEntry, StatFails, Ends, Loops
  <2> QED  BY <1>2, <2>1, PatternStays DEF AtEntry
<1>4. CASE OpenBase
  <2>1. UNCHANGED <<stack, parts, found>> /\ pc' \in {"openBase", "scan", "finally"}
    BY <1>4 DEF OpenBase, Ends
  <2>2. pc' = "scan" => entry'.path = <<>> /\ entry'.states = InitialStates
    BY <1>4 DEF OpenBase, Ends, NoEntry
  <2>3. pc' = "scan" => entry'.states = Positions(parts, entry'.path, entry'.node)
    BY <1>1, <2>2, StartPositions
  <2> QED  BY <1>2, <2>1, <2>3, PatternStays DEF AtEntry
<1>5. CASE NewFrame
  <2>1. /\ UNCHANGED <<parts, found>> /\ fresh' = 0 /\ pc = "scan"
        /\ pc' \in {"finally", "yield", "loop"}
        /\ pc' = "yield" => entry' = entry /\ IsMatch(entry.states)
    BY <1>5 DEF NewFrame, Ends, Matched
  <2>2. entry.states = Positions(parts, entry.path, entry.node)
    BY <2>1 DEF PatternInv
  <2>3. pc' = "yield" => /\ entry'.states = Positions(parts, entry'.path, entry'.node)
                         /\ Len(parts) \in entry'.states
    BY <2>1, <2>2 DEF IsMatch
  <2>4. CASE UNCHANGED stack
    BY <1>2, <2>1, <2>3, <2>4, PatternStays DEF AtEntry
  <2>5. CASE stack' = Append(stack, Frame)
    <3>1. entry.node \in Dir /\ Root \in Dir
      BY <2>1, WalkAssumption DEF WalkAssumption, WalkInv, EntryInv
    <3>2. Frame.states = Positions(parts, Frame.path, Root)
      BY <2>2, <3>1, AnyDirectory DEF Frame
    <3>3. \A i \in 1 .. Len(stack') :
            stack'[i] = Frame \/ (i \in 1 .. Len(stack) /\ stack'[i] = stack[i])
      <4>1. stack \in Seq(FramePart)
        BY DEF WalkInv, FrameInv
      <4> QED  BY <2>5, <4>1
    <3>4. \A i \in 1 .. Len(stack') : stack'[i].states = Positions(parts, stack'[i].path, Root)
      BY <3>2, <3>3 DEF PatternInv
    <3> QED  BY <1>2, <2>1, <2>3, <3>4 DEF PatternInv, AtEntry
  <2> QED  BY <1>5, <2>4, <2>5 DEF NewFrame
<1>6. ASSUME NEW name \in Name, NextEntry(name) PROVE PatternInv'
  <2> DEFINE taken == [Top EXCEPT !.todo = Top.todo \ {name}]
  <2>1. /\ pc = "loop" /\ pc' = "stat" /\ stack # <<>>
        /\ stack' = [stack EXCEPT ![Len(stack)] = taken]
        /\ entry' = [path |-> Append(Top.path, name), node |-> None, states |-> {}]
        /\ UNCHANGED <<parts, fds, fresh, found, outcome>>
    BY <1>6 DEF NextEntry, Top
  <2>2. Top \in FramePart /\ Top = stack[Len(stack)] /\ Len(stack) \in Nat \ {0}
    BY <2>1 DEF WalkInv, FrameInv, Top
  <2>3. taken.path = Top.path /\ taken.states = Top.states /\ Top.path \in Seq(Name)
    BY <2>2 DEF FramePart
  <2>4. /\ Len(stack') = Len(stack)
        /\ \A i \in 1 .. Len(stack) : stack'[i] = IF i = Len(stack) THEN taken ELSE stack[i]
    <3>1. taken = [Top EXCEPT !.todo = Top.todo \ {name}]
      OBVIOUS
    <3> HIDE DEF taken
    <3> QED  BY <2>1, <3>1, EntryTaken DEF WalkInv
  <2> HIDE DEF taken
  <2>5. Top'.path = Top.path
    BY <2>2, <2>3, <2>4 DEF Top
  <2>6. entry'.path = Append(Top.path, name)
    BY <2>1
  <2>7. Here' = name
    BY <2>3, <2>6 DEF Here, Last
  <2>8. \A i \in 1 .. Len(stack') : stack'[i].states = Positions(parts, stack'[i].path, Root)
    BY <2>2, <2>3, <2>4 DEF PatternInv
  <2> QED  BY <1>2, <2>1, <2>5, <2>6, <2>7, <2>8 DEF PatternInv
<1>7. CASE PopFrame
  <2>1. /\ stack # <<>> /\ stack' = Front(stack) /\ pc' \in {"loop", "finally"}
        /\ UNCHANGED <<parts, found>>
    BY <1>7 DEF PopFrame, Ends
  <2>2. \A i \in 1 .. Len(stack') : i \in 1 .. Len(stack) /\ stack'[i] = stack[i]
    <3>1. stack \in Seq(FramePart)
      BY DEF WalkInv, FrameInv
    <3> QED  BY <2>1, <3>1, FrontOf
  <2> QED  BY <1>2, <2>1, <2>2 DEF PatternInv, AtEntry
<1>8. CASE InspectEntry
  <2> DEFINE x == At(fds[Top.fd], Here)
  <2>1. /\ entry' = [entry EXCEPT !.node = x, !.states = StatesOf(x)]
        /\ UNCHANGED <<parts, stack, fresh, found>> /\ pc = "stat"
        /\ pc' \in {"openFile", "openChild", "yield", "skip"}
        /\ pc' \in {"openFile", "yield"} => IsMatch(StatesOf(x))
    BY <1>8 DEF InspectEntry
  <2>2. fresh = 0
    BY <2>1 DEF WalkInv, DescriptorInv
  <2> HIDE DEF x
  <2>3. entry'.path = entry.path /\ entry'.node = x /\ entry'.states = StatesOf(x)
    BY <2>1 DEF WalkInv, EntryInv
  <2>4. entry'.states = Positions(parts, entry'.path, entry'.node)
    BY <2>1, <2>3, StatesAreCorrect
  <2> QED  BY <1>2, <2>1, <2>2, <2>3, <2>4, PatternStays DEF AtEntry, IsMatch
<1>9. CASE OpenFile
  <2> DEFINE x == At(fds[Top.fd], Here)
  <2>1. pc = "openFile" /\ UNCHANGED <<parts, stack, found>>
    BY <1>9 DEF OpenFile
  <2>2. CASE SameFile(x, Regular)
    <3> HIDE DEF x
    <3>1. /\ x \in Regular /\ x = entry.node
          /\ fds' = Opened(x) /\ fresh' = NewFd /\ pc' = "yield" /\ entry' = entry
      BY <1>9, <2>2 DEF OpenFile, SameFile, x
    <3>2. fds'[fresh'] = entry'.node
      BY <3>1, FdsOpened DEF WalkInv
    <3> QED  BY <1>2, <2>1, <3>1, <3>2 DEF PatternInv, AtEntry
  <2>3. CASE ~SameFile(x, Regular)
    <3>1. pc' = "loop"
      BY <1>9, <2>3 DEF OpenFile, Loops
    <3> QED  BY <1>2, <2>1, <3>1, PatternStays DEF AtEntry
  <2> QED  BY <2>2, <2>3
<1>10. CASE OpenChild
  <2>1. /\ pc = "openChild" /\ UNCHANGED <<parts, stack, entry, found>>
        /\ pc' \in {"scan", "yield", "skip"}
        /\ pc' = "yield" => IsMatch(entry.states) /\ fresh' = fresh
    BY <1>10 DEF OpenChild
  <2>2. fresh = 0
    BY <2>1 DEF WalkInv, DescriptorInv
  <2>3. entry.states = Positions(parts, entry.path, entry.node)
    BY <2>1 DEF PatternInv
  <2> QED  BY <1>2, <2>1, <2>2, <2>3, PatternStays DEF AtEntry, IsMatch
<1>11. CASE YieldEntry
  <2>1. /\ pc = "yield" /\ UNCHANGED <<parts, stack>> /\ pc' \in {"loop", "finally"}
        /\ found' = found \cup {[path |-> entry.path, node |-> entry.node]}
    BY <1>11 DEF YieldEntry, Taken, Loops, Ends
  <2>2. Len(parts) \in Positions(parts, entry.path, entry.node)
    BY <2>1 DEF PatternInv
  <2>3. Reach(parts, entry.path, entry.node, Len(parts))
    BY <1>1, <2>2 DEF Positions
  <2>4. \A e \in found' : Reach(parts, e.path, e.node, Len(parts))
    BY <1>2, <2>1, <2>3
  <2> QED  BY <2>1, <2>4, PatternStays DEF AtEntry
<1>12. CASE CloseFrames
  <2>1. pc' = "done" /\ stack' = <<>> /\ UNCHANGED <<parts, found>>
    BY <1>12 DEF CloseFrames
  <2> QED  BY <1>2, <2>1 DEF PatternInv, AtEntry
<1>13. CASE UNCHANGED <<parts, fds, stack, pc, entry, fresh, found>>
  BY <1>13 DEF PatternInv, Top, Here, Last
<1> QED  BY <1>3, <1>4, <1>5, <1>6, <1>7, <1>8, <1>9, <1>10, <1>11, <1>12, <1>13
         DEF WalkNext, Walk, Change, walkVars

(* The user moves nothing in from outside, and the search follows no link.   *)
LEMMA InsideStep == WalkInv /\ InsideInv /\ [WalkNext]_walkVars => InsideInv'
<1> SUFFICES ASSUME WalkInv, InsideInv, [WalkNext]_walkVars PROVE InsideInv'
  OBVIOUS
<1> USE DEF request, world, counts
<1>1. /\ \A d \in Dir \ Outside, n \in Name : tree[d][n] \notin Outside
      /\ \A d \in DOMAIN fds : fds[d] \notin Outside
  BY DEF InsideInv
<1>2. CASE UNCHANGED tree
  <2>1. \A y \in Dir \cup Regular : y \notin Outside /\ fds' = Opened(y) => InsideInv'
    BY <1>1, <1>2, FdsOpened DEF WalkInv, InsideInv
  <2>2. ASSUME NEW gone, fds' = Closed(gone) PROVE InsideInv'
    <3>1. /\ DOMAIN fds' = DOMAIN fds \ gone
          /\ \A d \in DOMAIN fds \ gone : fds'[d] = fds[d]
      BY <2>2, FdsClosed DEF WalkInv
    <3> QED  BY <1>1, <1>2, <3>1 DEF InsideInv
  <2>3. fds' = fds => InsideInv'
    BY <1>1, <1>2 DEF InsideInv
  <2>4. CASE OpenRoot
    <3>1. Root \in Dir /\ Root \notin Outside
      BY WalkAssumption DEF WalkAssumption
    <3> QED  BY <2>1, <2>3, <2>4, <3>1 DEF OpenRoot
  <2>5. CASE OpenBase
    <3>1. /\ fresh \in DOMAIN fds /\ fds[fresh] \in Dir \ Outside
          /\ Len(entry.path) \in Nat /\ Len(entry.path) <= Len(base) /\ base \in Seq(Name)
      BY <1>1, <2>5 DEF OpenBase, WalkInv, DescriptorInv, PlaceInv, EntryInv, SearchTypes
    <3> DEFINE next == At(fds[fresh], base[Len(entry.path) + 1])
    <3>2. CASE Len(entry.path) < Len(base) /\ next \in Dir /\ fds' = [fds EXCEPT ![fresh] = next]
      <4>1. next \notin Outside
        BY <1>1, <3>1, <3>2 DEF At
      <4> HIDE DEF next
      <4>2. DOMAIN fds' = DOMAIN fds /\ \A d \in DOMAIN fds : fds'[d] \in {next, fds[d]}
        BY <3>1, <3>2 DEF WalkInv, DescriptorInv
      <4> QED  BY <1>1, <1>2, <4>1, <4>2 DEF InsideInv
    <3>3. CASE ~(Len(entry.path) < Len(base) /\ next \in Dir
                 /\ fds' = [fds EXCEPT ![fresh] = next])
      BY <2>2, <2>3, <2>5, <3>3 DEF OpenBase
    <3> QED  BY <3>2, <3>3
  <2>6. CASE OpenFile \/ OpenChild
    <3> DEFINE x == At(fds[Top.fd], Here)
    <3>1. Top.fd \in DOMAIN fds /\ fds[Top.fd] \in Dir /\ Here \in Name
      BY <2>6 DEF OpenFile, OpenChild, WalkInv, FrameInv, PlaceInv, EntryInv, Top, Here, Last
    <3>2. x \notin Outside
      BY <1>1, <3>1 DEF At
    <3>3. fds' = fds \/ (x \in Dir \cup Regular /\ fds' = Opened(x))
      BY <2>6 DEF OpenFile, OpenChild, SameFile
    <3> QED  BY <2>1, <2>3, <3>2, <3>3
  <2>7. CASE NewFrame \/ PopFrame \/ YieldEntry \/ CloseFrames
    BY <2>2, <2>3, <2>7 DEF NewFrame, PopFrame, YieldEntry, CloseFrames
  <2>8. CASE fds' = fds
    BY <2>3, <2>8
  <2> QED  BY <1>2, <2>4, <2>5, <2>6, <2>7, <2>8 DEF WalkNext, Walk, Change, walkVars, StopAtBudget,
           WalkEnds, NextEntry, SkipEntry, InspectEntry, PassEntry, StatFails
<1>3. ASSUME NEW d \in Busy, NEW n \in Name, NEW y \in (Node \ (Linked \cup Outside)) \cup {None},
             Change(d, n, y)
      PROVE  InsideInv'
  <2>1. y \notin Outside /\ d \in Dir
    BY WalkAssumption DEF WalkAssumption
  <2>2. tree' = [tree EXCEPT ![d][n] = y] /\ fds' = fds
    BY <1>3 DEF Change
  <2>3. \A e \in Dir, m \in Name : tree'[e][m] \in {y, tree[e][m]}
    BY <2>1, <2>2 DEF WalkInv, SearchTypes
  <2> QED  BY <1>1, <2>1, <2>2, <2>3 DEF InsideInv
<1>4. UNCHANGED tree \/ \E d \in Busy, n \in Name,
                             y \in (Node \ (Linked \cup Outside)) \cup {None} : Change(d, n, y)
  BY DEF WalkNext, Walk, walkVars, OpenRoot, OpenBase, NewFrame, StopAtBudget, WalkEnds, NextEntry,
     PopFrame, SkipEntry, InspectEntry, PassEntry, StatFails, OpenFile, OpenChild, YieldEntry,
     CloseFrames
<1> QED  BY <1>2, <1>3, <1>4

(* Each entry found matches the pattern, however the tree changes meanwhile. *)
THEOREM WalkFindsMatches == WalkSpec => []FindsOnlyMatches
<1> DEFINE Inv == WalkInv /\ PatternInv /\ InsideInv
<1>1. WalkInit => Inv
  BY WalkInvInit, PatternInvInit
<1>2. Inv /\ [WalkNext]_walkVars => Inv'
  BY WalkInvStep, PatternStep, InsideStep
<1>3. Inv => FindsOnlyMatches
  <2> SUFFICES ASSUME Inv PROVE FindsOnlyMatches
    OBVIOUS
  <2>1. ASSUME NEW e \in found PROVE e.node \in Dir \cup Regular /\ Matches(e.path, e.node)
    <3>1. e.node \in Dir \cup Regular /\ Reach(parts, e.path, e.node, Len(parts))
      BY DEF WalkInv, EntryInv, PatternInv
    <3> QED  BY <3>1, MatchIsReach DEF WalkInv
  <2> QED  BY <2>1 DEF FindsOnlyMatches, PatternInv, InsideInv
<1> QED  BY <1>1, <1>2, <1>3, PTL DEF WalkSpec

-----------------------------------------------------------------------------
(* What a path leads to.  v[i] is where its first i names lead.              *)
Visits(v, tr, path) ==
  /\ v = [i \in 0 .. Len(path) |-> v[i]] /\ v[0] = Root
  /\ \A i \in 1 .. Len(path) :
       v[i] = IF v[i - 1] \in Dir THEN tr[v[i - 1]][path[i]] ELSE None

(* A path, and each path below it, leads to the same place.                  *)
LEMMA VisitsUnique ==
  ASSUME NEW tr, NEW p \in Seq(Name), NEW q \in Seq(Name), NEW v, NEW w,
         Visits(v, tr, p), Visits(w, tr, q), p = q \/ Extends(p, q), NEW k \in 0 .. Len(p)
  PROVE  v[k] = w[k]
<1> DEFINE Bad == {i \in 0 .. Len(p) : v[i] # w[i]}
<1>1. Bad = {}
  <2> SUFFICES ASSUME Bad # {} PROVE FALSE
    OBVIOUS
  <2>1. Bad \in SUBSET Nat
    OBVIOUS
  <2>2. PICK i \in Bad : \A j \in Bad : i <= j
    BY <2>1, LeastNumber
  <2>3. i # 0
    BY DEF Visits
  <2>4. i \in 1 .. Len(p) /\ i \in 1 .. Len(q) /\ v[i - 1] = w[i - 1] /\ p[i] = q[i]
    BY <2>2, <2>3 DEF Extends
  <2> QED  BY <2>2, <2>4 DEF Visits
<1> QED  BY <1>1

(* Every path leads somewhere: by the shortest prefix that would not.        *)
LEMMA VisitExists ==
  ASSUME NEW tr, NEW p \in Seq(Name)
  PROVE  \E v : Visits(v, tr, p)
<1> DEFINE V(v, m) ==
      /\ v = [i \in 0 .. m |-> v[i]] /\ v[0] = Root
      /\ \A i \in 1 .. m : v[i] = IF v[i - 1] \in Dir THEN tr[v[i - 1]][p[i]] ELSE None
      Bad == {m \in 0 .. Len(p) : ~\E v : V(v, m)}
<1>1. Bad = {}
  <2> SUFFICES ASSUME Bad # {} PROVE FALSE
    OBVIOUS
  <2>1. Bad \in SUBSET Nat
    OBVIOUS
  <2>2. PICK m \in Bad : \A k \in Bad : m <= k
    <3> HIDE DEF Bad
    <3> QED  BY <2>1, LeastNumber
  <2>3. m # 0
    <3>1. V([i \in 0 .. 0 |-> Root], 0)
      OBVIOUS
    <3> HIDE DEF V
    <3> QED  BY <3>1, <2>2
  <2>4. m \in 1 .. Len(p) /\ m - 1 \in 0 .. Len(p) /\ m - 1 \notin Bad
    <3>1. m \in 1 .. Len(p) /\ m - 1 \in 0 .. Len(p)
      BY <2>3
    <3> HIDE DEF Bad
    <3> QED  BY <2>2, <3>1
  <2>5. PICK v : V(v, m - 1)
    <3> HIDE DEF V
    <3> QED  BY <2>4
  <2> DEFINE w == [i \in 0 .. m |->
                     IF i = m THEN IF v[m - 1] \in Dir THEN tr[v[m - 1]][p[m]] ELSE None
                     ELSE v[i]]
  <2>6. V(w, m)
    <3>1. w = [i \in 0 .. m |-> w[i]]
      OBVIOUS
    <3>3. w[0] = Root
      BY <2>4, <2>5
    <3>2. ASSUME NEW i \in 1 .. m
          PROVE  w[i] = IF w[i - 1] \in Dir THEN tr[w[i - 1]][p[i]] ELSE None
      <4>1. w[i - 1] = v[i - 1]
        BY <2>4
      <4>2. CASE i = m
        <5>1. w[i] = IF v[m - 1] \in Dir THEN tr[v[m - 1]][p[m]] ELSE None
          BY <4>2
        <5> QED  BY <4>1, <4>2, <5>1
      <4>3. CASE i # m
        <5>1. w[i] = v[i] /\ i \in 1 .. m - 1
          BY <2>4, <4>3
        <5> HIDE DEF w
        <5> QED  BY <2>5, <4>1, <5>1
      <4> QED  BY <4>2, <4>3
    <3> HIDE DEF w
    <3> QED  BY <3>1, <3>2, <3>3
  <2> HIDE DEF V, w
  <2> QED  BY <2>6
<1>2. PICK v : V(v, Len(p))
  <2>1. Len(p) \in 0 .. Len(p)
    OBVIOUS
  <2> HIDE DEF V
  <2> QED  BY <1>1, <2>1
<1>3. Visits(v, tr, p)
  BY <1>2 DEF Visits
<1> QED  BY <1>3

(* NodeIn is the last place of a visit.                                      *)
LEMMA NodeVisited ==
  ASSUME NEW tr, NEW p \in Seq(Name)
  PROVE  \E v : Visits(v, tr, p) /\ NodeIn(tr, p) = v[Len(p)]
<1> DEFINE step(f) == [i \in 0 .. Len(p) |->
                         IF i = 0 THEN Root
                         ELSE IF f[i - 1] \in Dir THEN tr[f[i - 1]][p[i]] ELSE None]
           node == CHOOSE f : f = step(f)
<1>1. PICK v : Visits(v, tr, p)
  BY VisitExists
<1>2. v = step(v)
  <2>1. \A i \in 0 .. Len(p) : v[i] = step(v)[i]
    BY <1>1 DEF Visits
  <2> QED  BY <1>1, <2>1 DEF Visits
<1>3. node = step(node)
  <2> HIDE DEF step
  <2> QED  BY <1>2
<1> HIDE DEF node
<1>4. Visits(node, tr, p)
  <2>1. \A i \in 0 .. Len(p) : node[i] = step(node)[i]
    <3> HIDE DEF step
    <3> QED  BY <1>3
  <2>2. node = [i \in 0 .. Len(p) |-> node[i]]
    <3>1. step(node) = [i \in 0 .. Len(p) |-> step(node)[i]]
      OBVIOUS
    <3> HIDE DEF step
    <3> QED  BY <1>3, <3>1
  <2>3. Len(p) \in Nat /\ node[0] = Root
    BY <2>1
  <2>4. ASSUME NEW i \in 1 .. Len(p)
        PROVE  node[i] = IF node[i - 1] \in Dir THEN tr[node[i - 1]][p[i]] ELSE None
    <3>1. i \in 0 .. Len(p) /\ i # 0
      BY <2>3
    <3>2. node[i] = step(node)[i]
      BY <2>1, <3>1
    <3> QED  BY <3>1, <3>2
  <2> HIDE DEF step
  <2> QED  BY <2>2, <2>3, <2>4 DEF Visits
<1>5. NodeIn(tr, p) = node[Len(p)]
  BY DEF NodeIn, node
<1> QED  BY <1>4, <1>5

(* A visit to a path passes what is above it.                                *)
LEMMA PrefixVisited ==
  ASSUME NEW tr, NEW p \in Seq(Name), NEW q \in Seq(Name), Extends(p, q), NEW v, Visits(v, tr, q)
  PROVE  NodeIn(tr, p) = v[Len(p)]
<1>1. PICK w : Visits(w, tr, p) /\ NodeIn(tr, p) = w[Len(p)]
  BY NodeVisited
<1>2. Len(p) \in 0 .. Len(p)
  OBVIOUS
<1> QED  BY <1>1, <1>2, VisitsUnique

(* The nodes of the empty path and of an entry of a directory.               *)
LEMMA NodeOfRoot == ASSUME NEW tr PROVE NodeIn(tr, <<>>) = Root
<1>1. PICK v : Visits(v, tr, <<>>) /\ NodeIn(tr, <<>>) = v[Len(<<>>)]
  <2>1. <<>> \in Seq(Name)
    OBVIOUS
  <2> QED  BY <2>1, NodeVisited
<1> QED  BY <1>1 DEF Visits

LEMMA NodeOfEntry ==
  ASSUME NEW tr, NEW p \in Seq(Name), NEW a \in Name
  PROVE  NodeIn(tr, Append(p, a)) =
           IF NodeIn(tr, p) \in Dir THEN tr[NodeIn(tr, p)][a] ELSE None
<1> DEFINE q == Append(p, a)
<1>1. /\ q \in Seq(Name) /\ Extends(p, q) /\ Len(q) = Len(p) + 1 /\ q[Len(p) + 1] = a
      /\ Len(p) \in Nat
  BY AppendExtends
<1> HIDE DEF q
<1>2. PICK v : Visits(v, tr, q) /\ NodeIn(tr, q) = v[Len(q)]
  BY <1>1, NodeVisited
<1>3. NodeIn(tr, p) = v[Len(p)]
  BY <1>1, <1>2, PrefixVisited
<1>4. Len(q) \in 1 .. Len(q) /\ Len(q) - 1 = Len(p) /\ q[Len(q)] = a
  BY <1>1
<1>5. v[Len(q)] = IF v[Len(p)] \in Dir THEN tr[v[Len(p)]][a] ELSE None
  BY <1>2, <1>4 DEF Visits
<1> QED  BY <1>2, <1>3, <1>5 DEF q

(* What is above an entry is a directory that has the next name.             *)
LEMMA NodeAbove ==
  ASSUME NEW tr, NEW p \in Seq(Name), NEW q \in Seq(Name), Extends(p, q), NodeIn(tr, q) \in Node
  PROVE  NodeIn(tr, p) \in Dir /\ tr[NodeIn(tr, p)][q[Len(p) + 1]] # None
<1>1. PICK v : Visits(v, tr, q) /\ NodeIn(tr, q) = v[Len(q)]
  BY NodeVisited
<1>2. NodeIn(tr, p) = v[Len(p)]
  BY <1>1, PrefixVisited
<1>3. /\ Len(p) \in Nat /\ Len(q) \in Nat /\ Len(p) < Len(q) /\ None \notin Node /\ Dir \subseteq Node
      /\ \A i \in 1 .. Len(q) :
           v[i] = IF v[i - 1] \in Dir THEN tr[v[i - 1]][q[i]] ELSE None
      /\ v[Len(q)] \in Node
  BY <1>1, WalkAssumption DEF Extends, Visits, WalkAssumption, Node
<1> DEFINE Lost == {i \in Len(p) + 1 .. Len(q) : v[i] # None}
<1>4. v[Len(p) + 1] # None
  <2>1. Lost \in SUBSET Nat /\ Len(q) \in Lost
    BY <1>3
  <2>2. PICK i \in Lost : \A k \in Lost : i <= k
    <3> HIDE DEF Lost
    <3> QED  BY <2>1, LeastNumber
  <2>3. i = Len(p) + 1
    <3> SUFFICES ASSUME i # Len(p) + 1 PROVE FALSE
      OBVIOUS
    <3>1. i - 1 \in Len(p) + 1 .. Len(q) /\ i - 1 \notin Lost /\ i \in 1 .. Len(q)
      BY <1>3, <2>2
    <3>2. v[i - 1] = None
      BY <3>1
    <3> QED  BY <1>3, <2>2, <3>1, <3>2
  <2> QED  BY <2>2, <2>3
<1>5. Len(p) + 1 \in 1 .. Len(q) /\ (Len(p) + 1) - 1 = Len(p)
  BY <1>3
<1> QED  BY <1>2, <1>3, <1>4, <1>5

(* Paths below the base.                                                     *)
LEMMA BelowBase ==
  ASSUME NEW b \in Seq(Name), NEW p \in Seq(Name)
  PROVE  /\ b \o p \in Seq(Name) /\ Len(b \o p) = Len(b) + Len(p)
         /\ \A n \in Name : b \o Append(p, n) = Append(b \o p, n)
         /\ \A k \in 1 .. Len(p) : (b \o p)[Len(b) + k] = p[k]
  OBVIOUS

LEMMA ExtendsBelow ==
  ASSUME NEW b \in Seq(Name), NEW p \in Seq(Name), NEW q \in Seq(Name), Extends(p, q)
  PROVE  Extends(b \o p, b \o q) /\ (b \o q)[Len(b \o p) + 1] = q[Len(p) + 1]
  BY DEF Extends

(* What it is to be expected.                                                *)
LEMMA ExpectedEntry ==
  ASSUME NEW q \in ExpectedIn(tree, parts, base)
  PROVE  /\ Open(q, MaxDepth + 1) /\ q \in Seq(Name) /\ q # <<>> /\ Len(q) \in Nat \ {0}
         /\ \A k \in 1 .. Len(q) : q[k] \in Name \ Protected
         /\ NodeIn(tree, base \o q) \in Dir \cup Regular
         /\ Reach(parts, q, NodeIn(tree, base \o q), Len(parts))
<1>1. PICK k \in 1 .. MaxDepth + 1 : q \in [1 .. k -> Name \ Protected]
  BY DEF ExpectedIn, Paths
<1>2. k \in Nat \ {0} /\ k <= MaxDepth + 1
  BY WalkAssumption DEF WalkAssumption
<1>3. q \in Seq(Name \ Protected) /\ Len(q) = k /\ q \in Seq(Name)
  BY <1>1, <1>2
<1>4. q # <<>> /\ \A i \in 1 .. Len(q) : q[i] \in Name \ Protected
  BY <1>1, <1>2, <1>3
<1> QED  BY <1>2, <1>3, <1>4 DEF ExpectedIn, Open

LEMMA OpenPath ==
  ASSUME NEW q, Open(q, MaxDepth + 1), q # <<>>
  PROVE  q \in Paths
<1>1. /\ Len(q) \in 1 .. MaxDepth + 1 /\ q \in [1 .. Len(q) -> Name \ Protected]
  BY WalkAssumption DEF WalkAssumption, Open
<1> QED  BY <1>1 DEF Paths

(* The entry at hand, in a tree nobody changes.                              *)
LEMMA CurrentEntry ==
  ASSUME WalkInv, PatternInv, LocatedInv, pc \in AtEntry
  PROVE  /\ Here \in Name /\ Top.path \in Seq(Name) /\ Open(Top.path, MaxDepth)
         /\ entry.path = Append(Top.path, Here) /\ Len(entry.path) = Len(Top.path) + 1
         /\ At(fds[Top.fd], Here) = NodeIn(tree, base \o entry.path)
         /\ entry.path # <<>> /\ entry.path \in Seq(Name)
<1>1. Len(stack) \in Nat \ {0} /\ Top \in FramePart /\ Top = stack[Len(stack)]
  BY DEF WalkInv, FrameInv, PlaceInv, Top, AtEntry
<1>2. entry.path \in Seq(Name) /\ entry.path # <<>> /\ base \in Seq(Name)
  BY DEF WalkInv, EntryInv, PlaceInv, AtEntry, SearchTypes
<1>3. Here \in Name /\ Top.path \in Seq(Name)
  BY <1>1, <1>2 DEF Here, Last, FramePart
<1>4. entry.path = Append(Top.path, Here)
  BY DEF PatternInv
<1>5. fds[Top.fd] = NodeIn(tree, base \o Top.path) /\ Open(Top.path, MaxDepth)
      /\ fds[Top.fd] \in Dir
  BY <1>1 DEF LocatedInv, WalkInv, FrameInv
<1>6. base \o entry.path = Append(base \o Top.path, Here) /\ base \o Top.path \in Seq(Name)
  BY <1>2, <1>3, <1>4, BelowBase
<1>7. At(fds[Top.fd], Here) = NodeIn(tree, base \o entry.path)
  BY <1>3, <1>5, <1>6, NodeOfEntry DEF At
<1> QED  BY <1>2, <1>3, <1>4, <1>5, <1>7

(* Steps that leave the frames as they are.                                  *)
LEMMA LocatedStays ==
  ASSUME WalkInv, LocatedInv, UNCHANGED <<stack, tree, base, parts>>,
         \A i \in 1 .. Len(stack) : fds'[stack[i].fd] = fds[stack[i].fd],
         pc' \in {"openFile", "yield"} => Placed(tree, base, entry', MaxDepth + 1),
         pc' \in {"openChild", "scan"} => Placed(tree, base, entry', MaxDepth),
         pc' = "openFile" => entry'.node \in Regular,
         pc' = "scan" => fds'[fresh'] = entry'.node,
         pc' # "openBase",
         \A e \in found' : e.path \in ExpectedIn(tree, parts, base)
  PROVE  LocatedInv'
  BY DEF LocatedInv

LEMMA Deeper ==
  ASSUME NEW e, Placed(tree, base, e, MaxDepth)
  PROVE  Placed(tree, base, e, MaxDepth + 1)
<1>1. e.path \in Seq(Name \ Protected) /\ Len(e.path) \in Nat /\ MaxDepth \in Nat
  BY WalkAssumption DEF WalkAssumption, Placed, Open
<1> QED  BY <1>1 DEF Placed, Open

(* The descriptors of frames survive what happens to that of the entry.      *)
LEMMA FdsKept ==
  ASSUME WalkInv
  PROVE  /\ \A i \in 1 .. Len(stack) : Closed({fresh})[stack[i].fd] = fds[stack[i].fd]
         /\ \A y \in Dir \cup Regular : \A i \in 1 .. Len(stack) :
              Opened(y)[stack[i].fd] = fds[stack[i].fd]
<1>1. \A i \in 1 .. Len(stack) : stack[i].fd \in DOMAIN fds \ {fresh}
  BY DEF WalkInv, FrameInv
<1>2. \A d \in DOMAIN fds \ {fresh} : Closed({fresh})[d] = fds[d]
  BY FdsClosed DEF WalkInv
<1>3. ASSUME NEW y \in Dir \cup Regular
      PROVE  \A d \in DOMAIN fds : Opened(y)[d] = fds[d]
  BY FdsOpened DEF WalkInv
<1> QED  BY <1>1, <1>2, <1>3

(* The search stays where its paths say.                                     *)
LEMMA LocatedStep ==
  ASSUME WalkInv, PatternInv, LocatedInv, changes = 0, changes' = 0, [WalkNext]_walkVars
  PROVE  LocatedInv' /\ UNCHANGED <<tree, base, parts>>
<1> USE DEF request, world, counts
<1> DEFINE E == ExpectedIn(tree, parts, base)
<1>1. Walk \/ UNCHANGED walkVars
  BY DEF WalkNext, Change
<1>2. UNCHANGED <<tree, base, parts>>
  BY <1>1 DEF Walk, walkVars, OpenRoot, OpenBase, NewFrame, StopAtBudget, WalkEnds, NextEntry,
     PopFrame, SkipEntry, InspectEntry, PassEntry, StatFails, OpenFile, OpenChild, YieldEntry,
     CloseFrames
<1>3. /\ \A e \in found : e.path \in E
      /\ base \in Seq(Name) /\ Len(base) \in Nat
  BY DEF LocatedInv, WalkInv, SearchTypes
<1>4. /\ \A i \in 1 .. Len(stack) : Closed({fresh})[stack[i].fd] = fds[stack[i].fd]
      /\ \A y \in Dir \cup Regular : \A i \in 1 .. Len(stack) :
           Opened(y)[stack[i].fd] = fds[stack[i].fd]
  BY FdsKept
<1> HIDE DEF E
<1>5. CASE OpenRoot
  <2>1. /\ stack = <<>> /\ stack' = stack /\ found' = found /\ entry' = NoEntry
        /\ pc' \in {"openBase", "finally"}
    BY <1>5 DEF OpenRoot, Ends, WalkInv, PlaceInv
  <2>2. pc' = "openBase" => fds'[fresh'] = Root
    <3>1. Root \in Dir
      BY WalkAssumption DEF WalkAssumption
    <3> QED  BY <1>5, <3>1, FdsOpened DEF OpenRoot, Ends, WalkInv
  <2>3. entry'.path = <<>>
    BY <2>1, NoEntryTyped
  <2> QED  BY <1>2, <1>3, <2>1, <2>2, <2>3, NodeOfRoot DEF LocatedInv, E
<1>6. CASE OpenBase
  <2> DEFINE sofar == Len(entry.path)
             next  == At(fds[fresh], base[sofar + 1])
  <2>1. /\ stack = <<>> /\ stack' = stack /\ found' = found /\ pc = "openBase"
        /\ sofar \in 0 .. Len(base) /\ entry.path \in Seq(Name) /\ fresh \in DOMAIN fds
        /\ fds[fresh] \in Dir
    BY <1>6 DEF OpenBase, WalkInv, PlaceInv, EntryInv, DescriptorInv
  <2>2. /\ fds[fresh] = NodeIn(tree, entry.path)
        /\ \A k \in 1 .. sofar : entry.path[k] = base[k]
    BY <2>1 DEF LocatedInv
  <2>3. CASE /\ sofar = Len(base) /\ pc' = "scan"
             /\ entry' = [NoEntry EXCEPT !.node = fds[fresh], !.states = InitialStates]
             /\ UNCHANGED <<fds, fresh>>
    <3>1. entry'.path = <<>> /\ entry'.node = fds[fresh]
      BY <2>3 DEF NoEntry
    <3>2. entry.path = base /\ base \o <<>> = base
      BY <1>3, <2>1, <2>2, <2>3
    <3>3. Open(<<>>, MaxDepth)
      BY WalkAssumption DEF WalkAssumption, Open
    <3>4. Placed(tree, base, entry', MaxDepth)
      BY <2>2, <3>1, <3>2, <3>3 DEF Placed
    <3> QED  BY <1>2, <1>3, <2>1, <2>3, <3>1, <3>4 DEF LocatedInv, E
  <2>4. CASE /\ sofar < Len(base) /\ next \in Dir
             /\ fds' = [fds EXCEPT ![fresh] = next]
             /\ entry' = [entry EXCEPT !.path = SubSeq(base, 1, sofar + 1)]
             /\ UNCHANGED <<pc, fresh>>
    <3> DEFINE longer == SubSeq(base, 1, sofar + 1)
    <3>1. entry'.path = longer
      BY <2>4 DEF WalkInv, EntryInv
    <3>2. /\ longer \in Seq(Name) /\ Len(longer) = sofar + 1
          /\ \A k \in 1 .. sofar + 1 : longer[k] = base[k]
      <4>1. sofar + 1 \in 0 .. Len(base)
        BY <2>1, <2>4
      <4> QED  BY <1>3, <4>1, Prefix
    <3>3. base[sofar + 1] \in Name
      BY <1>3, <2>1, <2>4
    <3>4. longer = Append(entry.path, base[sofar + 1])
      <4> HIDE DEF longer
      <4>1. /\ Append(entry.path, base[sofar + 1]) \in Seq(Name)
            /\ Len(Append(entry.path, base[sofar + 1])) = sofar + 1
            /\ \A k \in 1 .. sofar + 1 : Append(entry.path, base[sofar + 1])[k] = base[k]
        BY <2>1, <2>2, <3>3
      <4> QED  BY <3>2, <4>1
    <3> HIDE DEF longer
    <3>5. NodeIn(tree, longer) = next
      BY <2>1, <2>2, <3>3, <3>4, NodeOfEntry DEF At
    <3>6. fds'[fresh'] = next
      BY <2>1, <2>4
    <3>7. \A k \in 1 .. Len(entry'.path) : entry'.path[k] = base[k]
      BY <3>1, <3>2
    <3> HIDE DEF next
    <3>8. pc' = "openBase" /\ stack' = <<>> /\ Len(stack') = 0
      BY <2>1, <2>4
    <3>9. fds'[fresh'] = NodeIn(tree', entry'.path) /\ \A e \in found' : e.path \in E
      BY <1>2, <1>3, <2>1, <3>1, <3>5, <3>6
    <3> QED  BY <1>2, <3>7, <3>8, <3>9 DEF LocatedInv, E
  <2>5. CASE pc' = "finally"
    BY <1>2, <1>3, <2>1, <2>5 DEF LocatedInv, E
  <2> QED  BY <1>6, <2>3, <2>4, <2>5 DEF OpenBase, Ends
<1>7. CASE WalkEnds \/ StopAtBudget \/ SkipEntry \/ PassEntry \/ StatFails
  <2>1. UNCHANGED <<stack, fds, found>> /\ pc' \in {"loop", "finally"}
    BY <1>7 DEF WalkEnds, StopAtBudget, SkipEntry, PassEntry, StatFails, Ends, Loops
  <2> QED  BY <1>2, <1>3, <2>1, LocatedStays DEF E
<1>8. CASE InspectEntry
  <2> DEFINE x == At(fds[Top.fd], Here)
             descend == x \in Dir /\ CanDescend(StatesOf(x))
  <2>1. /\ entry' = [entry EXCEPT !.node = x, !.states = StatesOf(x)]
        /\ UNCHANGED <<fds, stack, found>> /\ pc = "stat" /\ ~Skips(x)
        /\ pc' \in {"openFile", "openChild", "yield", "skip"}
        /\ pc' = "openFile" => x \in Regular
        /\ pc' = "openChild" => ~AtLimit
    BY <1>8 DEF InspectEntry
  <2>2. x = NodeIn(tree, base \o entry.path)
    BY <2>1, CurrentEntry DEF AtEntry
  <2>3. /\ Here \in Name /\ Open(Top.path, MaxDepth) /\ entry.path = Append(Top.path, Here)
        /\ Len(entry.path) = Len(Top.path) + 1
    BY <2>1, CurrentEntry DEF AtEntry
  <2> HIDE DEF x
  <2>4. entry'.path = entry.path /\ entry'.node = x
    BY <2>1 DEF WalkInv, EntryInv
  <2>5. Here \in Name \ Protected
    BY <2>1, <2>3 DEF Skips
  <2>6. /\ entry.path \in Seq(Name \ Protected) /\ Len(Top.path) \in Nat
        /\ MaxDepth \in Nat /\ Len(Top.path) <= MaxDepth
    BY <2>3, <2>5, WalkAssumption DEF WalkAssumption, Open
  <2>7. Open(entry.path, MaxDepth + 1)
    BY <2>3, <2>6 DEF Open
  <2>8. pc' = "openChild" => Open(entry.path, MaxDepth)
    BY <2>1, <2>3, <2>6 DEF Open, AtLimit
  <2>9. /\ pc' \in {"openFile", "yield"} => Placed(tree, base, entry', MaxDepth + 1)
        /\ pc' \in {"openChild", "scan"} => Placed(tree, base, entry', MaxDepth)
    BY <2>1, <2>2, <2>4, <2>7, <2>8 DEF Placed
  <2> QED  BY <1>2, <1>3, <2>1, <2>4, <2>9, LocatedStays DEF E
<1>9. CASE OpenFile
  <2> DEFINE x == At(fds[Top.fd], Here)
  <2>1. pc = "openFile" /\ UNCHANGED <<stack, found>>
    BY <1>9 DEF OpenFile
  <2>2. CASE SameFile(x, Regular)
    <3> HIDE DEF x
    <3>1. /\ x \in Regular /\ fds' = Opened(x) /\ pc' = "yield" /\ entry' = entry
      BY <1>9, <2>2 DEF OpenFile, SameFile, x
    <3>2. Placed(tree, base, entry, MaxDepth + 1)
      BY <2>1 DEF LocatedInv
    <3> QED  BY <1>2, <1>3, <1>4, <2>1, <3>1, <3>2, LocatedStays DEF E
  <2>3. CASE ~SameFile(x, Regular)
    <3>1. pc' = "loop" /\ fds' = fds
      BY <1>9, <2>3 DEF OpenFile, Loops
    <3> QED  BY <1>2, <1>3, <2>1, <3>1, LocatedStays DEF E
  <2> QED  BY <2>2, <2>3
<1>10. CASE OpenChild
  <2> DEFINE x == At(fds[Top.fd], Here)
  <2>1. pc = "openChild" /\ UNCHANGED <<stack, entry, found>>
    BY <1>10 DEF OpenChild
  <2>2. Placed(tree, base, entry, MaxDepth)
    BY <2>1 DEF LocatedInv
  <2>3. Placed(tree, base, entry, MaxDepth + 1)
    BY <2>2, Deeper
  <2>4. CASE SameFile(x, Dir)
    <3> HIDE DEF x
    <3>1. /\ x \in Dir /\ x = entry.node /\ fds' = Opened(x) /\ fresh' = NewFd /\ pc' = "scan"
      BY <1>10, <2>4 DEF OpenChild, SameFile, x
    <3>2. fds'[fresh'] = entry'.node
      BY <2>1, <3>1, FdsOpened DEF WalkInv
    <3> QED  BY <1>2, <1>3, <1>4, <2>1, <2>2, <3>1, <3>2, LocatedStays DEF E
  <2>5. CASE ~SameFile(x, Dir)
    <3>1. pc' \in {"yield", "skip"} /\ fds' = fds
      BY <1>10, <2>5 DEF OpenChild
    <3> QED  BY <1>2, <1>3, <2>1, <2>3, <3>1, LocatedStays DEF E
  <2> QED  BY <2>4, <2>5
<1>11. CASE YieldEntry
  <2>1. /\ pc = "yield" /\ UNCHANGED stack /\ pc' \in {"loop", "finally"}
        /\ fds' = Closed({fresh})
        /\ found' = found \cup {[path |-> entry.path, node |-> entry.node]}
    BY <1>11 DEF YieldEntry, Taken, Loops, Ends
  <2>2. Placed(tree, base, entry, MaxDepth + 1) /\ entry.path # <<>>
        /\ entry.node \in Dir \cup Regular
    BY <2>1 DEF LocatedInv, WalkInv, PlaceInv, EntryInv
  <2>3. Reach(parts, entry.path, entry.node, Len(parts))
    <3>1. Len(parts) \in Positions(parts, entry.path, entry.node)
      BY <2>1 DEF PatternInv
    <3>2. Len(parts) \in Nat
      BY PartsTyped DEF WalkInv
    <3> QED  BY <3>1, <3>2 DEF Positions
  <2>4. entry.path \in E
    BY <2>2, <2>3, OpenPath DEF E, ExpectedIn, Placed
  <2>5. \A e \in found' : e.path \in E
    BY <1>3, <2>1, <2>4
  <2> QED  BY <1>2, <1>4, <2>1, <2>5, LocatedStays DEF E
<1>12. CASE CloseFrames
  <2>1. pc' = "done" /\ stack' = <<>> /\ UNCHANGED found
    BY <1>12 DEF CloseFrames
  <2> QED  BY <1>2, <1>3, <2>1 DEF LocatedInv, E
<1>13. CASE UNCHANGED walkVars
  BY <1>13 DEF LocatedInv, walkVars
<1>14. CASE NewFrame
  <2>1. /\ UNCHANGED found /\ pc = "scan" /\ pc' \in {"finally", "yield", "loop"}
        /\ pc' = "yield" => entry' = entry
    BY <1>14 DEF NewFrame, Ends
  <2>2. Placed(tree, base, entry, MaxDepth) /\ fds[fresh] = entry.node
    BY <2>1 DEF LocatedInv
  <2>3. Placed(tree, base, entry, MaxDepth + 1)
    BY <2>2, Deeper
  <2>4. CASE UNCHANGED stack /\ fds' = Closed({fresh})
    BY <1>2, <1>3, <1>4, <2>1, <2>3, <2>4, LocatedStays DEF E
  <2>5. CASE stack' = Append(stack, Frame) /\ fds' = fds
    <3>1. \A i \in 1 .. Len(stack') :
            stack'[i] = Frame \/ (i \in 1 .. Len(stack) /\ stack'[i] = stack[i])
      <4>1. stack \in Seq(FramePart)
        BY DEF WalkInv, FrameInv
      <4> QED  BY <2>5, <4>1
    <3>2. Frame.fd = fresh /\ Frame.path = entry.path
      BY DEF Frame
    <3>3. fds[Frame.fd] = NodeIn(tree, base \o Frame.path) /\ Open(Frame.path, MaxDepth)
      BY <2>2, <3>2 DEF Placed
    <3>4. ASSUME NEW i \in 1 .. Len(stack')
          PROVE  /\ fds[stack'[i].fd] = NodeIn(tree, base \o stack'[i].path)
                 /\ Open(stack'[i].path, MaxDepth)
      BY <3>1, <3>3 DEF LocatedInv
    <3> QED  BY <1>2, <1>3, <2>1, <2>3, <2>5, <3>4 DEF LocatedInv, E
  <2> QED  BY <1>14, <2>4, <2>5 DEF NewFrame
<1>15. ASSUME NEW name \in Name, NextEntry(name) PROVE LocatedInv'
  <2> DEFINE taken == [Top EXCEPT !.todo = Top.todo \ {name}]
  <2>1. /\ pc = "loop" /\ pc' = "stat" /\ stack # <<>>
        /\ stack' = [stack EXCEPT ![Len(stack)] = taken]
        /\ UNCHANGED <<fds, fresh, found, outcome, parts>>
    BY <1>15 DEF NextEntry, Top
  <2>2. Top \in FramePart /\ Top = stack[Len(stack)] /\ Len(stack) \in Nat \ {0}
    BY <2>1 DEF WalkInv, FrameInv, Top
  <2>3. taken.path = Top.path /\ taken.fd = Top.fd
    BY <2>2 DEF FramePart
  <2>4. /\ Len(stack') = Len(stack)
        /\ \A i \in 1 .. Len(stack) : stack'[i] = IF i = Len(stack) THEN taken ELSE stack[i]
    <3>1. taken = [Top EXCEPT !.todo = Top.todo \ {name}]
      OBVIOUS
    <3> HIDE DEF taken
    <3> QED  BY <2>1, <3>1, EntryTaken DEF WalkInv
  <2> HIDE DEF taken
  <2>5. \A i \in 1 .. Len(stack) : stack'[i].path = stack[i].path /\ stack'[i].fd = stack[i].fd
    BY <2>2, <2>3, <2>4
  <2>6. ASSUME NEW i \in 1 .. Len(stack')
        PROVE  /\ fds'[stack'[i].fd] = NodeIn(tree, base \o stack'[i].path)
               /\ Open(stack'[i].path, MaxDepth)
    BY <2>1, <2>4, <2>5 DEF LocatedInv
  <2> QED  BY <1>2, <1>3, <2>1, <2>6 DEF LocatedInv, E
<1>16. CASE PopFrame
  <2>1. /\ stack # <<>> /\ stack' = Front(stack) /\ pc' \in {"loop", "finally"}
        /\ UNCHANGED found /\ fds' = Closed({Top.fd})
    BY <1>16 DEF PopFrame, Ends
  <2>2. /\ Len(stack') = Len(stack) - 1 /\ Len(stack) \in Nat \ {0}
        /\ \A i \in 1 .. Len(stack') : i \in 1 .. Len(stack) /\ stack'[i] = stack[i]
    <3>1. stack \in Seq(FramePart)
      BY DEF WalkInv, FrameInv
    <3> QED  BY <2>1, <3>1, FrontOf
  <2>3. ASSUME NEW i \in 1 .. Len(stack') PROVE fds'[stack'[i].fd] = fds[stack[i].fd]
    <3>1. i \in 1 .. Len(stack) /\ i # Len(stack) /\ Len(stack) \in 1 .. Len(stack)
      BY <2>2
    <3>2. stack[i].fd # Top.fd /\ stack[i].fd \in DOMAIN fds
      BY <3>1 DEF WalkInv, FrameInv, Top
    <3>3. stack[i].fd \in DOMAIN fds \ {Top.fd}
      BY <3>2
    <3>4. \A d \in DOMAIN fds \ {Top.fd} : Closed({Top.fd})[d] = fds[d]
      BY FdsClosed DEF WalkInv
    <3> QED  BY <2>1, <2>2, <3>3, <3>4
  <2>4. ASSUME NEW i \in 1 .. Len(stack')
        PROVE  /\ fds'[stack'[i].fd] = NodeIn(tree, base \o stack'[i].path)
               /\ Open(stack'[i].path, MaxDepth)
    BY <2>2, <2>3 DEF LocatedInv
  <2> QED  BY <1>2, <1>3, <2>1, <2>4 DEF LocatedInv, E
<1> QED  BY <1>1, <1>2, <1>5, <1>6, <1>7, <1>8, <1>9, <1>10, <1>11, <1>12, <1>13, <1>14, <1>15,
            <1>16 DEF Walk

-----------------------------------------------------------------------------
(* What is below a directory is one of its entries or below one of them.     *)
LEMMA NextName ==
  ASSUME NEW p \in Seq(Name), NEW q \in Seq(Name), Extends(p, q)
  PROVE  /\ q[Len(p) + 1] \in Name
         /\ q = Append(p, q[Len(p) + 1]) \/ Extends(Append(p, q[Len(p) + 1]), q)
<1> DEFINE a == q[Len(p) + 1]
<1>1. Len(p) \in Nat /\ Len(q) \in Nat /\ Len(p) + 1 <= Len(q) /\ \A k \in 1 .. Len(p) : q[k] = p[k]
  BY DEF Extends
<1>2. a \in Name
  BY <1>1
<1> HIDE DEF a
<1>3. /\ Append(p, a) \in Seq(Name) /\ Len(Append(p, a)) = Len(p) + 1
      /\ \A k \in 1 .. Len(p) + 1 : Append(p, a)[k] = IF k = Len(p) + 1 THEN a ELSE p[k]
  BY <1>2
<1>4. \A k \in 1 .. Len(p) + 1 : q[k] = Append(p, a)[k]
  BY <1>1, <1>3 DEF a
<1>5. CASE Len(q) = Len(p) + 1
  BY <1>3, <1>4, <1>5, <1>2 DEF a
<1>6. CASE Len(q) # Len(p) + 1
  BY <1>1, <1>2, <1>3, <1>4, <1>6 DEF a, Extends
<1> QED  BY <1>5, <1>6

(* A directory above an expected entry.                                      *)
LEMMA AboveExpected ==
  ASSUME WalkInv, NEW q \in ExpectedIn(tree, parts, base), NEW p \in Seq(Name), Extends(p, q)
  PROVE  /\ NodeIn(tree, base \o p) \in Dir
         /\ tree[NodeIn(tree, base \o p)][q[Len(p) + 1]] # None
         /\ CanDescend(Positions(parts, p, NodeIn(tree, base \o p)))
<1>1. q \in Seq(Name) /\ base \in Seq(Name) /\ NodeIn(tree, base \o q) \in Node /\ SearchTypes
  BY ExpectedEntry DEF Node, WalkInv, SearchTypes
<1>2. /\ base \o p \in Seq(Name) /\ base \o q \in Seq(Name)
      /\ Extends(base \o p, base \o q) /\ (base \o q)[Len(base \o p) + 1] = q[Len(p) + 1]
  <2>1. base \o p \in Seq(Name)
    BY <1>1, BelowBase
  <2>2. base \o q \in Seq(Name)
    BY <1>1, BelowBase
  <2> QED  BY <1>1, <2>1, <2>2, ExtendsBelow
<1>3. /\ NodeIn(tree, base \o p) \in Dir
      /\ tree[NodeIn(tree, base \o p)][q[Len(p) + 1]] # None
  BY <1>1, <1>2, NodeAbove
<1>4. Matches(q, NodeIn(tree, base \o q))
  BY <1>1, ExpectedEntry, MatchIsReach
<1> QED  BY <1>1, <1>3, <1>4, AboveMatch

(* An entry that is expected, or has an expected one below it, is no link    *)
(* and not protected, and the pattern has a use for it.                      *)
LEMMA OnTheWay ==
  ASSUME WalkInv, PatternInv, LocatedInv, pc = "stat",
         NEW q \in ExpectedIn(tree, parts, base), NEW x, x = At(fds[Top.fd], Here)
  PROVE  /\ q = entry.path => x \in Dir \cup Regular /\ ~Skips(x) /\ IsMatch(StatesOf(x))
         /\ Extends(entry.path, q) => x \in Dir /\ ~Skips(x) /\ CanDescend(StatesOf(x))
<1>1. /\ x = NodeIn(tree, base \o entry.path) /\ entry.path \in Seq(Name)
      /\ Top.path \in Seq(Name) /\ entry.path = Append(Top.path, Here) /\ Here \in Name
  BY CurrentEntry DEF AtEntry
<1>2. StatesOf(x) = Positions(parts, entry.path, x)
  BY StatesAreCorrect
<1>3. Dir \cap Link = {} /\ Regular \cap Link = {} /\ None \notin Dir \cup Regular
  BY WalkAssumption DEF WalkAssumption, Node
<1>4. q \in Seq(Name) /\ \A k \in 1 .. Len(q) : q[k] \notin Protected
  BY ExpectedEntry
<1>5. Len(entry.path) \in Nat \ {0} /\ entry.path[Len(entry.path)] = Here
  BY <1>1
<1>6. CASE q = entry.path
  <2>1. x \in Dir \cup Regular /\ Reach(parts, q, x, Len(parts)) /\ Len(parts) \in Nat
    BY <1>1, <1>6, ExpectedEntry, PartsTyped DEF WalkInv
  <2>2. IsMatch(StatesOf(x))
    BY <1>2, <1>6, <2>1 DEF IsMatch, Positions
  <2>3. Here \notin Protected
    BY <1>4, <1>5, <1>6
  <2>4. ~Extends(entry.path, q)
    BY <1>1, <1>6 DEF Extends
  <2> QED  BY <1>3, <2>1, <2>2, <2>3, <2>4 DEF Skips, IsMatch
<1>7. CASE Extends(entry.path, q)
  <2>1. x \in Dir /\ CanDescend(StatesOf(x))
    BY <1>1, <1>2, <1>7, AboveExpected
  <2>2. Here \notin Protected
    <3>1. Len(entry.path) \in 1 .. Len(q) /\ q[Len(entry.path)] = entry.path[Len(entry.path)]
      BY <1>4, <1>5, <1>7 DEF Extends
    <3> QED  BY <1>4, <1>5, <3>1
  <2>3. q # entry.path
    BY <1>1, <1>7 DEF Extends
  <2> QED  BY <1>3, <2>1, <2>2, <2>3 DEF Skips, CanDescend
<1> QED  BY <1>6, <1>7

(* What is expected is found or still ahead: no step loses it.               *)
LEMMA CoverStep ==
  ASSUME WalkInv, PatternInv, LocatedInv, CoverInv, changes = 0, changes' = 0,
         [WalkNext]_walkVars
  PROVE  CoverInv'
<1> USE DEF request, world, counts
<1> DEFINE Found(q) == \E e \in found : e.path = q
<1>1. UNCHANGED <<tree, base, parts>>
  BY LocatedStep
<1> SUFFICES ASSUME ~truncated', outcome' \in {"none", "ended"},
                    NEW q \in ExpectedIn(tree, parts, base), ~Found(q)'
             PROVE  Ahead(q)'
  BY <1>1 DEF CoverInv
<1>2. Walk \/ UNCHANGED walkVars
  BY DEF WalkNext, Change
<1>3. /\ q \in Seq(Name) /\ q # <<>> /\ Len(q) \in Nat \ {0}
      /\ Len(parts) \in Nat \ {0} /\ SearchTypes /\ base \in Seq(Name)
      /\ outcome \notin {"none", "ended"} => pc \in {"finally", "done"}
      /\ stack \in Seq(FramePart) /\ Len(stack) \in Nat
  BY ExpectedEntry, PartsTyped DEF WalkInv, SearchTypes, PlaceInv, FrameInv
<1>4. ~truncated /\ ~Found(q) /\ outcome \in {"none", "ended"} => Ahead(q)
  BY DEF CoverInv
<1>5. CASE OpenRoot
  BY <1>5 DEF OpenRoot, Ends, Ahead
<1>6. CASE OpenBase
  <2>1. pc' \in {"scan", "openBase"} /\ (pc' = "scan" => entry'.path = <<>>)
    BY <1>6 DEF OpenBase, Ends, NoEntry
  <2>2. Extends(<<>>, q)
    BY <1>3 DEF Extends
  <2> QED  BY <2>1, <2>2 DEF Ahead
<1>7. CASE WalkEnds
  <2>1. pc = "loop" /\ stack = <<>> /\ UNCHANGED <<truncated, found>>
    BY <1>7 DEF WalkEnds
  <2>2. Ahead(q)
    BY <1>3, <1>4, <2>1
  <2> QED  BY <2>1, <2>2 DEF Ahead, Waits
<1>8. CASE StopAtBudget
  BY <1>8 DEF StopAtBudget
<1>9. CASE StatFails
  BY <1>9 DEF StatFails, Ends
<1>10. CASE SkipEntry
  <2>1. /\ pc = "stat" /\ pc' = "loop" /\ UNCHANGED <<truncated, found, stack>>
        /\ Skips(At(fds[Top.fd], Here))
    BY <1>10 DEF SkipEntry, Loops
  <2>2. Ahead(q)
    BY <1>3, <1>4, <2>1
  <2>3. q # entry.path /\ ~Extends(entry.path, q)
    BY <2>1, OnTheWay
  <2>4. Waits(stack, q)
    BY <2>1, <2>2, <2>3 DEF Ahead
  <2> QED  BY <2>1, <2>4 DEF Ahead
<1>11. CASE PassEntry
  <2>1. pc = "skip" /\ pc' = "loop" /\ UNCHANGED <<truncated, found, stack>>
    BY <1>11 DEF PassEntry, Loops
  <2> QED  BY <1>3, <1>4, <2>1 DEF Ahead
<1>12. CASE InspectEntry
  <2> DEFINE x == At(fds[Top.fd], Here)
             descend == x \in Dir /\ CanDescend(StatesOf(x))
  <2>1. /\ entry' = [entry EXCEPT !.node = x, !.states = StatesOf(x)]
        /\ UNCHANGED <<stack, found>> /\ pc = "stat"
        /\ pc' = CASE x \in Regular /\ IsMatch(StatesOf(x)) /\ openFiles -> "openFile"
                   [] descend /\ ~AtLimit -> "openChild"
                   [] OTHER -> IF IsMatch(StatesOf(x)) THEN "yield" ELSE "skip"
        /\ truncated' = (truncated \/ (descend /\ AtLimit))
    BY <1>12 DEF InspectEntry
  <2>2. ~truncated /\ ~(descend /\ AtLimit)
    <3> HIDE DEF descend
    <3> QED  BY <2>1
  <2>3. Ahead(q)
    BY <1>3, <1>4, <2>1, <2>2
  <2>4. entry'.path = entry.path
    BY <2>1 DEF WalkInv, EntryInv
  <2>5. /\ q = entry.path => IsMatch(StatesOf(x))
        /\ Extends(entry.path, q) => x \in Dir /\ CanDescend(StatesOf(x))
    BY <2>1, OnTheWay
  <2>6. Dir \cap Regular = {}
    BY WalkAssumption DEF WalkAssumption
  <2> HIDE DEF x
  <2>7. pc' \in {"openFile", "openChild", "yield", "skip"}
    BY <2>1
  <2>8. CASE q = entry.path
    <3>1. pc' \in {"openFile", "openChild", "yield"}
      BY <2>1, <2>5, <2>8
    <3> QED  BY <2>4, <2>8, <3>1 DEF Ahead
  <2>9. CASE Extends(entry.path, q)
    <3>1. pc' = "openChild"
      BY <2>1, <2>2, <2>5, <2>6, <2>9
    <3> QED  BY <2>4, <2>9, <3>1 DEF Ahead
  <2>10. CASE Waits(stack, q)
    BY <2>1, <2>7, <2>10 DEF Ahead
  <2> QED  BY <2>1, <2>3, <2>8, <2>9, <2>10 DEF Ahead
<1>13. CASE OpenFile \/ OpenChild
  <2> DEFINE x == At(fds[Top.fd], Here)
  <2>1. pc \in {"openFile", "openChild"} /\ UNCHANGED <<stack, found, truncated>>
    BY <1>13 DEF OpenFile, OpenChild
  <2>2. x = entry.node
    BY <2>1, CurrentEntry DEF AtEntry, LocatedInv, Placed
  <2>3. /\ pc = "openFile" => entry.node \in Regular
        /\ pc = "openChild" => entry.node \in Dir
    BY DEF LocatedInv, WalkInv, EntryInv
  <2> HIDE DEF x
  <2>4. /\ entry' = entry
        /\ pc' = IF pc = "openFile" THEN "yield" ELSE "scan"
    <3>1. CASE OpenFile
      <4>1. pc = "openFile" /\ SameFile(x, Regular)
        BY <2>2, <2>3, <3>1 DEF OpenFile, SameFile
      <4> QED  BY <3>1, <4>1 DEF OpenFile, x
    <3>2. CASE OpenChild
      <4>1. pc = "openChild" /\ SameFile(x, Dir)
        BY <2>2, <2>3, <3>2 DEF OpenChild, SameFile
      <4> QED  BY <3>2, <4>1 DEF OpenChild, x
    <3> QED  BY <1>13, <3>1, <3>2
  <2>5. Ahead(q)
    BY <1>3, <1>4, <2>1
  <2> QED  BY <2>1, <2>4, <2>5 DEF Ahead
<1>14. CASE YieldEntry
  <2>1. /\ pc = "yield" /\ pc' = "loop" /\ UNCHANGED <<stack, truncated>>
        /\ found' = found \cup {[path |-> entry.path, node |-> entry.node]}
    BY <1>14 DEF YieldEntry, Taken, Loops, Ends
  <2>2. q # entry.path /\ ~Found(q)
    <3> DEFINE new == [path |-> entry.path, node |-> entry.node]
    <3>1. new.path = entry.path
      OBVIOUS
    <3> HIDE DEF new
    <3>2. new \in found' /\ \A e \in found : e \in found'
      BY <2>1 DEF new
    <3> QED  BY <3>1, <3>2
  <2>3. Ahead(q)
    BY <1>3, <1>4, <2>1, <2>2
  <2> QED  BY <2>1, <2>2, <2>3 DEF Ahead
<1>15. CASE CloseFrames
  <2>1. pc = "finally" /\ UNCHANGED <<found, truncated, outcome>>
    BY <1>15 DEF CloseFrames
  <2>2. Ahead(q)
    BY <1>4, <2>1
  <2> QED  BY <2>1, <2>2 DEF Ahead
<1>16. CASE UNCHANGED walkVars
  <2>1. Ahead(q)
    BY <1>4, <1>16 DEF walkVars
  <2> QED  BY <1>16, <2>1 DEF walkVars, Ahead
<1>17. ASSUME NEW name \in Name, NextEntry(name) PROVE Ahead(q)'
  <2> DEFINE taken == [Top EXCEPT !.todo = Top.todo \ {name}]
  <2>1. /\ pc = "loop" /\ pc' = "stat" /\ stack # <<>>
        /\ stack' = [stack EXCEPT ![Len(stack)] = taken]
        /\ UNCHANGED <<fds, fresh, found, outcome, parts, truncated>>
        /\ entry' = [path |-> Append(Top.path, name), node |-> None, states |-> {}]
    BY <1>17 DEF NextEntry, Top
  <2>2. Top \in FramePart /\ Top = stack[Len(stack)] /\ Len(stack) \in Nat \ {0}
    BY <2>1 DEF WalkInv, FrameInv, Top
  <2>3. taken.path = Top.path /\ taken.todo = Top.todo \ {name} /\ Top.path \in Seq(Name)
    BY <2>2 DEF FramePart
  <2>4. /\ Len(stack') = Len(stack)
        /\ \A i \in 1 .. Len(stack) : stack'[i] = IF i = Len(stack) THEN taken ELSE stack[i]
    <3>1. taken = [Top EXCEPT !.todo = Top.todo \ {name}]
      OBVIOUS
    <3> HIDE DEF taken
    <3> QED  BY <2>1, <3>1, EntryTaken DEF WalkInv
  <2> HIDE DEF taken
  <2>5. PICK i \in 1 .. Len(stack) :
          Extends(stack[i].path, q) /\ q[Len(stack[i].path) + 1] \in stack[i].todo
    <3>1. Ahead(q)
      BY <1>3, <1>4, <2>1
    <3> QED  BY <2>1, <3>1 DEF Ahead, Waits
  <2>6. entry'.path = Append(Top.path, name)
    BY <2>1
  <2>7. CASE i = Len(stack) /\ q[Len(Top.path) + 1] = name
    <3>1. q = Append(Top.path, name) \/ Extends(Append(Top.path, name), q)
      BY <1>3, <2>2, <2>3, <2>5, <2>7, NextName
    <3> QED  BY <2>1, <2>6, <3>1 DEF Ahead
  <2>8. CASE ~(i = Len(stack) /\ q[Len(Top.path) + 1] = name)
    <3>1. stack'[i].path = stack[i].path /\ q[Len(stack[i].path) + 1] \in stack'[i].todo
      BY <2>2, <2>3, <2>4, <2>5, <2>8
    <3>2. Waits(stack', q)
      BY <2>4, <2>5, <3>1 DEF Waits
    <3> QED  BY <2>1, <3>2 DEF Ahead
  <2> QED  BY <2>7, <2>8
<1>18. CASE PopFrame
  <2>1. /\ stack # <<>> /\ stack' = Front(stack) /\ pc = "loop" /\ pc' = "loop"
        /\ UNCHANGED <<found, truncated>> /\ Top.todo = {}
    BY <1>18 DEF PopFrame, Ends
  <2>2. /\ Len(stack') = Len(stack) - 1 /\ Len(stack) \in Nat \ {0}
        /\ \A i \in 1 .. Len(stack') : stack'[i] = stack[i]
    BY <1>3, <2>1, FrontOf
  <2>3. PICK i \in 1 .. Len(stack) :
          Extends(stack[i].path, q) /\ q[Len(stack[i].path) + 1] \in stack[i].todo
    <3>1. Ahead(q)
      BY <1>3, <1>4, <2>1
    <3> QED  BY <2>1, <3>1 DEF Ahead, Waits
  <2>4. i \in 1 .. Len(stack')
    BY <2>1, <2>2, <2>3 DEF Top
  <2>5. Waits(stack', q)
    BY <2>2, <2>3, <2>4 DEF Waits
  <2> QED  BY <2>1, <2>5 DEF Ahead
<1>19. CASE NewFrame
  <2>1. /\ pc = "scan" /\ stack' = Append(stack, Frame)
        /\ UNCHANGED <<found, truncated>>
        /\ IF Matched THEN pc' = "yield" /\ entry' = entry ELSE pc' = "loop"
    BY <1>19 DEF NewFrame, Ends
  <2>2. /\ Frame.path = entry.path
        /\ Frame.todo = {n \in Name : tree[fds[fresh]][n] # None}
    BY DEF Frame
  <2>3. /\ Len(stack') = Len(stack) + 1 /\ stack'[Len(stack) + 1] = Frame
        /\ \A i \in 1 .. Len(stack) : stack'[i] = stack[i]
    <3> HIDE DEF Frame
    <3> QED  BY <1>3, <2>1
  <2>4. pc' \in {"yield", "loop"}
    BY <2>1
  <2>5. fds[fresh] = NodeIn(tree, base \o entry.path) /\ entry.path \in Seq(Name)
        /\ entry.node = NodeIn(tree, base \o entry.path)
    BY <2>1 DEF LocatedInv, Placed, WalkInv, EntryInv
  <2>6. CASE Waits(stack, q)
    <3>1. PICK i \in 1 .. Len(stack) :
            Extends(stack[i].path, q) /\ q[Len(stack[i].path) + 1] \in stack[i].todo
      BY <2>6 DEF Waits
    <3>2. i \in 1 .. Len(stack') /\ stack'[i] = stack[i]
      BY <1>3, <2>3
    <3>3. Waits(stack', q)
      BY <3>1, <3>2 DEF Waits
    <3> QED  BY <2>4, <3>3 DEF Ahead
  <2>7. CASE Extends(entry.path, q)
    <3>1. q[Len(entry.path) + 1] \in Name
      BY <1>3, <2>5, <2>7, NextName
    <3>2. q[Len(Frame.path) + 1] \in Frame.todo /\ Extends(Frame.path, q)
      BY <2>2, <2>5, <2>7, <3>1, AboveExpected
    <3> HIDE DEF Frame
    <3>3. Len(stack) + 1 \in 1 .. Len(stack') /\ stack'[Len(stack) + 1] = Frame
      BY <1>3, <2>3
    <3>4. Waits(stack', q)
      BY <3>2, <3>3 DEF Waits
    <3> QED  BY <2>4, <3>4 DEF Ahead
  <2>8. CASE q = entry.path
    <3>1. stack # <<>>
      BY <1>3, <2>1, <2>8 DEF WalkInv, PlaceInv
    <3>2. Reach(parts, q, entry.node, Len(parts))
      BY <2>5, <2>8, ExpectedEntry
    <3>3. entry.states = Positions(parts, q, entry.node)
      BY <2>1, <2>8 DEF PatternInv
    <3>4. IsMatch(entry.states)
      BY <1>3, <3>2, <3>3 DEF IsMatch, Positions
    <3> QED  BY <2>1, <2>8, <3>1, <3>4 DEF Matched, Ahead
  <2>9. Ahead(q)
    BY <1>3, <1>4, <2>1
  <2> QED  BY <2>1, <2>6, <2>7, <2>8, <2>9 DEF Ahead
<1> QED  BY <1>2, <1>5, <1>6, <1>7, <1>8, <1>9, <1>10, <1>11, <1>12, <1>13, <1>14, <1>15,
            <1>16, <1>17, <1>18, <1>19 DEF Walk

(* The tree has been left alone so far only if it was before.                *)
LEMMA CompleteStep ==
  WalkInv /\ PatternInv /\ CompleteInv /\ [WalkNext]_walkVars => CompleteInv'
<1> SUFFICES ASSUME WalkInv, PatternInv, CompleteInv, [WalkNext]_walkVars, changes' = 0
             PROVE  LocatedInv' /\ CoverInv'
  BY DEF CompleteInv
<1>1. changes = 0
  <2>1. changes \in Nat
    BY WalkAssumption DEF WalkAssumption, WalkInv, SearchTypes
  <2>2. CASE Walk \/ UNCHANGED walkVars
    BY <2>2 DEF Walk, walkVars, world, OpenRoot, OpenBase, NewFrame, StopAtBudget, WalkEnds,
       NextEntry, PopFrame, SkipEntry, InspectEntry, PassEntry, StatFails, OpenFile, OpenChild,
       YieldEntry, CloseFrames
  <2>3. ASSUME NEW d, NEW n, NEW x, Change(d, n, x) PROVE FALSE
    BY <2>1, <2>3 DEF Change
  <2> QED  BY <2>2, <2>3 DEF WalkNext
<1> QED  BY <1>1, LocatedStep, CoverStep DEF CompleteInv

LEMMA CompleteInvInit == WalkInit => CompleteInv
  BY DEF WalkInit, CompleteInv, LocatedInv, CoverInv, Ahead

(* A search of a tree nobody changes that is not cut short finds exactly     *)
(* what the pattern describes.                                               *)
THEOREM WalkFindsAll == WalkSpec => []SearchIsComplete
<1> DEFINE Inv == WalkInv /\ PatternInv /\ CompleteInv
<1>1. WalkInit => Inv
  BY WalkInvInit, PatternInvInit, CompleteInvInit
<1>2. Inv /\ [WalkNext]_walkVars => Inv'
  BY WalkInvStep, PatternStep, CompleteStep
<1>3. Inv => SearchIsComplete
  <2> SUFFICES ASSUME Inv, pc = "done", outcome = "ended", ~truncated, changes = 0
               PROVE  {e.path : e \in found} = Expected
    BY DEF SearchIsComplete
  <2>1. ExpectedIn(tree, parts, base) = Expected
    <3>1. \A p \in Paths : NodeAt(base \o p) = NodeIn(tree, base \o p)
      BY DEF NodeAt, NodeIn
    <3>2. \A p, x : Matches(p, x) <=> Reach(parts, p, x, Len(parts))
      BY MatchIsReach DEF WalkInv
    <3> QED  BY <3>1, <3>2 DEF ExpectedIn, Expected, Present
  <2>2. \A e \in found : e.path \in ExpectedIn(tree, parts, base)
    BY DEF CompleteInv, LocatedInv
  <2>3. \A q \in ExpectedIn(tree, parts, base) : \E e \in found : e.path = q
    BY DEF CompleteInv, CoverInv, Ahead
  <2> QED  BY <2>1, <2>2, <2>3
<1> QED  BY <1>1, <1>2, <1>3, PTL DEF WalkSpec
=============================================================================
