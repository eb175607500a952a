--------------------------- MODULE WorkspaceLease ---------------------------
(***************************************************************************)
(* The OS lease of one workspace (execution_lock.py) over the life of the    *)
(* processes that hold it: several MCP server processes, the tool children   *)
(* each execution starts one after the other (tool_process.py, tool_child.py)*)
(* with the lease descriptor inherited, and the host command a Bash child    *)
(* starts in a session of its own without it (bash_tool.py).  POSIX only.    *)
(*                                                                         *)
(* flock() belongs to the open file description: the lease is held as long   *)
(* as some process has that description open, and release() only closes the  *)
(* caller's descriptor.  A server process may crash at any step; a tool      *)
(* child may be terminated by its parent, by its own watchdog, or killed.     *)
(*                                                                         *)
(* The processes of a host command are those of its process group: they run  *)
(* as the server's user, so killpg() reaches them all, and a SIGKILL that    *)
(* was sent counts as taken.  A descendant that leaves the group (setsid) is *)
(* no longer one of them.                                                   *)
(***************************************************************************)
EXTENDS FiniteSets

CONSTANTS
  Server,   \* server processes (and recovery calls, which start no tool)
  Child,    \* tool children; each is one process and is used once
  NoChild

ASSUME LeaseAssumption ==
  /\ NoChild \notin Child
  /\ Server \cap Child = {}

VARIABLES
  srv,          \* what the thread that runs the execution is doing
  current,      \* the tool child it supervises
  child,        \* where the main thread of a tool child is
  command,      \* the host command's process group still has a member
  orphaned,     \* the parent's end of the child's liveness pipe is closed
  expired,      \* the run deadline has passed for this child
  termed,       \* the child's watchdog has sent its SIGTERM
  killed,       \* a SIGKILL is pending for the child
  answer,       \* what the Bash call of the child has answered or will answer
  lockHolders   \* processes with the locked file description open

vars == <<srv, current, child, command, orphaned, expired, termed, killed,
          answer, lockHolders>>

ServerStates == {"idle", "running", "calling", "terminating", "killing",
                 "finishing", "dead"}
ChildStates  == {"unused", "boot", "work", "bash_start", "bash_wait",
                 "bash_cleanup", "ending", "dead"}

(* A Bash call answers with the command's exit status (or that it was        *)
(* terminated after its timeout), or it fails; "none" as long as neither is  *)
(* decided, and for a file tool.                                             *)
Answers      == {"none", "status", "failed"}

Alive(c)    == child[c] \notin {"unused", "dead"}
Holding(s)  == srv[s] \notin {"idle", "dead"}
Waking      == {"work", "bash_start", "bash_wait", "bash_cleanup"}

-----------------------------------------------------------------------------
Init ==
  /\ srv = [s \in Server |-> "idle"]
  /\ current = [s \in Server |-> NoChild]
  /\ child = [c \in Child |-> "unused"]
  /\ command = [c \in Child |-> FALSE]
  /\ orphaned = [c \in Child |-> FALSE]
  /\ expired = [c \in Child |-> FALSE]
  /\ termed = [c \in Child |-> FALSE]
  /\ killed = [c \in Child |-> FALSE]
  /\ answer = [c \in Child |-> "none"]
  /\ lockHolders = {}

-----------------------------------------------------------------------------
(* The server's side.                                                       *)

(* acquire_workspace_lease: a non-blocking flock on a description of its own; *)
(* a conflict closes it again and raises WorkspaceLockBusy.                  *)
AcquireLease(s) ==
  /\ srv[s] = "idle"
  /\ lockHolders = {}
  /\ srv' = [srv EXCEPT ![s] = "running"]
  /\ lockHolders' = {s}
  /\ UNCHANGED <<current, child, command, orphaned, expired, termed, killed,
                 answer>>

(* _start_tool: the descriptor travels in pass_fds.                          *)
Mut_LeaseNotPassed(s, c) == lockHolders
HoldersAfterSpawn(s, c) == IF s \in lockHolders THEN lockHolders \cup {c} ELSE lockHolders

StartTool(s, c) ==
  /\ srv[s] = "running"
  /\ child[c] = "unused"
  /\ srv' = [srv EXCEPT ![s] = "calling"]
  /\ current' = [current EXCEPT ![s] = c]
  /\ child' = [child EXCEPT ![c] = "boot"]
  /\ lockHolders' = HoldersAfterSpawn(s, c)
  /\ UNCHANGED <<command, orphaned, expired, termed, killed, answer>>

(* The pipe reaches EOF when the child has exited: its answer is decoded.    *)
ReceiveResult(s) ==
  /\ srv[s] = "calling"
  /\ child[current[s]] = "dead"
  /\ srv' = [srv EXCEPT ![s] = "running"]
  /\ current' = [current EXCEPT ![s] = NoChild]
  /\ orphaned' = [orphaned EXCEPT ![current[s]] = TRUE]
  /\ UNCHANGED <<child, command, expired, termed, killed, answer, lockHolders>>

(* What one SIGTERM does to the main thread.  Before the handler is          *)
(* installed it kills; afterwards it raises _ToolTermination there.  While   *)
(* _start_host_command has not returned, the caller's `process` is None and  *)
(* its finally clause stops nothing; a second one inside that finally clause *)
(* leaves it before killpg.  A call whose thread it is raised in fails.      *)
AfterSigterm(phase) ==
  CASE phase = "boot"         -> "dead"
    [] phase = "work"         -> "ending"
    [] phase = "bash_start"   -> "ending"
    [] phase = "bash_wait"    -> "bash_cleanup"
    [] phase = "bash_cleanup" -> "ending"
    [] OTHER                  -> phase

Sigterm(c) ==
  /\ child' = [child EXCEPT ![c] = AfterSigterm(@)]
  /\ lockHolders' = IF AfterSigterm(child[c]) = "dead" THEN lockHolders \ {c}
                                                       ELSE lockHolders
  /\ answer' = [answer EXCEPT ![c] = IF child[c] \in Waking THEN "failed" ELSE @]

(* Cancellation or the run deadline ends _wait_for_tool; _stop_process then  *)
(* sends SIGTERM to the child's group.                                       *)
TerminateTool(s) ==
  LET c == current[s] IN
  /\ srv[s] = "calling"
  /\ child[c] # "dead"
  /\ srv' = [srv EXCEPT ![s] = "terminating"]
  /\ Sigterm(c)
  /\ UNCHANGED <<current, command, orphaned, expired, termed, killed>>

KillTool(s) ==
  LET c == current[s] IN
  /\ srv[s] = "terminating"
  /\ child[c] # "dead"
  /\ srv' = [srv EXCEPT ![s] = "killing"]
  /\ killed' = [killed EXCEPT ![c] = TRUE]
  /\ UNCHANGED <<current, child, command, orphaned, expired, termed, answer,
                 lockHolders>>

(* The child is gone, or after a SIGKILL that has not taken effect in two    *)
(* seconds the call gives up; either way the liveness pipe is closed and the *)
(* failure ends the run.                                                     *)
EndStop(s) ==
  /\ srv[s] \in {"terminating", "killing"}
  /\ child[current[s]] = "dead" \/ srv[s] = "killing"
  /\ srv' = [srv EXCEPT ![s] = "finishing"]
  /\ orphaned' = [orphaned EXCEPT ![current[s]] = TRUE]
  /\ current' = [current EXCEPT ![s] = NoChild]
  /\ UNCHANGED <<child, command, expired, termed, killed, answer, lockHolders>>

(* WorkspaceExecutionLease.release: close without LOCK_UN.                   *)
HoldersAfterRelease(s) == lockHolders \ {s}

ReleaseLease(s) ==
  /\ srv[s] \in {"running", "finishing"}
  /\ srv' = [srv EXCEPT ![s] = "idle"]
  /\ lockHolders' = HoldersAfterRelease(s)
  /\ UNCHANGED <<current, child, command, orphaned, expired, termed, killed,
                 answer>>

(* The server process dies: the kernel closes its descriptors, the lease's   *)
(* and the liveness pipe's among them.                                       *)
CrashServer(s) ==
  /\ Holding(s)
  /\ srv' = [srv EXCEPT ![s] = "dead"]
  /\ lockHolders' = lockHolders \ {s}
  /\ orphaned' = [c \in Child |-> orphaned[c] \/ c = current[s]]
  /\ current' = [current EXCEPT ![s] = NoChild]
  /\ UNCHANGED <<child, command, expired, termed, killed, answer>>

RestartServer(s) ==
  /\ srv[s] = "dead"
  /\ srv' = [srv EXCEPT ![s] = "idle"]
  /\ UNCHANGED <<current, child, command, orphaned, expired, termed, killed,
                 answer, lockHolders>>

-----------------------------------------------------------------------------
(* The tool child.                                                          *)

ChildStep(c, from, to) ==
  /\ child[c] = from
  /\ child' = [child EXCEPT ![c] = to]
  /\ UNCHANGED <<srv, current, orphaned, expired, termed, killed>>

Undecided == UNCHANGED <<command, answer, lockHolders>>

(* The SIGTERM handler is installed and the watchdog thread started.         *)
BecomeReady(c) == ChildStep(c, "boot", "work") /\ Undecided

(* A file tool, or a Bash call that fails before its command is started.     *)
FinishFileTool(c) == ChildStep(c, "work", "ending") /\ Undecided

(* Popen in a new session, close_fds: the command does not get the lease.    *)
StartCommand(c) ==
  /\ ChildStep(c, "work", "bash_start")
  /\ command' = [command EXCEPT ![c] = TRUE]
  /\ UNCHANGED <<answer, lockHolders>>
CommandStarted(c) == ChildStep(c, "bash_start", "bash_wait") /\ Undecided

(* A reader thread cannot be started: _start_host_command raises and the      *)
(* caller, whose `process` is still None, has nothing to stop.               *)
StartFails(c) ==
  /\ ChildStep(c, "bash_start", "ending")
  /\ answer' = [answer EXCEPT ![c] = "failed"]
  /\ UNCHANGED <<command, lockHolders>>

(* process.wait returns or its timeout expires: the finally clause is next.  *)
StopWaiting(c) == ChildStep(c, "bash_wait", "bash_cleanup") /\ Undecided

(* _stop_host_process: killpg(SIGKILL) of the command's own group.  When it   *)
(* answers FALSE the signal may not have been sent.                          *)
Mut_NoKillOnSuccess(c, stopped) == {command}
CommandAfterCleanup(c, stopped) ==
  {[command EXCEPT ![c] = left] : left \in IF stopped THEN {FALSE} ELSE {FALSE, command[c]}}

(* The finally clause and _trusted_host_result, which takes the exit status   *)
(* only from a call without a cause, a failed stop or a failed capture.      *)
CleanUpCommand(c, stopped, captured) ==
  /\ ChildStep(c, "bash_cleanup", "ending")
  /\ command' \in CommandAfterCleanup(c, stopped)
  /\ answer' = [answer EXCEPT ![c] =
                  IF @ = "none" /\ stopped /\ captured THEN "status" ELSE "failed"]
  /\ UNCHANGED lockHolders

ExitChild(c) ==
  /\ ChildStep(c, "ending", "dead")
  /\ lockHolders' = lockHolders \ {c}
  /\ UNCHANGED <<command, answer>>

(* The last process of the command's group ends by itself.                   *)
CommandExits(c) ==
  /\ command[c]
  /\ command' = [command EXCEPT ![c] = FALSE]
  /\ UNCHANGED <<srv, current, child, orphaned, expired, termed, killed,
                 answer, lockHolders>>

Expire(c) ==
  /\ Alive(c)
  /\ ~expired[c]
  /\ expired' = [expired EXCEPT ![c] = TRUE]
  /\ UNCHANGED <<srv, current, child, command, orphaned, termed, killed,
                 answer, lockHolders>>

(* wait_for_parent_loss_or_timeout                                           *)
Mut_IgnoresParentLoss(c) == expired[c]
WatchdogWakes(c) == orphaned[c] \/ expired[c]

WatchdogFires(c) ==
  /\ child[c] \in Waking
  /\ WatchdogWakes(c)
  /\ ~termed[c]
  /\ termed' = [termed EXCEPT ![c] = TRUE]
  /\ Sigterm(c)
  /\ UNCHANGED <<srv, current, command, orphaned, expired, killed>>

(* os._exit(124) when the main thread has not finished unwinding in time, or *)
(* the kernel delivers a pending SIGKILL.                                    *)
ForcedExit(c) ==
  /\ Alive(c)
  /\ termed[c] \/ killed[c]
  /\ child' = [child EXCEPT ![c] = "dead"]
  /\ lockHolders' = lockHolders \ {c}
  /\ UNCHANGED <<srv, current, command, orphaned, expired, termed, killed,
                 answer>>

-----------------------------------------------------------------------------
ServerStep(s) ==
  \/ AcquireLease(s) \/ ReceiveResult(s) \/ TerminateTool(s) \/ KillTool(s)
  \/ EndStop(s) \/ ReleaseLease(s) \/ CrashServer(s) \/ RestartServer(s)
  \/ \E c \in Child : StartTool(s, c)

ToolStep(c) ==
  \/ BecomeReady(c) \/ FinishFileTool(c) \/ StartCommand(c) \/ CommandStarted(c)
  \/ StartFails(c) \/ StopWaiting(c) \/ ExitChild(c) \/ CommandExits(c)
  \/ \E stopped, captured \in BOOLEAN : CleanUpCommand(c, stopped, captured)
  \/ Expire(c) \/ WatchdogFires(c) \/ ForcedExit(c)

Next == (\E s \in Server : ServerStep(s)) \/ (\E c \in Child : ToolStep(c))

Spec == Init /\ [][Next]_vars

(***************************************************************************)
(* Fairness: the OS schedules the watchdog thread, delivers signals and lets *)
(* a process that is leaving exit; a server that is alive finishes stopping  *)
(* a tool it waits for and ends a run (the run deadline).  Nothing makes a    *)
(* tool or a host command finish by itself.                                  *)
(***************************************************************************)
Fairness ==
  /\ \A c \in Child :
       /\ WF_vars(BecomeReady(c)) /\ WF_vars(ExitChild(c))
       /\ WF_vars(WatchdogFires(c)) /\ WF_vars(ForcedExit(c))
  /\ \A s \in Server :
       /\ WF_vars(ReceiveResult(s)) /\ WF_vars(TerminateTool(s))
       /\ WF_vars(EndStop(s)) /\ WF_vars(KillTool(s)) /\ WF_vars(ReleaseLease(s))

FairSpec == Spec /\ Fairness

-----------------------------------------------------------------------------
TypeOK ==
  /\ srv \in [Server -> ServerStates]
  /\ current \in [Server -> Child \cup {NoChild}]
  /\ child \in [Child -> ChildStates]
  /\ command \in [Child -> BOOLEAN]
  /\ orphaned \in [Child -> BOOLEAN]
  /\ expired \in [Child -> BOOLEAN]
  /\ termed \in [Child -> BOOLEAN]
  /\ killed \in [Child -> BOOLEAN]
  /\ answer \in [Child -> Answers]
  /\ lockHolders \in SUBSET (Server \cup Child)

(* The processes of executions that are alive in the workspace.              *)
Members == {s \in Server : Holding(s)} \cup {c \in Child : Alive(c)}

(* Executions of different servers, and of one server before and after a     *)
(* crash or a failed cleanup, never overlap (SECURITY.md, README.md).        *)
Exclusive == INSTANCE ExclusiveExecution
               WITH Root <- Server, Descendant <- Child, members <- Members
ExclusiveSpec == Exclusive!Spec

(* A server supervises a child only while it is in a tool call, and every    *)
(* child nobody supervises any more has lost its liveness pipe: no tool      *)
(* child can keep the lease without a watchdog that ends it.                 *)
UnsupervisedIsOrphaned ==
  \A c \in Child : Alive(c) => (orphaned[c] \/ \E s \in Server : current[s] = c)

(* A Bash call that answers with an exit status, or that its command was      *)
(* terminated, has left no process of the command's group behind, whatever    *)
(* fails or is signalled between Popen and that answer.                      *)
BashStatusMeansStopped == \A c \in Child : answer[c] = "status" => ~command[c]

(* SECURITY.md: "The lease is released after the active execution and its    *)
(* child processes finish."                                                  *)
LeaseCoversHostCommands ==
  (\E c \in Child : command[c]) => lockHolders # {}

(* A crashed server never keeps the workspace locked for good: the tool      *)
(* child it leaves behind notices and lets go of the lease.                  *)
CrashFreesLease == \A s \in Server : srv[s] = "dead" ~> lockHolders = {}

=============================================================================
