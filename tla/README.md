# Verification of deepseek-as-subagent

TLA+ models of the `deepseek_mcp` package: an MCP server that lets a host agent
delegate coding tasks to a model, runs the model's tools in killable child
processes inside one workspace, and must neither lose the user's data nor let
two executions work in the same workspace nor forget a file it has changed; and
of the adapter that registers this server with Codex by editing the user's
`config.toml`.

All paths below are relative to the repository root. `PROJECT.json` lists the
components, the runs, the source lines behind every definition, the mutants,
the hazards and the theorems.

## Inventory

| component | state | operations | hard because |
|---|---|---|---|
| Job manager (`job_manager.py`) | jobs, one active slot, mailbox and cancel event per job, usage claim | start, run_sync, send_message, cancel, result, finish_usage_record, the job thread | host calls race the job thread; start holds a lock across the lease and the journal gate |
| MCP server (`server.py`) | the job manager, the log | eight tools, cancellation of a synchronous delegation | asyncio cancellation while a worker thread runs |
| Workspace lease (`execution_lock.py`) | one flock per workspace, descriptors inherited by tool children | acquire, inherit, release | crashes of the server and orphaned children |
| Tool supervision (`tool_process.py`, `tool_child.py`, `parent_liveness.py`) | child process, liveness pipe, watchdog, output lines | spawn, wait, terminate, kill, decode, classify | deadline, cancellation, parent death and normal exit race |
| Bash (`bash_tool.py`) | host command in a session of its own | start, wait, kill the group, answer | signals and failures between Popen and the answer |
| Atomic replacement (`posix_atomic_commit.py`, `file_io.py`) | target, temporary and recovery name | baseline check, exchange, park, audit, restore | an editor may act between any two system calls |
| Mutation journal (`transaction_journal.py`, `transaction_report.py`, `transaction_recovery.py`, `mutation_outcome.py`) | one record per mutation, the run's accumulator | intent, warning, gate, query, acknowledge | two processes and a power loss between them |
| Agent loop (`agent_loop.py`, `resource_budget.py`) | conversation, counters, budgets | turn, tool batch, steering, finalise | budgets at their limits, steering between tools |
| Provider requests (`provider_retry.py`, `provider_process.py`) | retry counters, request child | request, backoff, stop | retry, deadline and cancellation race |
| Windows replacement (`windows_workspace_write.py`, `windows_atomic_commit.py`, `windows_file_io.py`, `windows_handle_rename.py`) | target, temporary, displaced and recovery name | baseline check, ReplaceFileW, audit, delete by handle, rollback | there is no exchange; ReplaceFileW may stop between its two renames |
| Walk (`workspace_walk.py`, `walk_support.py`) | stack of open directories, pattern positions, counters | open the base, next entry, inspect, open child or file, yield, close | the tree changes under the walk; limits and consumers end it anywhere |
| Codex adapter and scripts (`adapters/codex/*`, `installer_path_guard.py`) | `config.toml`, backup, manifest, generations, adapter lock | begin, verify, prune, rollback, clean up | the user edits the same file; scripts and helpers fail, are interrupted and killed |
| Configuration, private log, process hardening, smoke scripts | | | see "Not modelled" |

How they interact: a host call enters `server.py`, which takes the job manager's
slot. The slot takes the workspace lease and passes the journal gate before an
agent runs. The agent loop polls the job's mailbox and cancel event, asks the
provider through a request child and runs each tool in a tool child that
inherits the lease descriptor. A mutating tool writes an intent to the journal,
announces it to its parent, and replaces the file. The parent classifies the
call when the child is gone, and the records travel into the result or the
error of the job. The host reviews and acknowledges them under the same lease
before anything else may run. Glob and Grep are consumers of one walk each. The
Codex scripts run outside the server, by hand: they share nothing with it but
the generation of the package that `config.toml` makes Codex start.

## Modules

| module | models | state |
|---|---|---|
| `JobManager` | the job manager of one server process | one variable per JobRecord field; `activeJob`, `syncActive`; `opPc` for the call that holds the lock across several visible steps; `worker` for the job thread and how `run_agent` ended; `mutated` what the run has journaled, `recorded` what it knows of; `claim` for readers of results, `logged` and `doubtful` for the lines in the usage log; `lease` and `pending` for what other processes see |
| `ExclusiveExecution` | what the lease promises, without locks: one root enters an empty workspace, its processes fork and leave | `members` |
| `WorkspaceLease` | the lease over servers, tool children and host commands; implements `ExclusiveExecution` | `lockHolders` is the set of processes with the locked description open; `srv` and `child` are program counters; `orphaned`, `expired`, `termed`, `killed` are the watchdog's inputs and effects; `command` and `answer` the host command and what its Bash call says |
| `PosixCommit` | one file replacement on POSIX, with an editor | `entry` is the directory, `data` the inodes, `pc` the next system call; `sigterm` the pending signal; `saved`, `late`, `displaced` are history |
| `AgentLoop` | one run of `run_agent`; implements the job thread of `JobManager` | `history` is `state.messages`; `planned`, `next`, `blank` the reply being handled; `reported`, `metered`, `lastPrompt`, `lastRequest` the token budget; `inbox`, `open`, `cancelSet` the job's mailbox and events; `sent` and `late` are history |
| `ProviderRequest` | `call_with_retry` over `request_in_subprocess` and the request child | `pc` is the calling thread, `verdict` what the attempt came to, `transport` the pipe thread, `child` and `answer` the process; `termed`, `killed`, `orphaned` what was done to it; `runLimited`, `runOver`, `requestOver` the two deadlines; `started` and `late` are history |
| `WindowsCommit` | one file replacement on Windows, with an editor | `entry`, `data`, `pc` as in `PosixCommit`, with four names; `named` what the message says; `published`, `gaps`, `saved`, `late` are history |
| `WorkspaceWalk` | one Glob or Grep search in a tree that changes | `stack` is the frames, `fds` the open descriptors, `entry` and `fresh` the entry at hand and its descriptor; `entries`, `directories`, `truncated` the limits; `tree` the file system; `found` is history |
| `CodexInstall` | the Codex scripts run one after another, their helper and the user | `shell` and `helper` are program counters; `config`, `temp`, `hidden` the directory of `config.toml`; `backup` and `manifest` the transaction directory of each run; `gens`, `locked` the state of the adapter; `base`, `seen`, `mode` the helper's locals; `used`, `owed`, `blind` are history |
| `MutationJournal` | intents, announcements, publications, classification, acknowledgement over child, server and machine | `journal` and `durable` are the records on disk; `ready`, `warned`, `result` the lines on the pipe; `records` the accumulator; `effective`, `blind`, `acked` are history |

`*_proofs` hold the theorems of a module (`Workspace_proofs` those of
`WorkspaceLease` and of `WorkspaceWalk`), `MC*` its TLC instance (symmetry sets,
and the tree of `WorkspaceWalk`).

An action is one critical section or one system call. A method of the job
manager that runs under the manager lock is one action; `start` and the entry
of `run_sync` are several, because the lease and the journal they touch are
visible to other processes meanwhile. In `PosixCommit`, `WindowsCommit`,
`MutationJournal` and `CodexInstall` every step can be followed by a kill.
Content is abstracted to model values: a version of a file, a transaction id,
the number of messages in a mailbox, a name of one of the kinds a walk tells
apart, the user's part of a configuration.

The modules meet at four interfaces. `AgentLoop` refines what `JobManager`
says of a job's thread (`ThreadContract`: an instance of `JobManager` with one
job and one workspace): it drains the mailbox, closes it with an answer,
records mutations and ends, and does nothing else the job manager could see.
`AgentLoop` takes a provider request as
`Receive` or `RequestFails`, the three outcomes of `ProviderRequest`.
`JobManager` sees the lease as
free, foreign or its own; `WorkspaceLease` is the detail behind "foreign after
release" (a child that inherited the descriptor). `MutationJournal` uses the
lease as `LeaseFree`, which is what `WorkspaceLease` establishes, and a commit as
publish, take back, or stand with a warning, which is what `PosixCommit` and
`WindowsCommit` establish. `WorkspaceWalk` and `CodexInstall` stand alone: a
walk changes nothing the other modules see, and the scripts do not meet the
server.

## What is checked

| run | properties | instance |
|---|---|---|
| `Jobs` | one execution per server; lease held exactly for an execution; no run over unreviewed records; an accepted cancellation wins; the host reads of exactly the mutations the run knew of; a usage line is repeated only for an attempt that failed after writing it; an answer never discards acknowledged steering; pruning drops the oldest results and only with a successful start; the slot is freed again | 3 jobs, 2 workspaces, 2 readers, 2 retained, mailbox of 1, 1 line of a failed attempt per job, fair |
| `LeaseExclusion` | the lease implements `ExclusiveExecution`; a Bash call that reports a status has left no process; a crashed server's lease becomes free | 2 servers, 2 children, fair |
| `LeaseHost` | violated: see Findings | 2 servers, 1 child |
| `Commit` | saved data is never lost; a failure has restored the file; success displaced exactly the baseline; retained data is named | 3 files of the editor, 2 edits |
| `WindowsCommit` | the same four | 4 files, 3 edits, one of them too large to read |
| `WindowsRestore` | violated: see Findings | 3 files, 2 edits, one too large |
| `Journal` | standing replacements are journaled; the gate fails closed; the loop goes on past clean commits only; runs report what they did; "committed" is true; acknowledged transactions are over | 3 calls, journal of 2 |
| `AgentLoop` | every request carries one answer per announced call, in order; no tool runs by a plan older than steering; a completed run has answered all steering; at most one tool starts after a cancellation; the job thread's contract; what is reserved for a request is enough for it | 3 turns, batches of 0 to 3 calls against 2 per turn and 3 per run, 16 tokens, usage reported or not, at most 1 token above the estimate, 2 messages |
| `ProviderRequest` | no attempt begins beside a living child; a cancelled call ends and its child is gone, also when the clean-up fails or the server ends | the source's 2 and 1 retries, fair |
| `WorkspaceWalk` | a search not reported as cut short is complete; what it finds matches, whatever changes meanwhile, and nothing outside is opened; no way out leaves a descriptor open | every pattern of up to 3 parts over 5 kinds of part, 10 directories, 7 entries, 3 directories and depth 2 as limits, one change in a directory |
| `CodexInstall` | no edit of the user is lost; what `config.toml` registers exists; what takes an unsuccessful change back is kept | 2 runs after an earlier one, 2 edits |
| `CodexRace` | violated: see Findings | 1 run, 2 edits |

Why the bounds are enough to be interesting. Two jobs suffice for every
relation between a running and a finished job; three against a limit of two make
pruning choose and let a claimed result exceed the limit. Two workspaces are
needed because with one the lease would serialise executions anyway. Two
servers and two children cover a server that works beside the orphan of a
crashed one, and a server's own previous child. Two edits let the user save
between exchange and audit and again during the restore; a file for each edit
lets every one of them be saved by rename. A third edit on Windows lets the
version that cannot be read be the one displaced, after or before a readable
one. A journal of two with three
calls is full while a call is still possible. Three turns let one run be steered
within a batch, retry an empty answer and still complete; two messages
reach a full mailbox. The third request meets the token budget exactly, fits or
does not, depending on the usage reported before it. The tree of
`WorkspaceWalk` has a hidden directory with a protected file, a pruned name as a
file and as a directory, and a chain one level deeper than the depth limit; a
directory, a file and a link wait to be put in the place of what `lstat` saw.
Three parts are the least that set `**` before, between and after ordinary parts.
After an earlier installation two runs are the least that give pruning a
generation to remove and let a run follow a killed one. Jobs, edits and
calls are used once each; these, `MaxChanges`, `MaxParts`, `Busy`, `MaxRuns`
and `MaxDoubtful` are the only bounds on otherwise unbounded behaviour (`AcquireSlot` names the one
on job ids). A run whose configuration switches the deadlock check off models
something that ends: a call, a search, the last run of a script, or the ids of the
instance.

### Fairness

`Jobs` assumes that the holder of the manager lock continues (straight
line code), that the OS schedules the job thread, and that `run_agent` ends with
some outcome: it is bounded by the run deadline and by `max_turns`, whatever
steering arrives. `LeaseExclusion` assumes that the watchdog thread is scheduled,
that signals are delivered and that a process which is leaving exits. In
`ProviderRequest` the calling thread's steps are straight-line code or waits
that end by themselves, the child's interpreter starts and its watchdog is
scheduled; no answer, no signal and no clock is assumed to arrive. Nothing
assumes that a tool or a host command ends by itself. All of it is weak fairness.

## What is proved

TLAPS proves, for every value of the constants, all safety properties of the
passing runs: each invariant, each action property, and the two refinements.
Assumptions are the `ASSUME`s of the modules: model values are distinct, bounds
are positive (or natural numbers), and the tree of `WorkspaceWalk` is a tree of
inodes in which the workspace links nothing outside except by links.

* `JobManager_proofs`. The invariant ties the slot to the lease: whichever of
  `activeJob`, `syncActive` and `opPc` says that somebody is in, exactly one
  workspace has that owner, and a thread is alive only for the active job.
  `OneExecution` and `LeaseMatchesExecution` follow. A second invariant relates
  `cancelSet`, `accepting` and `queued` to the thread's progress, for
  cancellation and steering, and claims and `usage` to the log. `ReportInv`
  says that an error leaves `run_agent` bare only if there is no record to name;
  with it `FinishReports` follows every except clause and both arms of
  `_finish_job` to what the host reads. Pruning
  (`NewestAreRetained`) needs that jobs finish at different times (`FinishInv`) and
  a fact about sets: the `MaxRetained - 1` jobs that finished after the youngest
  pruned one are not pruned, so that they stay behind every one that goes.
* `Workspace_proofs`, the lease. The key invariant is that a process is alive exactly
  when it holds the lock, and that a supervised child is one its server is
  waiting for. The abstract `members` is therefore `lockHolders`, and each step
  is one of `Enter`, `Fork`, `Leave` or a stutter. Neither conjunct is inductive
  alone: a child may only be forked by a holder. `CommandInv` says that a status is
  only answered where the group was stopped, and that no command starts after it.
* `PosixCommit_proofs`. Five groups of facts indexed by `pc`: where the
  replacement and the displaced file are (`PlaceInv`), what the audit has
  established (`DisplacedInv`), what is under a hidden name (`HiddenInv`), what
  the next unlink may remove, and what the user is owed. The last needs the
  others: data is only safe because no label that unlinks can be reached with
  anybody else's file under the name.
* `MutationJournal_proofs`. `StageInv` relates a child's progress to the lines
  it has sent and the records it has written; `AloneInv` says that only the
  current call's child can be alive while a run is on, and none while the lease
  is free; `TargetInv` and `RunInv` relate the target and the accumulator to it.
* `AgentLoop_proofs`. `BatchInv` carries what `BatchAllowed` promised through a
  batch: the calls started and those left stay within the run's limit; with it,
  a run never has more records than started calls. The conversation's invariant
  describes every entry but those of the open batch, whose answered part is
  consecutive after its announcement. `BudgetInv` says that a request is only
  sent when its reservation fits. `LoopImplementsThread` proves the refinement
  of the job thread step by step. `SteeringInv` says that what was acknowledged is in
  the conversation or still in the mailbox, and that an answer closes an empty
  mailbox; the number of messages in the conversation is a recursive function, and
  the lemmas that an append adds to it take the least index where they would fail.
* `ProviderRequest_proofs`. A retry is paid for before its attempt begins, so the
  children started never exceed one plus the retries spent. Where the caller
  decides, waits or begins, the child is gone; after a cancellation the caller
  cannot come back to the label that starts one.
* `WindowsCommit_proofs`. The same argument with four names and no exchange:
  where the names lead at each label (`PlaceInv`) decides what the next delete by
  handle may remove (`AuditInv`), and with that no version loses its last name
  (`KeptInv`). `ResultInv` and `NamedInv` follow the outcome and the message
  through the rollback; they need the first two because a rollback that stops
  half-way leaves different names behind.
* `CodexInstall_proofs`. `Sound` says of a file that the generation it registers
  is on disk and that a run which has not succeeded and shows in it still has its
  records. It must be carried for every file on its way into `config.toml` (the
  private name, the two snapshots), and needs where script and helper are
  (`PhaseInv`), what a run may have left (`RunInv`, `BaseInv`) and what a finished
  restore has removed (`DoneInv`), because pruning and clean-up take away what
  `Sound` speaks of. For the user's texts `EditInv` adds that none depends on the
  backup of the run at work, which its clean-up deletes: the private name is only
  dropped when it holds the helper's own text or the original's (`SeenInv`), and
  the original's is somewhere else then (`OriginalInv`).

* `Workspace_proofs`, the search. `DescriptorInv` says that what is open belongs to
  one frame or to the entry at hand, so that every way out closes everything.
  `AdvanceIsExact` is the correctness of the pattern automaton: the positions the
  code computes name by name are those the declarative meaning (`Matches`, a way to
  cut the path into what each part covers) gives the longer path. With it
  `PatternInv` carries the positions of every frame and of the entry at hand, and
  what is found matches whatever the user changes. For completeness `LocatedInv`
  says that in a tree nobody changes each frame's descriptor is the directory its
  path leads to, and `CoverInv` that each expected entry not yet found is *ahead*:
  below the entry at hand, or below a name some frame has still to read. The step
  that skips an entry or prunes a directory is where this could fail; there
  `AboveMatch` shows that the positions of every directory above a match allow a
  descent. None of the three is inductive without `FrameInv` and `PlaceInv`.

Induction. The provers cannot instantiate the library's induction schemes, but they can
use its theorem that `<` is well-founded on the naturals. `LeastNumber` derives from it
that a non-empty set of naturals has a least member; the lemmas about recursive
functions (`NodeIn`, `SteeringIn`) and about patterns look at the least index where
their claim would fail.

Left to TLC: liveness under fairness (`SlotFreedAgain`, `CrashFreesLease`,
`CancelWindsUp`), which is out of this prover's reach.

## Findings

`SECURITY.md:69` says "The lease is released after the active execution and its
child processes finish." A Bash command is a process of the execution, but it
runs in a session of its own without the lease descriptor. The tool child kills
its group in a finally clause, which it does not reach with a known process when
SIGTERM arrives while `_start_host_command` has not returned, when a second
SIGTERM arrives inside that clause, or when the child itself is killed
(`bash_tool.py:298`). Two ways need no signal: a reader thread that cannot be
started raises between `Popen` and the return (line 260), so that there is no
process to stop, and `_stop_host_process` may answer `False` (line 168). Run
`LeaseHost` shows the command alive with a free lease. What does hold is
`BashStatusMeansStopped`: none of this happens behind a call that reports an exit
status, or that the command was terminated after its timeout; every such call
fails.

`windows_atomic_commit.py:94` says of `commit`: "Publish a temporary file and
restore any non-baseline displacement." The audit of what was displaced reads the file
through `_checked_read`, which raises a `ToolInputError` when the version is too
large or is written during the read. That is no `OSError`, so it passes the
restore (`windows_atomic_commit.py:110`): the call ends as a conflict that names nothing,
the replacement stays in place and the user's version under a hidden name. Run
`WindowsRestore` shows it. Nothing is lost (`NoSavedDataLost`), and for every other
way an audit ends `FailureRestores` holds.

`configure.py:429` refuses to roll back over a config changed since: "refusing to
overwrite newer edits". When the replacement raises after its commit (a failing
fsync of the directory, Ctrl-C), the except clause of `begin_transaction` reads the
file, finds its own content and restores by force, which reads the file again
and compares nothing (`configure.py:418`). An edit saved between the two reads is
overwritten, or deleted when there was no file before. Run `CodexRace` shows it;
`NoEditLost` holds for every edit outside that window.

Worth knowing, although no document says otherwise:

* `_record_usage` (`server.py:451`) answers `False` also when the line is in the
  log and the close after it fails, or the write was short: the claim goes back and
  the next reader writes the line again. `UsageLinesAccounted` says that this is the
  only way to a second line, and that a usage marked as recorded has its line.
* A mutation whose announcement is lost to the run (`tool_process.py:325`, `350`)
  is in the journal and in no record of the run, so that the host reads of none.
  `MutationsReported` is about what the run knew of; the net behind it is the
  journal's gate (`NoRunOverPendingRecords`, `GoesOnOnlyPastCommitted`).
* When parking the displaced file fails and the exchange back succeeds after
  the user has saved again, his version is left under the temporary name and
  the plain error does not name it; the same name is dropped when the fsync of a
  restore fails. `RetainedDataIsNamed` covers conflicts, warnings and successes.
* A write through a descriptor opened earlier, after the audit and before the
  unlink, is lost. No code that unlinks by name can see it; the history
  variable `late` collects those versions and they are not counted as saved.
* A SIGKILL between exchange and audit leaves the replacement over a concurrent
  edit. The edit survives under the temporary name and the journal has a record,
  which the parent reports as "committed".
* On Windows an audit of the parent directory that fails after publication leaves
  the displaced file neither audited nor named, and when a rollback stops half-way
  and the original cannot return, `_restore` raises an error of its own that names
  the recovery file only. `gaps` records both; `RetainedDataIsNamed` leaves them out.
* `_open_base` leaves the descriptor of the workspace open when
  `require_workspace_stat` raises, because it catches `OSError` only. This is the
  outcome `"moved"`, which `NoDescriptorLeft` leaves out.
* After a conflict, or a begin that has restored by force itself, the rollback of
  the Codex script finds another content than its own and refuses: the script
  always ends with `PRESERVE_RECOVERY`, and its records stay.

## Limits of the models

* `JobManager` keeps the message limit of a mailbox and drops its byte limit. A
  result or an error is reduced to whether it names the run's records. The usage log
  is that of POSIX; on Windows `_record_usage` writes nothing and answers `True`.
* `WorkspaceLease` assumes that processes do not reuse pids while they are
  signalled. The processes of a host command are those of its group: they run as
  the server's user, so that `killpg` reaches all of them, and a SIGKILL that was
  sent counts as taken. A descendant that leaves the group is none of them.
* `PosixCommit` gives each version an identity of its own: what metadata and
  digest together tell apart. A file replaced by an identical one is no change.
* `AgentLoop` counts bytes and tokens in messages: one message is one byte and
  is estimated as one token. A usage below the estimate meters as none. The byte
  budget of mutation tools is left out: it is only ever used up.
* `ProviderRequest` keeps the class of an answer only; the captured stderr and
  its reader thread are left out (one of the hazards: its descriptor is closed
  while the thread may still read from it). After a failed clean-up the error
  speaks of the run's time budget whatever happened; the model calls it failed.
* `MutationJournal` has one target; digests differ between transactions. A
  power loss does not revert the target's own rename, and the directories of the
  journal exist. The store's temporary names are not modelled, nor a record that is
  published while its child fails before announcing it: a child killed at that
  point leaves the same journal and the same silence.
* `WindowsCommit` starts where the parent chain is open and takes the close of a
  handle for part of the call before it. A write through a handle opened earlier is
  late once the file is audited for deletion. A file whose close fails after its
  deletion was accepted is gone here and not named; the code still names it. The
  check of metadata before publication is exact here; in the code it may miss a
  change, which the audit of the content then finds.
* `WorkspaceWalk` is the walk with directory descriptors. A name is a model value:
  what `fnmatch` makes of a part is the set of names it matches. A directory is
  listed when its frame is made; the code's iterator may see later names too. FIFOs,
  sockets and devices, which are matched by name and never opened, are no kind of
  node. No action follows a link, as `O_NOFOLLOW` demands, so that the part of
  `FindsOnlyMatches` about nodes outside only guards the model itself; what it says
  of names and identities is what can fail. Other
  errors of a system call end the search, as in the code.
* `CodexInstall` lets one helper work at a time: the adapter lock gives it that,
  and the lease on the configuration is a failure like any other. Generations are
  numbered by age, where the code goes by the directory's mtime and name. The user's editor reads and saves at once and keeps the
  registration. Ownership and path checks are failures a command may have.

## Not modelled

* `_run_sync_cancellable` (`server.py:276`). Who is told of a synchronous
  delegation that is cancelled twice depends on how the event loop of the MCP library
  repeats a cancellation, which is not in `src/`. The net behind it is modelled: a
  synchronous delegation may leave records (`SyncMutates`) and they stay pending
  when it leaves, whoever was told, so that no job runs over them.
* The captured stderr of a request child, whose descriptor is closed while its
  reader thread may still read: diagnostics only.
* `private_logging.py`: diagnostic output, bounded under a file lock of its own.
* The walk by paths for systems without `openat`, and the regular expressions of
  Grep. The Windows variants of the lease, of process supervision and of the Codex
  helper: their operating system calls are other ones than those modelled here.
* `config.py`, `execution_profile.py`, `proxy_environment.py`, schemas and result
  formatting: pure functions of one file, the environment or a value.
* Process hardening and child bootstrap: calls made once per process, without
  state. `install.sh` of the Claude adapter, asset and path guards, smoke scripts:
  run once, by a person, and checked by the shell.

Worth adding next: the promise that `PosixCommit` and `WindowsCommit` share as one
abstract module both implement and `MutationJournal` builds on; `ProviderRequest`
as a refinement of what `AgentLoop` takes a request for; the asyncio side of a
synchronous delegation.
