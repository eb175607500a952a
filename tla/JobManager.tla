----------------------------- MODULE JobManager -----------------------------
(***************************************************************************)
(* The in-memory job manager of one MCP server process                     *)
(* (src/deepseek_mcp/job_manager.py): one execution slot shared by          *)
(* background jobs and synchronous delegations, the steering mailbox and    *)
(* the cancel event of each job, the usage-record claim, the bounded set of *)
(* retained results, and the workspace lease the slot is tied to.           *)
(*                                                                         *)
(* Every method of DeepSeekJobManager runs under one RLock.  A method whose *)
(* body is only that critical section is one action, enabled while nobody   *)
(* holds the lock (opPc = "idle").  start() and the entry of run_sync()      *)
(* touch state other processes see (the lease, the journal) while they hold *)
(* the lock, so they are broken into the steps named by opPc.               *)
(*                                                                         *)
(* A task, a message and a result are abstracted: a mailbox is the number   *)
(* of messages in it, a result or an error whether it names the run's        *)
(* mutation records.                                                         *)
(***************************************************************************)
EXTENDS Naturals, FiniteSets

CONSTANTS
  JobId,        \* job ids uuid4() can return; an id is never drawn twice
  NoJob,        \* the None of _active_job_id and of a client without a claim
  Client,       \* host calls of get_deepseek_result in flight
  Workspace,    \* workspaces this server is configured for over its life
  MaxRetained,  \* MAX_RETAINED_JOBS
  MaxQueued,    \* MAX_QUEUED_MESSAGES
  MaxDoubtful   \* bound: usage lines of one job written by failed attempts

LeaseHolders == {"free", "foreign", "caller", "sync"}

ASSUME JobManagerAssumption ==
  /\ NoJob \notin JobId
  /\ JobId \cap LeaseHolders = {}
  /\ MaxRetained \in Nat \ {0}
  /\ MaxQueued \in Nat \ {0}
  /\ MaxDoubtful \in Nat

VARIABLES
  \* the JobRecord fields; status is "absent" for a key not in _jobs, and
  \* None, as a result or an error, names no mutation record
  status, cancelSet, accepting, queued, usage, finishedAt, result, error,
  \* the manager's own fields
  activeJob, syncActive,
  \* progress of the call that holds the manager lock, "idle" when none does
  opPc,
  \* job threads: "none", "spawned", "running", or how run_agent ended; whether
  \* the run under way has journaled a mutation; and whether run_agent knows
  \* of one (the records of its MutationAccumulator)
  worker, mutated, recorded,
  \* finish order stands for time.time(); ids already drawn
  clock, drawn,
  \* host calls between result_with_usage_claim and finish_usage_record; the
  \* usage lines of a retained job in the log, and how many of them are there
  \* although the attempt that wrote them was answered persisted = False
  claim, logged, doubtful,
  \* the lease of each workspace and whether its journal has records
  lease, pending

report  == <<result, error>>
record  == <<status, cancelSet, accepting, queued, usage, finishedAt, report>>
slot    == <<activeJob, syncActive, opPc>>
changes == <<mutated, recorded>>
threads == <<worker, changes, clock, drawn>>
host    == <<claim, logged, doubtful>>
world   == <<lease, pending>>
vars    == <<record, slot, threads, host, world>>

Terminal == {"completed", "failed", "cancelled"}
Status   == {"absent", "queued", "running"} \cup Terminal

IsTerminal(j) == status[j] \in Terminal
Unlocked      == opPc = "idle"

(***************************************************************************)
(* A thread of job j exists from Thread.start() until _finish_job returns.  *)
(***************************************************************************)
Live(j)    == worker[j] # "none"
Running(j) == worker[j] = "running"

(***************************************************************************)
(* What is raised in the loop of run_agent, and how run_agent ends.  Any     *)
(* exception that is none of these is one with AgentLoopError: both fail the *)
(* job and only the text differs.                                            *)
(***************************************************************************)
Raisable == {"AgentLoopError", "AgentLoopCancelled", "MutationOutcomeError"}
Exits    == {"answer", "MutationOutcomeCancelled"} \cup Raisable

-----------------------------------------------------------------------------
Init ==
  /\ status = [j \in JobId |-> "absent"]
  /\ cancelSet = [j \in JobId |-> FALSE]
  /\ accepting = [j \in JobId |-> FALSE]
  /\ queued = [j \in JobId |-> 0]
  /\ usage = [j \in JobId |-> "unclaimed"]
  /\ finishedAt = [j \in JobId |-> 0]
  /\ result = [j \in JobId |-> FALSE]
  /\ error = [j \in JobId |-> FALSE]
  /\ activeJob = NoJob
  /\ syncActive = FALSE
  /\ opPc = "idle"
  /\ worker = [j \in JobId |-> "none"]
  /\ mutated = [j \in JobId |-> FALSE]
  /\ recorded = [j \in JobId |-> FALSE]
  /\ clock = 0
  /\ drawn = {}
  /\ claim = [c \in Client |-> NoJob]
  /\ logged = [j \in JobId |-> 0]
  /\ doubtful = [j \in JobId |-> 0]
  /\ lease = [w \in Workspace |-> "free"]
  /\ pending = [w \in Workspace |-> FALSE]

-----------------------------------------------------------------------------
(* start() and run_sync(): slot, lease, journal gate, registration.         *)

Mut_SlotIgnoresSync ==
  activeJob # NoJob => status[activeJob] \in Terminal \cup {"absent"}

SlotAvailable ==
  /\ ~syncActive
  /\ activeJob # NoJob => status[activeJob] \in Terminal \cup {"absent"}

(* _ensure_slot_available_locked, then acquire_workspace_lease.  A busy slot *)
(* or lease raises JobBusy and changes nothing.                              *)
AcquireSlot(gate, w) ==
  /\ Unlocked
  /\ SlotAvailable
  /\ lease[w] = "free"
  /\ gate = "gate_job" => drawn # JobId   \* bound: the ids of the instance
  /\ opPc' = gate
  /\ activeJob' = NoJob
  /\ lease' = [lease EXCEPT ![w] = "caller"]
  /\ UNCHANGED <<record, syncActive, threads, host, pending>>

(* require_no_pending: no record of this workspace waits for a review.       *)
Mut_JournalUnchecked(w) == TRUE
JournalClear(w) == ~pending[w]

Mut_RefusalKeepsLease(w) ==
  /\ opPc \in {"gate_job", "gate_sync"}
  /\ lease[w] = "caller"
  /\ opPc' = "idle"
  /\ UNCHANGED <<record, activeJob, syncActive, threads, host, world>>

(* require_no_pending raises, because records wait for a review or because   *)
(* the journal, empty or not, cannot be read: the lease is given back and    *)
(* the call fails.                                                           *)
RefusePending(w) ==
  /\ opPc \in {"gate_job", "gate_sync"}
  /\ lease[w] = "caller"
  /\ opPc' = "idle"
  /\ lease' = [lease EXCEPT ![w] = "free"]
  /\ UNCHANGED <<record, activeJob, syncActive, threads, host, pending>>

EnterSync(w) ==
  /\ opPc = "gate_sync"
  /\ lease[w] = "caller"
  /\ JournalClear(w)
  /\ opPc' = "idle"
  /\ syncActive' = TRUE
  /\ lease' = [lease EXCEPT ![w] = "sync"]
  /\ UNCHANGED <<record, activeJob, threads, host, pending>>

(* uuid4() returns an id that was never drawn; which one makes no difference. *)
FreshId == CHOOSE j \in JobId : j \notin drawn

(* The JobRecord is created and entered in _jobs before its thread exists.   *)
RegisterJob(j, w) ==
  /\ opPc = "gate_job"
  /\ lease[w] = "caller"
  /\ JournalClear(w)
  /\ j \notin drawn
  /\ j = FreshId
  /\ drawn' = drawn \cup {j}
  /\ opPc' = "spawn"
  /\ activeJob' = j
  /\ status' = [status EXCEPT ![j] = "queued"]
  /\ accepting' = [accepting EXCEPT ![j] = TRUE]
  /\ lease' = [lease EXCEPT ![w] = j]
  /\ UNCHANGED <<cancelSet, queued, usage, finishedAt, report, syncActive,
                 worker, changes, clock, host, pending>>

(* Thread.start() raises: the record is popped and the lease given back.     *)
SpawnFails(j, w) ==
  /\ opPc = "spawn"
  /\ activeJob = j
  /\ lease[w] = j
  /\ opPc' = "idle"
  /\ activeJob' = NoJob
  /\ status' = [status EXCEPT ![j] = "absent"]
  /\ accepting' = [accepting EXCEPT ![j] = FALSE]
  /\ lease' = [lease EXCEPT ![w] = "free"]
  /\ UNCHANGED <<cancelSet, queued, usage, finishedAt, report, syncActive,
                 threads, host, pending>>

(* _prune_locked: of the terminal jobs nobody is recording the usage of, all *)
(* but the MaxRetained - 1 that finished last leave _jobs, and what is known  *)
(* of them goes with their records.                                          *)
Prunable == {j \in JobId : IsTerminal(j) /\ usage[j] # "recording"}
Mut_PrunesNewest ==
  {j \in Prunable :
     Cardinality({k \in Prunable : finishedAt[k] < finishedAt[j]})
       >= MaxRetained - 1}
Pruned ==
  {j \in Prunable :
     Cardinality({k \in Prunable : finishedAt[k] > finishedAt[j]})
       >= MaxRetained - 1}

Retained(field, blank) == [k \in JobId |-> IF k \in Pruned THEN blank ELSE field[k]]

SpawnWorker(j) ==
  /\ opPc = "spawn"
  /\ activeJob = j
  /\ opPc' = "idle"
  /\ worker' = [worker EXCEPT ![j] = "spawned"]
  /\ status' = Retained(status, "absent")
  /\ cancelSet' = Retained(cancelSet, FALSE)
  /\ usage' = Retained(usage, "unclaimed")
  /\ finishedAt' = Retained(finishedAt, 0)
  /\ result' = Retained(result, FALSE) /\ error' = Retained(error, FALSE)
  /\ recorded' = Retained(recorded, FALSE)
  /\ logged' = Retained(logged, 0) /\ doubtful' = Retained(doubtful, 0)
  /\ UNCHANGED <<accepting, queued, activeJob, syncActive, mutated, clock, drawn,
                 claim, world>>

Mut_SyncFlagNotReset(w) ==
  /\ Unlocked
  /\ syncActive
  /\ lease[w] = "sync"
  /\ lease' = [lease EXCEPT ![w] = "free"]
  /\ UNCHANGED <<record, activeJob, syncActive, opPc, threads, host, pending>>

(* The finally clause of run_sync.  release() only closes the descriptor; a  *)
(* tool child that inherited it keeps the lock, which then looks foreign.    *)
LeaveSync(w) ==
  /\ Unlocked
  /\ syncActive
  /\ lease[w] = "sync"
  /\ syncActive' = FALSE
  /\ \E after \in {"free", "foreign"} : lease' = [lease EXCEPT ![w] = after]
  /\ UNCHANGED <<record, activeJob, opPc, threads, host, pending>>

-----------------------------------------------------------------------------
(* The job thread: _run_job, the callbacks run_agent makes, _finish_job.     *)

BeginJob(j) ==
  /\ Unlocked
  /\ worker[j] = "spawned"
  /\ worker' = [worker EXCEPT ![j] = "running"]
  /\ status' = [status EXCEPT ![j] = "running"]
  /\ UNCHANGED <<cancelSet, accepting, queued, usage, finishedAt, report, slot,
                 changes, clock, drawn, host, world>>

(* drain_messages(): takes _control_lock only, so it also runs while another *)
(* thread holds the manager lock.                                            *)
PollSteering(j) ==
  /\ Running(j)
  /\ queued[j] > 0
  /\ queued' = [queued EXCEPT ![j] = 0]
  /\ UNCHANGED <<status, cancelSet, accepting, usage, finishedAt, report, slot,
                 threads, host, world>>

Mut_AnswerLeavesMailboxOpen(j) ==
  /\ Running(j)
  /\ queued[j] = 0
  /\ worker' = [worker EXCEPT ![j] = "answer"]
  /\ UNCHANGED <<record, slot, changes, clock, drawn, host, world>>

(* drain_messages(finalize_if_empty=True) on an empty mailbox closes it, and *)
(* run_agent then returns its answer.  A non-empty mailbox is PollSteering.  *)
FinalizeAnswer(j) ==
  /\ Running(j)
  /\ queued[j] = 0
  /\ accepting' = [accepting EXCEPT ![j] = FALSE]
  /\ worker' = [worker EXCEPT ![j] = "answer"]
  /\ UNCHANGED <<status, cancelSet, queued, usage, finishedAt, report, slot,
                 changes, clock, drawn, host, world>>

(* A mutation tool ran: its intent is in the journal and, unless its         *)
(* announcement never reached the run (known is FALSE: the child's output    *)
(* was lost, or the child failed before it), a record in the accumulator.    *)
MutateWorkspace(j, w, known) ==
  /\ Running(j)
  /\ lease[w] = j
  /\ mutated' = [mutated EXCEPT ![j] = TRUE]
  /\ recorded' = [recorded EXCEPT ![j] = @ \/ known]
  /\ pending' = [pending EXCEPT ![w] = TRUE]
  /\ UNCHANGED <<record, slot, worker, clock, drawn, host, lease>>

(* _raise_with_mutation_records: what leaves run_agent for what was raised   *)
(* in its loop.                                                              *)
Leaving(j, raised) ==
  IF ~recorded[j] THEN raised
  ELSE IF raised = "AgentLoopCancelled" THEN "MutationOutcomeCancelled"
  ELSE "MutationOutcomeError"

(* run_agent raises: an error at any point, or AgentLoopCancelled at a check *)
(* that saw the cancel event.  Without a record a MutationOutcomeError is    *)
(* that of a mutation whose intent event could not be verified.              *)
StopAgent(j, raised) ==
  /\ Running(j)
  /\ raised = "AgentLoopCancelled" => cancelSet[j]
  /\ worker' = [worker EXCEPT ![j] = Leaving(j, raised)]
  /\ UNCHANGED <<record, slot, changes, clock, drawn, host, world>>

(* _run_background_agent: the except clause each ending meets.  An answer    *)
(* carries the accumulator as its "mutations", the text of a                 *)
(* MutationOutcomeError names it.                                            *)
Outcome(j) ==
  LET exit == worker[j] IN
  [ status   |-> IF exit = "answer" THEN "completed"
                 ELSE IF exit \in {"AgentLoopCancelled", "MutationOutcomeCancelled"}
                 THEN "cancelled" ELSE "failed",
    result   |-> exit = "answer" /\ recorded[j],
    error    |-> exit \in {"MutationOutcomeError", "MutationOutcomeCancelled"}
                   /\ recorded[j],
    preserve |-> exit \in {"MutationOutcomeError", "MutationOutcomeCancelled"} ]

(* _apply_cancelled_outcome: the error of a job that ends cancelled.  A      *)
(* result is discarded but its records are not; CANCELLED_ERROR names none.  *)
Mut_CancelDropsResult(o) ==
  IF o.preserve \/ o.status = "cancelled" THEN o.error ELSE FALSE
CancelledError(o) ==
  IF o.result THEN TRUE
  ELSE IF o.preserve THEN o.error
  ELSE IF o.status = "cancelled" THEN o.error ELSE FALSE

Mut_LateCancelIgnored(j) == Outcome(j).status = "cancelled"
CancellationWon(j) == cancelSet[j] \/ Outcome(j).status = "cancelled"

FinishJob(j, w) ==
  /\ Unlocked
  /\ worker[j] \in Exits
  /\ lease[w] = j
  /\ \E after \in {"free", "foreign"} : lease' = [lease EXCEPT ![w] = after]
  /\ IF CancellationWon(j)
       THEN /\ status' = [status EXCEPT ![j] = "cancelled"]
            /\ cancelSet' = [cancelSet EXCEPT ![j] = TRUE]
            /\ result' = [result EXCEPT ![j] = FALSE]
            /\ error' = [error EXCEPT ![j] = CancelledError(Outcome(j))]
       ELSE /\ status' = [status EXCEPT ![j] = Outcome(j).status]
            /\ result' = [result EXCEPT ![j] = Outcome(j).result]
            /\ error' = [error EXCEPT ![j] = Outcome(j).error]
            /\ UNCHANGED cancelSet
  /\ clock' = clock + 1
  /\ finishedAt' = [finishedAt EXCEPT ![j] = clock + 1]
  /\ accepting' = [accepting EXCEPT ![j] = FALSE]
  /\ queued' = [queued EXCEPT ![j] = 0]
  /\ activeJob' = IF activeJob = j THEN NoJob ELSE activeJob
  /\ worker' = [worker EXCEPT ![j] = "none"]
  /\ mutated' = [mutated EXCEPT ![j] = FALSE]
  /\ UNCHANGED <<usage, syncActive, opPc, recorded, drawn, host, pending>>

-----------------------------------------------------------------------------
(* Host calls.                                                              *)

QueueHasRoom(j) == queued[j] < MaxQueued

SendMessage(j) ==
  /\ Unlocked
  /\ status[j] \in {"queued", "running"}
  /\ accepting[j]
  /\ QueueHasRoom(j)
  /\ queued' = [queued EXCEPT ![j] = @ + 1]
  /\ UNCHANGED <<status, cancelSet, accepting, usage, finishedAt, report, slot,
                 threads, host, world>>

(* An accepted cancellation; a second one, or one of a terminal job, answers *)
(* cancel_accepted = False and changes nothing.                              *)
CancelJob(j) ==
  /\ Unlocked
  /\ status[j] \in {"queued", "running"}
  /\ ~cancelSet[j]
  /\ cancelSet' = [cancelSet EXCEPT ![j] = TRUE]
  /\ accepting' = [accepting EXCEPT ![j] = FALSE]
  /\ queued' = [queued EXCEPT ![j] = 0]
  /\ UNCHANGED <<status, usage, finishedAt, report, slot, threads, host, world>>

(* _claim_usage_locked                                                       *)
Mut_ReclaimsRecorded(j) == status[j] = "completed" /\ usage[j] # "recording"
Claimable(j) == status[j] = "completed" /\ usage[j] = "unclaimed"

(* result_with_usage_claim when it hands out the claim.                      *)
ClaimUsage(c, j) ==
  /\ Unlocked
  /\ claim[c] = NoJob
  /\ Claimable(j)
  /\ usage' = [usage EXCEPT ![j] = "recording"]
  /\ claim' = [claim EXCEPT ![c] = j]
  /\ UNCHANGED <<status, cancelSet, accepting, queued, finishedAt, report, slot,
                 threads, logged, doubtful, world>>

(* _record_usage, outside the lock.  True says the line is in the log (on    *)
(* Windows none is kept); False does not say it is not there: the write may  *)
(* be short, or the unlock or the close after it fail.                       *)
RecordUsage(written, persisted) == persisted => written

(* finish_usage_record with that answer.                                     *)
FinishUsage(c, written, persisted) ==
  LET j == claim[c] IN
  /\ Unlocked
  /\ j # NoJob
  /\ RecordUsage(written, persisted)
  /\ written /\ ~persisted => doubtful[j] < MaxDoubtful   \* bound
  /\ usage' = [usage EXCEPT ![j] = IF persisted THEN "recorded" ELSE "unclaimed"]
  /\ logged' = IF written THEN [logged EXCEPT ![j] = @ + 1] ELSE logged
  /\ doubtful' = IF written /\ ~persisted THEN [doubtful EXCEPT ![j] = @ + 1]
                                          ELSE doubtful
  /\ claim' = [claim EXCEPT ![c] = NoJob]
  /\ UNCHANGED <<status, cancelSet, accepting, queued, finishedAt, report, slot,
                 threads, world>>

-----------------------------------------------------------------------------
(* Other holders of the lease: another server, a recovery call, an orphaned  *)
(* tool child.  The journal only changes under the lease.                    *)

ForeignAcquire(w) ==
  /\ lease[w] = "free"
  /\ lease' = [lease EXCEPT ![w] = "foreign"]
  /\ UNCHANGED <<record, slot, threads, host, pending>>

ForeignRelease(w) ==
  /\ lease[w] = "foreign"
  /\ lease' = [lease EXCEPT ![w] = "free"]
  /\ UNCHANGED <<record, slot, threads, host, pending>>

ForeignJournal(w) ==
  /\ lease[w] = "foreign"
  /\ pending' = [pending EXCEPT ![w] = ~@]
  /\ UNCHANGED <<record, slot, threads, host, lease>>

SyncMutates(w) ==
  /\ lease[w] = "sync"
  /\ pending' = [pending EXCEPT ![w] = TRUE]
  /\ UNCHANGED <<record, slot, threads, host, lease>>

-----------------------------------------------------------------------------
Start ==
  \E w \in Workspace :
    \/ \E gate \in {"gate_job", "gate_sync"} : AcquireSlot(gate, w)
    \/ RefusePending(w)
    \/ EnterSync(w)
    \/ LeaveSync(w)
    \/ \E j \in JobId : RegisterJob(j, w) \/ SpawnFails(j, w)

JobThread(j) ==
  \/ SpawnWorker(j)
  \/ BeginJob(j)
  \/ PollSteering(j)
  \/ FinalizeAnswer(j)
  \/ \E raised \in Raisable : StopAgent(j, raised)
  \/ \E w \in Workspace, known \in BOOLEAN : MutateWorkspace(j, w, known)
  \/ \E w \in Workspace : FinishJob(j, w)

Host ==
  \/ \E j \in JobId : SendMessage(j) \/ CancelJob(j)
  \/ \E c \in Client, j \in JobId : ClaimUsage(c, j)
  \/ \E c \in Client, written, persisted \in BOOLEAN : FinishUsage(c, written, persisted)

Environment ==
  \E w \in Workspace :
    ForeignAcquire(w) \/ ForeignRelease(w) \/ ForeignJournal(w) \/ SyncMutates(w)

Next == Start \/ (\E j \in JobId : JobThread(j)) \/ Host \/ Environment

(***************************************************************************)
(* Fairness.  The lock holder's steps are straight-line code; the job        *)
(* thread is scheduled by the OS; run_agent is bounded by the run deadline   *)
(* and max_turns, so it ends with some outcome (FinalizeAnswer or StopAgent),*)
(* whatever steering arrives; run_sync's caller likewise.  No start can take *)
(* the lock while a run is alive, so weak fairness is enough for them all.   *)
(***************************************************************************)
StartProceeds ==
  \E w \in Workspace :
    \/ RefusePending(w) \/ EnterSync(w) \/ LeaveSync(w)
    \/ \E j \in JobId : RegisterJob(j, w) \/ SpawnFails(j, w)
AgentEnds(j) == FinalizeAnswer(j) \/ \E raised \in Raisable : StopAgent(j, raised)
ThreadEnds(j) == BeginJob(j) \/ \E w \in Workspace : FinishJob(j, w)

Fairness ==
  /\ WF_vars(StartProceeds)
  /\ \A j \in JobId :
       WF_vars(SpawnWorker(j)) /\ WF_vars(AgentEnds(j)) /\ WF_vars(ThreadEnds(j))

Spec     == Init /\ [][Next]_vars
FairSpec == Spec /\ Fairness

-----------------------------------------------------------------------------
TypeOK ==
  /\ status \in [JobId -> Status]
  /\ cancelSet \in [JobId -> BOOLEAN]
  /\ accepting \in [JobId -> BOOLEAN]
  /\ queued \in [JobId -> 0 .. MaxQueued]
  /\ usage \in [JobId -> {"unclaimed", "recording", "recorded"}]
  /\ finishedAt \in [JobId -> Nat]
  /\ result \in [JobId -> BOOLEAN]
  /\ error \in [JobId -> BOOLEAN]
  /\ activeJob \in JobId \cup {NoJob}
  /\ syncActive \in BOOLEAN
  /\ opPc \in {"idle", "gate_job", "gate_sync", "spawn"}
  /\ worker \in [JobId -> {"none", "spawned", "running"} \cup Exits]
  /\ mutated \in [JobId -> BOOLEAN]
  /\ recorded \in [JobId -> BOOLEAN]
  /\ clock \in Nat
  /\ drawn \in SUBSET JobId
  /\ claim \in [Client -> JobId \cup {NoJob}]
  /\ logged \in [JobId -> Nat]
  /\ doubtful \in [JobId -> 0 .. MaxDoubtful]
  /\ lease \in [Workspace -> LeaseHolders \cup JobId]
  /\ pending \in [Workspace -> BOOLEAN]

Owns(x) == {w \in Workspace : lease[w] = x}

(* At most one execution, background or synchronous, is alive in this server *)
(* although its calls may name different workspaces: the slot, not the lease,*)
(* serialises them (class docstring, JobBusy).                               *)
OneExecution ==
  /\ \A j, k \in JobId : Live(j) /\ Live(k) => j = k
  /\ syncActive => \A j \in JobId : ~Live(j)

(* A lease is held exactly as long as the execution it was taken for: no     *)
(* refused start, failed thread start or finished run leaves one behind, and *)
(* none runs without one.                                                    *)
LeaseMatchesExecution ==
  /\ \A j \in JobId : (Live(j) \/ (opPc = "spawn" /\ activeJob = j)) <=> Owns(j) # {}
  /\ syncActive <=> Owns("sync") # {}
  /\ opPc \in {"gate_job", "gate_sync"} <=> Owns("caller") # {}
  /\ \A u, w \in Workspace : lease[u] = lease[w] /\ lease[u] \notin {"free", "foreign"}
                             => u = w

(* A job that has not itself changed its workspace never runs over mutation  *)
(* records nobody acknowledged (require_no_pending under the lease).         *)
NoRunOverPendingRecords ==
  \A j \in JobId, w \in Workspace : lease[w] = j /\ ~mutated[j] => ~pending[w]

(* A cancellation that answered cancel_accepted = True is never overtaken by *)
(* a result or an error committed later (_finish_job), and a job that ends   *)
(* cancelled says so in cancel_requested.                                    *)
AcceptedCancelWins ==
  \A j \in JobId : IsTerminal(j) => (cancelSet[j] <=> status[j] = "cancelled")

(* What get_deepseek_result hands out of a job (_result_payload_locked).      *)
Readable(j) == IF status[j] = "completed" THEN result[j] ELSE error[j]

(* The host reads of exactly the mutations run_agent knew of, whatever it    *)
(* answered or raised and whatever cancellation was accepted meanwhile: a    *)
(* cancelled job discards the answer but not the records in it.              *)
MutationsReported ==
  \A j \in JobId : IsTerminal(j) => Readable(j) = recorded[j]

(* A usage claim always refers to a retained completed job and belongs to    *)
(* one call, so finish_usage_record never meets a pruned job.                *)
ClaimIsBacked ==
  /\ \A c \in Client : claim[c] # NoJob =>
       /\ status[claim[c]] = "completed"
       /\ usage[claim[c]] = "recording"
  /\ \A c, d \in Client : claim[c] = claim[d] /\ claim[c] # NoJob => c = d

(* Concurrent and repeated get_deepseek_result calls write a job's usage     *)
(* line once, and once more only for each attempt that was answered as       *)
(* failed although its line had reached the log; a recorded usage is there.  *)
UsageLinesAccounted ==
  \A j \in JobId :
    /\ logged[j] <= doubtful[j] + 1
    /\ usage[j] = "recorded" => logged[j] >= 1

(* A job never completes over a message send_message acknowledged: what the  *)
(* mailbox holds when the answer is committed was drained by the agent first.*)
NoSteeringDiscardedByAnswer ==
  [][\A j \in JobId :
       status[j] = "running" /\ status'[j] = "completed" => queued[j] = 0]_vars

(* Pruning drops the oldest results: one that goes leaves MaxRetained - 1    *)
(* younger ones behind, and none goes except when a start succeeds.          *)
PruneKeepsNewest ==
  [][\A j \in JobId : IsTerminal(j) /\ status'[j] = "absent" =>
       /\ worker' # worker
       /\ Cardinality({k \in JobId : IsTerminal(k)' /\ finishedAt[k] > finishedAt[j]})
            >= MaxRetained - 1]_vars

(* No execution keeps the slot for ever.                                     *)
SlotFreedAgain == []<>(Unlocked /\ SlotAvailable)

=============================================================================
