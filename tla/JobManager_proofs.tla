-------------------------- MODULE JobManager_proofs --------------------------
(***************************************************************************)
(* Proofs about JobManager for every set of jobs, callers and workspaces.   *)
(***************************************************************************)
EXTENDS JobManager, FiniteSetTheorems, NaturalsInduction, WellFoundedInduction, TLAPS

(* The fields of an outcome.                                                 *)
LEMMA OutcomeFields ==
  ASSUME NEW j \in JobId
  PROVE  /\ Outcome(j).status =
               IF worker[j] = "answer" THEN "completed"
               ELSE IF worker[j] \in {"AgentLoopCancelled", "MutationOutcomeCancelled"}
               THEN "cancelled" ELSE "failed"
         /\ Outcome(j).result = (worker[j] = "answer" /\ recorded[j])
         /\ Outcome(j).error =
               (worker[j] \in {"MutationOutcomeError", "MutationOutcomeCancelled"}
                  /\ recorded[j])
         /\ Outcome(j).preserve =
               (worker[j] \in {"MutationOutcomeError", "MutationOutcomeCancelled"})
<1>1. Outcome(j).status =
               IF worker[j] = "answer" THEN "completed"
               ELSE IF worker[j] \in {"AgentLoopCancelled", "MutationOutcomeCancelled"}
               THEN "cancelled" ELSE "failed"
  BY DEF Outcome
<1>2. Outcome(j).result = (worker[j] = "answer" /\ recorded[j])
  BY Zenon DEF Outcome
<1>3. Outcome(j).error =
        (worker[j] \in {"MutationOutcomeError", "MutationOutcomeCancelled"} /\ recorded[j])
  BY Zenon DEF Outcome
<1>4. Outcome(j).preserve =
        (worker[j] \in {"MutationOutcomeError", "MutationOutcomeCancelled"})
  BY Zenon DEF Outcome
<1> QED  BY <1>1, <1>2, <1>3, <1>4

(* What a step that ends job j leaves in its record; no other job ends.      *)
Committed(j) ==
  /\ \A k \in JobId \ {j} : status'[k] = status[k] /\ cancelSet'[k] = cancelSet[k]
  /\ CancellationWon(j) => status'[j] = "cancelled" /\ cancelSet'[j] = TRUE
  /\ ~CancellationWon(j) => status'[j] = Outcome(j).status /\ cancelSet'[j] = cancelSet[j]

LEMMA FinishCommits ==
  ASSUME TypeOK, NEW j \in JobId, NEW w \in Workspace, FinishJob(j, w)
  PROVE  Committed(j)
<1>1. CASE CancellationWon(j)
  BY <1>1 DEF FinishJob, Committed, TypeOK
<1>2. CASE ~CancellationWon(j)
  BY <1>2 DEF FinishJob, Committed, TypeOK
<1> QED  BY <1>1, <1>2

(* Every variable keeps its type under every handler of the job manager.    *)
THEOREM TypeCorrect == Spec => []TypeOK
<1> USE JobManagerAssumption DEF JobManagerAssumption
<1>1. Init => TypeOK
  <2> SUFFICES ASSUME Init PROVE TypeOK
    OBVIOUS
  <2>1. /\ queued \in [JobId -> 0 .. MaxQueued] /\ clock \in Nat
        /\ doubtful \in [JobId -> 0 .. MaxDoubtful]
    BY DEF Init
  <2>2. finishedAt \in [JobId -> Nat] /\ logged \in [JobId -> Nat]
    BY DEF Init
  <2> QED  BY <2>1, <2>2 DEF Init, TypeOK, Status, Terminal, LeaseHolders
<1>2. TypeOK /\ [Next]_vars => TypeOK'
  <2> SUFFICES ASSUME TypeOK, [Next]_vars PROVE TypeOK'
    OBVIOUS
  <2> USE DEF TypeOK, Status, Terminal, LeaseHolders,
              Exits, Raisable, record, report, slot, threads, changes, host, world
  <2>1. CASE Start
    <3> SUFFICES ASSUME NEW w \in Workspace,
                        \/ \E gate \in {"gate_job", "gate_sync"} : AcquireSlot(gate, w)
                        \/ RefusePending(w)
                        \/ EnterSync(w)
                        \/ LeaveSync(w)
                        \/ \E j \in JobId : RegisterJob(j, w) \/ SpawnFails(j, w)
                 PROVE  TypeOK'
      BY <2>1 DEF Start
    <3>1. ASSUME NEW gate \in {"gate_job", "gate_sync"}, AcquireSlot(gate, w) PROVE TypeOK'
      BY <3>1 DEF AcquireSlot
    <3>2. CASE RefusePending(w)  BY <3>2 DEF RefusePending
    <3>3. CASE EnterSync(w)      BY <3>3 DEF EnterSync
    <3>4. CASE LeaveSync(w)      BY ZenonT(40), <3>4 DEF LeaveSync
    <3>5. ASSUME NEW j \in JobId, RegisterJob(j, w) PROVE TypeOK'
      BY <3>5 DEF RegisterJob
    <3>6. ASSUME NEW j \in JobId, SpawnFails(j, w) PROVE TypeOK'
      BY <3>6 DEF SpawnFails
    <3> QED  BY <3>1, <3>2, <3>3, <3>4, <3>5, <3>6
  <2>2. ASSUME NEW j \in JobId, JobThread(j) PROVE TypeOK'
    <3>1. CASE SpawnWorker(j)
      <4>1. /\ status' \in [JobId -> Status] /\ cancelSet' \in [JobId -> BOOLEAN]
            /\ usage' \in [JobId -> {"unclaimed", "recording", "recorded"}]
            /\ result' \in [JobId -> BOOLEAN] /\ error' \in [JobId -> BOOLEAN]
            /\ recorded' \in [JobId -> BOOLEAN]
        BY <3>1 DEF SpawnWorker, Retained
      <4>2. /\ finishedAt' \in [JobId -> Nat] /\ logged' \in [JobId -> Nat]
            /\ doubtful' \in [JobId -> 0 .. MaxDoubtful]
        BY <3>1 DEF SpawnWorker, Retained
      <4>3. worker' \in [JobId -> {"none", "spawned", "running"} \cup Exits]
        BY <3>1 DEF SpawnWorker
      <4> QED  BY <3>1, <4>1, <4>2, <4>3 DEF SpawnWorker
    <3>2. CASE BeginJob(j)        BY <3>2 DEF BeginJob
    <3>3. CASE PollSteering(j)    BY <3>3 DEF PollSteering
    <3>4. CASE FinalizeAnswer(j)  BY <3>4 DEF FinalizeAnswer
    <3>5. ASSUME NEW raised \in Raisable, StopAgent(j, raised) PROVE TypeOK'
      BY <3>5 DEF StopAgent, Leaving
    <3>6. ASSUME NEW w \in Workspace, NEW known \in BOOLEAN, MutateWorkspace(j, w, known)
          PROVE  TypeOK'
      BY <3>6 DEF MutateWorkspace
    <3>7. ASSUME NEW w \in Workspace, FinishJob(j, w) PROVE TypeOK'
      <4>1. /\ Outcome(j).status \in Terminal /\ Outcome(j).result \in BOOLEAN
            /\ Outcome(j).error \in BOOLEAN
        BY OutcomeFields
      <4>2. CancelledError(Outcome(j)) \in BOOLEAN
        BY <4>1, Zenon DEF CancelledError
      <4>3. /\ mutated' \in [JobId -> BOOLEAN] /\ accepting' \in [JobId -> BOOLEAN]
            /\ worker' \in [JobId -> {"none", "spawned", "running"} \cup Exits]
            /\ lease' \in [Workspace -> LeaseHolders \cup JobId]
        BY <3>7 DEF FinishJob
      <4>4. /\ queued' \in [JobId -> 0 .. MaxQueued] /\ clock' \in Nat
            /\ finishedAt' \in [JobId -> Nat]
        BY <3>7 DEF FinishJob
      <4>5. CASE CancellationWon(j)
        <5>1. /\ status' = [status EXCEPT ![j] = "cancelled"]
              /\ cancelSet' = [cancelSet EXCEPT ![j] = TRUE]
              /\ result' = [result EXCEPT ![j] = FALSE]
              /\ error' = [error EXCEPT ![j] = CancelledError(Outcome(j))]
          BY <3>7, <4>5 DEF FinishJob
        <5>2. status' \in [JobId -> Status]
          BY <5>1
        <5>3. cancelSet' \in [JobId -> BOOLEAN]
          BY <5>1
        <5>4. result' \in [JobId -> BOOLEAN]
          BY <5>1
        <5>5. error' \in [JobId -> BOOLEAN]
          BY <4>2, <5>1
        <5> QED  BY <3>7, <4>3, <4>4, <5>2, <5>3, <5>4, <5>5 DEF FinishJob
      <4>6. CASE ~CancellationWon(j)
        <5>1. /\ status' = [status EXCEPT ![j] = Outcome(j).status]
              /\ cancelSet' = cancelSet
              /\ result' = [result EXCEPT ![j] = Outcome(j).result]
              /\ error' = [error EXCEPT ![j] = Outcome(j).error]
          BY <3>7, <4>6 DEF FinishJob
        <5>2. status' \in [JobId -> Status]
          BY <4>1, <5>1
        <5>3. result' \in [JobId -> BOOLEAN]
          BY <4>1, <5>1
        <5>4. error' \in [JobId -> BOOLEAN]
          BY <4>1, <5>1
        <5> QED  BY <3>7, <4>3, <4>4, <5>1, <5>2, <5>3, <5>4 DEF FinishJob
      <4> QED  BY <4>5, <4>6
    <3> QED  BY <2>2, <3>1, <3>2, <3>3, <3>4, <3>5, <3>6, <3>7 DEF JobThread
  <2>3. CASE Host
    <3>1. ASSUME NEW j \in JobId, SendMessage(j) PROVE TypeOK'
      BY <3>1 DEF SendMessage, QueueHasRoom
    <3>2. ASSUME NEW j \in JobId, CancelJob(j) PROVE TypeOK'
      BY <3>2 DEF CancelJob
    <3>3. ASSUME NEW c \in Client, NEW j \in JobId, ClaimUsage(c, j) PROVE TypeOK'
      BY <3>3 DEF ClaimUsage
    <3>4. ASSUME NEW c \in Client, NEW written \in BOOLEAN, NEW persisted \in BOOLEAN,
              FinishUsage(c, written, persisted)
          PROVE  TypeOK'
      BY <3>4 DEF FinishUsage
    <3> QED  BY <2>3, <3>1, <3>2, <3>3, <3>4 DEF Host
  <2>4. ASSUME NEW w \in Workspace,
               ForeignAcquire(w) \/ ForeignRelease(w) \/ ForeignJournal(w) \/ SyncMutates(w)
        PROVE  TypeOK'
    <3>1. CASE ForeignAcquire(w)  BY <3>1 DEF ForeignAcquire
    <3>2. CASE ForeignRelease(w)  BY <3>2 DEF ForeignRelease
    <3>3. CASE ForeignJournal(w)
      <4>1. pending' \in [Workspace -> BOOLEAN]
        BY <3>3 DEF ForeignJournal
      <4> QED  BY <3>3, <4>1 DEF ForeignJournal
    <3>4. CASE SyncMutates(w)     BY <3>4 DEF SyncMutates
    <3> QED  BY <2>4, <3>1, <3>2, <3>3, <3>4
  <2>5. CASE UNCHANGED vars
    BY <2>5 DEF vars
  <2> QED  BY <2>1, <2>2, <2>3, <2>4, <2>5 DEF Next, Environment
<1> QED  BY <1>1, <1>2, PTL DEF Spec


-----------------------------------------------------------------------------
(* What the lock, _active_job_id and _sync_active say about each other in    *)
(* every state: the strengthening that makes OneExecution inductive.         *)
SlotInv ==
  /\ \A j \in JobId : Live(j) =>
       /\ activeJob = j
       /\ status[j] \in {"queued", "running"}
       /\ opPc = "idle"
       /\ ~syncActive
  /\ opPc # "idle" => ~syncActive
  /\ opPc \in {"gate_job", "gate_sync"} => activeJob = NoJob
  /\ opPc = "spawn" => activeJob # NoJob /\ status[activeJob] = "queued"
  /\ syncActive => activeJob = NoJob
  /\ activeJob # NoJob => Live(activeJob) \/ opPc = "spawn"
  /\ \A j \in JobId : status[j] \in {"queued", "running"} => activeJob = j
  /\ \A j \in JobId \ drawn : status[j] = "absent" /\ ~Live(j)

LEMMA SlotInvInit == Init => SlotInv
  BY DEF Init, SlotInv, Live

LEMMA SlotInvStep == TypeOK /\ SlotInv /\ [Next]_vars => SlotInv'
<1> SUFFICES ASSUME TypeOK, SlotInv, [Next]_vars PROVE SlotInv'
  OBVIOUS
<1> USE JobManagerAssumption DEF JobManagerAssumption, TypeOK, SlotInv, Live, Status, Terminal,
                                 record, report, slot, threads, changes, host, world
<1>1. ASSUME NEW w \in Workspace, NEW gate \in {"gate_job", "gate_sync"}, AcquireSlot(gate, w)
      PROVE  SlotInv'
  BY <1>1 DEF AcquireSlot, SlotAvailable, Unlocked
<1>2. ASSUME NEW w \in Workspace, RefusePending(w) PROVE SlotInv'
  BY <1>2 DEF RefusePending
<1>3. ASSUME NEW w \in Workspace, EnterSync(w) PROVE SlotInv'
  BY <1>3 DEF EnterSync
<1>4. ASSUME NEW w \in Workspace, LeaveSync(w) PROVE SlotInv'
  BY <1>4 DEF LeaveSync
<1>5. ASSUME NEW w \in Workspace, NEW j \in JobId, RegisterJob(j, w) PROVE SlotInv'
  BY <1>5 DEF RegisterJob
<1>6. ASSUME NEW w \in Workspace, NEW j \in JobId, SpawnFails(j, w) PROVE SlotInv'
  BY <1>6 DEF SpawnFails
<1>7. ASSUME NEW j \in JobId, SpawnWorker(j) PROVE SlotInv'
  BY <1>7 DEF SpawnWorker, Retained, Pruned, Prunable, IsTerminal
<1>8. ASSUME NEW j \in JobId, BeginJob(j) PROVE SlotInv'
  BY <1>8 DEF BeginJob
<1>9. ASSUME NEW j \in JobId, PollSteering(j) PROVE SlotInv'
  BY <1>9 DEF PollSteering
<1>10. ASSUME NEW j \in JobId, FinalizeAnswer(j) PROVE SlotInv'
  BY <1>10 DEF FinalizeAnswer, Running
<1>11. ASSUME NEW j \in JobId, NEW raised \in Raisable, StopAgent(j, raised)
       PROVE  SlotInv'
  BY <1>11 DEF StopAgent, Running, Leaving, Raisable
<1>12. ASSUME NEW w \in Workspace, NEW j \in JobId, NEW known \in BOOLEAN,
              MutateWorkspace(j, w, known) PROVE SlotInv'
  BY <1>12 DEF MutateWorkspace
<1>13. ASSUME NEW w \in Workspace, NEW j \in JobId, FinishJob(j, w) PROVE SlotInv'
  <2>1. Outcome(j).status \in Terminal /\ Live(j) /\ activeJob = j
    BY <1>13 DEF FinishJob, Outcome, Exits, Raisable
  <2>2. \E o \in Terminal : status' = [status EXCEPT ![j] = o]
    BY <1>13, <2>1 DEF FinishJob
  <2> QED  BY <1>13, <2>1, <2>2 DEF FinishJob
<1>14. ASSUME NEW j \in JobId, SendMessage(j) \/ CancelJob(j) PROVE SlotInv'
  BY <1>14 DEF SendMessage, CancelJob
<1>15. ASSUME NEW c \in Client, NEW j \in JobId, ClaimUsage(c, j) PROVE SlotInv'
  BY <1>15 DEF ClaimUsage
<1>16. ASSUME NEW c \in Client, NEW written \in BOOLEAN, NEW persisted \in BOOLEAN,
              FinishUsage(c, written, persisted)
       PROVE  SlotInv'
  BY <1>16 DEF FinishUsage
<1>17. ASSUME NEW w \in Workspace,
              ForeignAcquire(w) \/ ForeignRelease(w) \/ ForeignJournal(w) \/ SyncMutates(w)
       PROVE  SlotInv'
  BY <1>17 DEF ForeignAcquire, ForeignRelease, ForeignJournal, SyncMutates
<1>18. CASE UNCHANGED vars
  BY <1>18 DEF vars
<1> QED
  BY <1>1, <1>2, <1>3, <1>4, <1>5, <1>6, <1>7, <1>8, <1>9, <1>10, <1>11, <1>12, <1>13, <1>14,
     <1>15, <1>16, <1>17, <1>18 DEF Next, Start, JobThread, Host, Environment

(* One execution at a time in this server, whatever workspaces its calls     *)
(* name and however starts, failures and finishes interleave.                *)
THEOREM SlotIsExclusive == Spec => []OneExecution
<1>1. TypeOK /\ SlotInv => OneExecution
  BY DEF SlotInv, OneExecution
<1> QED  BY <1>1, TypeCorrect, SlotInvInit, SlotInvStep, PTL DEF Spec


-----------------------------------------------------------------------------
(* The lease of a workspace names its holder, and the slot's holder has one. *)
LeaseInv ==
  /\ \A w \in Workspace, j \in JobId : lease[w] = j => activeJob = j
  /\ \A w \in Workspace : lease[w] = "sync" => syncActive
  /\ \A w \in Workspace : lease[w] = "caller" => opPc \in {"gate_job", "gate_sync"}
  /\ activeJob # NoJob => \E w \in Workspace : lease[w] = activeJob
  /\ syncActive => \E w \in Workspace : lease[w] = "sync"
  /\ opPc \in {"gate_job", "gate_sync"} => \E w \in Workspace : lease[w] = "caller"
  /\ \A u, w \in Workspace :
       lease[u] = lease[w] /\ lease[u] \notin {"free", "foreign"} => u = w

LEMMA LeaseInvInit == Init => LeaseInv
  BY JobManagerAssumption DEF JobManagerAssumption, Init, LeaseInv, LeaseHolders

LEMMA LeaseInvStep == TypeOK /\ SlotInv /\ LeaseInv /\ [Next]_vars => LeaseInv'
<1> SUFFICES ASSUME TypeOK, SlotInv, LeaseInv, [Next]_vars PROVE LeaseInv'
  OBVIOUS
<1> USE JobManagerAssumption
    DEF JobManagerAssumption, TypeOK, SlotInv, LeaseInv, Live, Status, Terminal,
        LeaseHolders, record, report, slot, threads, changes, host, world
<1>1. ASSUME NEW w \in Workspace, NEW gate \in {"gate_job", "gate_sync"}, AcquireSlot(gate, w)
      PROVE  LeaseInv'
  BY <1>1 DEF AcquireSlot, SlotAvailable, Unlocked
<1>2. ASSUME NEW w \in Workspace, RefusePending(w)
      PROVE  LeaseInv'
  BY <1>2 DEF RefusePending
<1>3. ASSUME NEW w \in Workspace, EnterSync(w)
      PROVE  LeaseInv'
  BY <1>3 DEF EnterSync, JournalClear
<1>4. ASSUME NEW w \in Workspace, LeaveSync(w)
      PROVE  LeaseInv'
  BY <1>4 DEF LeaveSync, Unlocked
<1>5. ASSUME NEW w \in Workspace, NEW j \in JobId, RegisterJob(j, w)
      PROVE  LeaseInv'
  BY <1>5 DEF RegisterJob, JournalClear
<1>6. ASSUME NEW w \in Workspace, NEW j \in JobId, SpawnFails(j, w)
      PROVE  LeaseInv'
  BY <1>6 DEF SpawnFails
<1>7. ASSUME NEW j \in JobId, SpawnWorker(j)
      PROVE  LeaseInv'
  BY <1>7 DEF SpawnWorker, Retained, Pruned, Prunable, IsTerminal
<1>8. ASSUME NEW j \in JobId, BeginJob(j)
      PROVE  LeaseInv'
  BY <1>8 DEF BeginJob
<1>9. ASSUME NEW j \in JobId, PollSteering(j)
      PROVE  LeaseInv'
  BY <1>9 DEF PollSteering, Running
<1>10. ASSUME NEW j \in JobId, FinalizeAnswer(j)
      PROVE  LeaseInv'
  BY <1>10 DEF FinalizeAnswer, Running
<1>11. ASSUME NEW j \in JobId, NEW raised \in Raisable, StopAgent(j, raised)
      PROVE  LeaseInv'
  BY <1>11 DEF StopAgent, Running, Leaving, Raisable
<1>12. ASSUME NEW w \in Workspace, NEW j \in JobId, NEW known \in BOOLEAN,
              MutateWorkspace(j, w, known)
      PROVE  LeaseInv'
  BY <1>12 DEF MutateWorkspace, Running
<1>13. ASSUME NEW w \in Workspace, NEW j \in JobId, FinishJob(j, w)
      PROVE  LeaseInv'
  BY <1>13 DEF FinishJob
<1>14. ASSUME NEW j \in JobId, SendMessage(j)
      PROVE  LeaseInv'
  BY <1>14 DEF SendMessage
<1>15. ASSUME NEW j \in JobId, CancelJob(j)
      PROVE  LeaseInv'
  BY <1>15 DEF CancelJob
<1>16. ASSUME NEW c \in Client, NEW j \in JobId, ClaimUsage(c, j)
      PROVE  LeaseInv'
  BY <1>16 DEF ClaimUsage, Claimable
<1>17. ASSUME NEW c \in Client, NEW written \in BOOLEAN, NEW persisted \in BOOLEAN,
              FinishUsage(c, written, persisted)
      PROVE  LeaseInv'
  BY <1>17 DEF FinishUsage
<1>18. ASSUME NEW w \in Workspace,
              ForeignAcquire(w) \/ ForeignRelease(w) \/ ForeignJournal(w) \/ SyncMutates(w)
      PROVE  LeaseInv'
  BY <1>18 DEF ForeignAcquire, ForeignRelease, ForeignJournal, SyncMutates
<1>19. CASE UNCHANGED vars
  BY <1>19 DEF vars
<1> QED
  BY <1>1, <1>2, <1>3, <1>4, <1>5, <1>6, <1>7, <1>8, <1>9, <1>10, <1>11, <1>12,
     <1>13, <1>14, <1>15, <1>16, <1>17, <1>18, <1>19
  DEF Next, Start, JobThread, Host, Environment

(* A lease is never leaked and no execution runs without its lease.         *)
THEOREM LeaseIsNeverLeaked == Spec => []LeaseMatchesExecution
<1>1. TypeOK /\ SlotInv /\ LeaseInv => LeaseMatchesExecution
  BY JobManagerAssumption DEF JobManagerAssumption, LeaseHolders, TypeOK, SlotInv, LeaseInv,
     LeaseMatchesExecution, Owns, Live
<1> QED
  BY <1>1, TypeCorrect, SlotInvInit, SlotInvStep, LeaseInvInit, LeaseInvStep, PTL DEF Spec


-----------------------------------------------------------------------------
(* The record fields of one job: cancellation, usage claim, mailbox, report. *)
UsageMatchesLog ==
  \A j \in JobId : logged[j] = doubtful[j] + (IF usage[j] = "recorded" THEN 1 ELSE 0)

AnsweredMailboxClosed ==
  \A j \in JobId : worker[j] = "answer" => queued[j] = 0 /\ ~accepting[j]

RecordInv ==
  /\ AcceptedCancelWins
  /\ ClaimIsBacked
  /\ UsageMatchesLog
  /\ AnsweredMailboxClosed
  /\ NoRunOverPendingRecords

LEMMA RecordInvInit == Init => RecordInv
  BY JobManagerAssumption
  DEF JobManagerAssumption, Init, RecordInv, AcceptedCancelWins, ClaimIsBacked, UsageMatchesLog,
      AnsweredMailboxClosed, NoRunOverPendingRecords, IsTerminal, Terminal, LeaseHolders

LEMMA RecordInvStep == TypeOK /\ SlotInv /\ LeaseInv /\ RecordInv /\ [Next]_vars => RecordInv'
<1> SUFFICES ASSUME TypeOK, SlotInv, LeaseInv, RecordInv, [Next]_vars PROVE RecordInv'
  OBVIOUS
<1> USE JobManagerAssumption
    DEF JobManagerAssumption, TypeOK, SlotInv, RecordInv, AcceptedCancelWins, ClaimIsBacked,
        UsageMatchesLog, AnsweredMailboxClosed, NoRunOverPendingRecords, IsTerminal, Live,
        Status, Terminal, LeaseHolders, record, report, slot, threads, changes, host, world
<1>1. ASSUME NEW w \in Workspace, NEW gate \in {"gate_job", "gate_sync"}, AcquireSlot(gate, w)
      PROVE  RecordInv'
  BY <1>1 DEF AcquireSlot, SlotAvailable, Unlocked
<1>2. ASSUME NEW w \in Workspace, RefusePending(w)
      PROVE  RecordInv'
  BY <1>2 DEF RefusePending
<1>3. ASSUME NEW w \in Workspace, EnterSync(w)
      PROVE  RecordInv'
  BY <1>3 DEF EnterSync, JournalClear
<1>4. ASSUME NEW w \in Workspace, LeaveSync(w)
      PROVE  RecordInv'
  BY <1>4 DEF LeaveSync, Unlocked
<1>5. ASSUME NEW w \in Workspace, NEW j \in JobId, RegisterJob(j, w)
      PROVE  RecordInv'
  BY <1>5 DEF RegisterJob, JournalClear
<1>6. ASSUME NEW w \in Workspace, NEW j \in JobId, SpawnFails(j, w)
      PROVE  RecordInv'
  BY <1>6 DEF SpawnFails
<1>7. ASSUME NEW j \in JobId, SpawnWorker(j)
      PROVE  RecordInv'
  BY <1>7 DEF SpawnWorker, Retained, Pruned, Prunable, IsTerminal
<1>8. ASSUME NEW j \in JobId, BeginJob(j)
      PROVE  RecordInv'
  BY <1>8 DEF BeginJob
<1>9. ASSUME NEW j \in JobId, PollSteering(j)
      PROVE  RecordInv'
  BY <1>9 DEF PollSteering, Running
<1>10. ASSUME NEW j \in JobId, FinalizeAnswer(j)
      PROVE  RecordInv'
  BY <1>10 DEF FinalizeAnswer, Running
<1>11. ASSUME NEW j \in JobId, NEW raised \in Raisable, StopAgent(j, raised)
      PROVE  RecordInv'
  BY <1>11 DEF StopAgent, Running, Leaving, Raisable
<1>12. ASSUME NEW w \in Workspace, NEW j \in JobId, NEW known \in BOOLEAN,
              MutateWorkspace(j, w, known)
      PROVE  RecordInv'
  BY <1>12 DEF MutateWorkspace, Running
<1>13. ASSUME NEW w \in Workspace, NEW j \in JobId, FinishJob(j, w)
      PROVE  RecordInv'
  <2>1. Committed(j)
    <3> HIDE DEF TypeOK
    <3> QED  BY <1>13, FinishCommits
  <2>4. AcceptedCancelWins'
    BY <2>1 DEF Committed, CancellationWon
  <2>2. ClaimIsBacked' /\ UsageMatchesLog'
    <3>1. status[j] # "completed"
      BY <1>13 DEF FinishJob, Exits, Raisable
    <3> QED  BY <1>13, <2>1, <3>1 DEF FinishJob, Committed
  <2>3. AnsweredMailboxClosed'
    BY <1>13 DEF FinishJob
  <2>5. NoRunOverPendingRecords'
    <3>1. \A u \in Workspace \ {w} : lease'[u] = lease[u] /\ lease[u] # j
      BY <1>13 DEF FinishJob, LeaseInv
    <3>2. lease'[w] \in {"free", "foreign"} /\ \A k \in JobId \ {j} : mutated'[k] = mutated[k]
      BY <1>13 DEF FinishJob
    <3>3. pending' = pending
      BY <1>13 DEF FinishJob
    <3> QED  BY <3>1, <3>2, <3>3
  <2> QED  BY <2>2, <2>3, <2>4, <2>5
<1>14. ASSUME NEW j \in JobId, SendMessage(j)
      PROVE  RecordInv'
  BY <1>14 DEF SendMessage
<1>15. ASSUME NEW j \in JobId, CancelJob(j)
      PROVE  RecordInv'
  BY <1>15 DEF CancelJob
<1>16. ASSUME NEW c \in Client, NEW j \in JobId, ClaimUsage(c, j)
      PROVE  RecordInv'
  BY <1>16 DEF ClaimUsage, Claimable
<1>17. ASSUME NEW c \in Client, NEW written \in BOOLEAN, NEW persisted \in BOOLEAN,
              FinishUsage(c, written, persisted)
      PROVE  RecordInv'
  BY <1>17 DEF FinishUsage, RecordUsage
<1>18. ASSUME NEW w \in Workspace,
              ForeignAcquire(w) \/ ForeignRelease(w) \/ ForeignJournal(w) \/ SyncMutates(w)
      PROVE  RecordInv'
  BY <1>18 DEF ForeignAcquire, ForeignRelease, ForeignJournal, SyncMutates
<1>19. CASE UNCHANGED vars
  BY <1>19 DEF vars
<1> HIDE DEF TypeOK, SlotInv, RecordInv, AcceptedCancelWins, ClaimIsBacked, UsageMatchesLog,
             AnsweredMailboxClosed, NoRunOverPendingRecords
<1> QED
  BY <1>1, <1>2, <1>3, <1>4, <1>5, <1>6, <1>7, <1>8, <1>9, <1>10, <1>11, <1>12,
     <1>13, <1>14, <1>15, <1>16, <1>17, <1>18, <1>19
  DEF Next, Start, JobThread, Host, Environment

LEMMA RecordsCorrect == Spec => [](TypeOK /\ SlotInv /\ RecordInv)
  BY TypeCorrect, SlotInvInit, SlotInvStep, LeaseInvInit, LeaseInvStep, RecordInvInit,
     RecordInvStep, PTL DEF Spec

(* No result or error is ever committed over a cancellation the host was     *)
(* told had been accepted.                                                   *)
THEOREM CancelWins == Spec => []AcceptedCancelWins
<1>1. RecordInv => AcceptedCancelWins
  BY DEF RecordInv
<1> QED  BY <1>1, RecordsCorrect, PTL

(* Claims survive pruning and are exclusive.                                *)
THEOREM ClaimsAreBacked == Spec => []ClaimIsBacked
<1>1. RecordInv => ClaimIsBacked
  BY DEF RecordInv
<1> QED  BY <1>1, RecordsCorrect, PTL

(* However many calls fetch one result, only an attempt that was answered as *)
(* failed and yet reached the log lets its usage line be written again.      *)
THEOREM UsageIsAccounted == Spec => []UsageLinesAccounted
<1>1. TypeOK /\ RecordInv => UsageLinesAccounted
  BY DEF TypeOK, RecordInv, UsageMatchesLog, UsageLinesAccounted
<1> QED  BY <1>1, RecordsCorrect, PTL

(* The journal gate: a job starts only over a reviewed workspace, and nobody *)
(* else can add a record while it runs.                                      *)
THEOREM RunsStartReviewed == Spec => []NoRunOverPendingRecords
<1>1. RecordInv => NoRunOverPendingRecords
  BY DEF RecordInv
<1> QED  BY <1>1, RecordsCorrect, PTL

-----------------------------------------------------------------------------
(* An error leaves run_agent bare only if the run has no record to name.     *)
Wrapped(j) ==
  /\ worker[j] \in {"AgentLoopError", "AgentLoopCancelled"} => recorded[j] = FALSE
  /\ worker[j] = "MutationOutcomeCancelled" => recorded[j] = TRUE

ReportInv == MutationsReported /\ \A j \in JobId : Wrapped(j)

(* A step that commits no outcome leaves what the host reads of a job alone.  *)
Uncommitted(k) ==
  /\ IsTerminal(k)' =>
       /\ status'[k] = status[k] /\ result'[k] = result[k] /\ error'[k] = error[k]
       /\ recorded'[k] = recorded[k]
  /\ Wrapped(k)'

LEMMA UncommittedKeeps ==
  ASSUME ReportInv, \A k \in JobId : Uncommitted(k)
  PROVE  ReportInv'
BY DEF ReportInv, MutationsReported, Readable, Uncommitted, IsTerminal

LEMMA OutcomeNamesRecords ==
  ASSUME TypeOK, NEW j \in JobId, Wrapped(j), worker[j] \in Exits
  PROVE  /\ (IF Outcome(j).status = "completed" THEN Outcome(j).result
             ELSE Outcome(j).error) = recorded[j]
         /\ CancelledError(Outcome(j)) = recorded[j]
<1>1. recorded[j] \in BOOLEAN
  BY DEF TypeOK
<1>2. CASE worker[j] = "answer"
  BY <1>1, <1>2, OutcomeFields DEF TypeOK, CancelledError
<1>3. CASE worker[j] \in {"AgentLoopError", "AgentLoopCancelled"}
  BY <1>1, <1>3, OutcomeFields DEF TypeOK, CancelledError, Wrapped
<1>4. CASE worker[j] \in {"MutationOutcomeError", "MutationOutcomeCancelled"}
  BY <1>1, <1>4, OutcomeFields DEF TypeOK, CancelledError, Wrapped
<1> QED  BY <1>2, <1>3, <1>4 DEF Exits, Raisable

LEMMA FinishReports ==
  ASSUME TypeOK, ReportInv, NEW j \in JobId, NEW w \in Workspace, FinishJob(j, w)
  PROVE  ReportInv'
<1> USE DEF TypeOK, ReportInv
<1>1. \A k \in JobId \ {j} : Uncommitted(k)
  <2>1. CASE CancellationWon(j)
    BY <2>1 DEF FinishJob, Uncommitted, Wrapped
  <2>2. CASE ~CancellationWon(j)
    BY <2>2 DEF FinishJob, Uncommitted, Wrapped
  <2> QED  BY <2>1, <2>2
<1>2. Readable(j)' = recorded'[j]
  <2>1. CASE CancellationWon(j)
    <3>1. status'[j] = "cancelled" /\ error'[j] = CancelledError(Outcome(j))
      BY <2>1 DEF FinishJob
    <3> QED  BY <3>1, OutcomeNamesRecords DEF Readable, FinishJob
  <2>2. CASE ~CancellationWon(j)
    <3>1. /\ status'[j] = Outcome(j).status
          /\ result'[j] = Outcome(j).result /\ error'[j] = Outcome(j).error
      BY <2>2 DEF FinishJob
    <3> QED  BY <3>1, OutcomeNamesRecords DEF Readable, FinishJob
  <2> QED  BY <2>1, <2>2
<1>3. Wrapped(j)'
  BY DEF FinishJob, Wrapped
<1>4. ASSUME NEW k \in JobId, IsTerminal(k)' PROVE Readable(k)' = recorded'[k]
  BY <1>1, <1>2, <1>4 DEF Uncommitted, MutationsReported, Readable, IsTerminal
<1> QED  BY <1>1, <1>3, <1>4 DEF MutationsReported, Uncommitted

LEMMA ReportInvStep == TypeOK /\ SlotInv /\ ReportInv /\ [Next]_vars => ReportInv'
<1> SUFFICES ASSUME TypeOK, SlotInv, ReportInv, [Next]_vars PROVE ReportInv'
  OBVIOUS
<1> DEFINE Untouched == \A k \in JobId : Uncommitted(k)
<1> USE DEF TypeOK, SlotInv, ReportInv, Uncommitted, Wrapped, IsTerminal, Live, Status, Terminal,
            record, report, slot, threads, changes, host, world
<1>1. ASSUME NEW w \in Workspace,
             \/ \E gate \in {"gate_job", "gate_sync"} : AcquireSlot(gate, w)
             \/ RefusePending(w) \/ EnterSync(w) \/ LeaveSync(w)
      PROVE  Untouched
  BY <1>1 DEF AcquireSlot, RefusePending, EnterSync, LeaveSync
<1>2. ASSUME NEW w \in Workspace, NEW j \in JobId, RegisterJob(j, w) \/ SpawnFails(j, w)
      PROVE  Untouched
  BY <1>2 DEF RegisterJob, SpawnFails
<1>3. ASSUME NEW j \in JobId, SpawnWorker(j) PROVE Untouched
  BY <1>3 DEF SpawnWorker, Retained, Pruned, Prunable
<1>4. ASSUME NEW j \in JobId, BeginJob(j) \/ PollSteering(j) \/ FinalizeAnswer(j)
      PROVE  Untouched
  BY <1>4 DEF BeginJob, PollSteering, FinalizeAnswer
<1>5. ASSUME NEW j \in JobId, NEW raised \in Raisable, StopAgent(j, raised)
      PROVE  Untouched
  BY <1>5 DEF StopAgent, Leaving, Raisable
<1>6. ASSUME NEW w \in Workspace, NEW j \in JobId, NEW known \in BOOLEAN,
             MutateWorkspace(j, w, known)
      PROVE  Untouched
  BY <1>6 DEF MutateWorkspace, Running
<1>7. ASSUME Host PROVE Untouched
  BY <1>7 DEF Host, SendMessage, CancelJob, ClaimUsage, FinishUsage
<1>8. ASSUME Environment PROVE Untouched
  BY <1>8 DEF Environment, ForeignAcquire, ForeignRelease, ForeignJournal, SyncMutates
<1>9. ASSUME UNCHANGED vars PROVE Untouched
  BY <1>9 DEF vars
<1> HIDE DEF TypeOK, SlotInv, ReportInv, Uncommitted
<1>10. Untouched => ReportInv'
  BY UncommittedKeeps
<1> HIDE DEF Untouched
<1> QED
  BY <1>1, <1>2, <1>3, <1>4, <1>5, <1>6, <1>7, <1>8, <1>9, <1>10, FinishReports
  DEF Next, Start, JobThread

(* Through every except clause, and a cancellation accepted after the answer, *)
(* the host reads of the mutations run_agent knew of.                         *)
THEOREM MutationsAreReported == Spec => []MutationsReported
<1>1. Init => ReportInv
  BY DEF Init, ReportInv, MutationsReported, Wrapped, IsTerminal, Terminal
<1>2. ReportInv => MutationsReported
  BY DEF ReportInv
<1> QED  BY <1>1, <1>2, ReportInvStep, RecordsCorrect, PTL DEF Spec


(* What a step that commits an answer leaves in the job's mailbox: nothing.  *)
MailboxSpent ==
  \A j \in JobId : status[j] = "running" /\ status'[j] = "completed" => queued[j] = 0

(* A message the host was told is queued has been drained by the agent when  *)
(* the job's answer is committed: the mailbox closes in the same step that   *)
(* observes it empty, and stays closed.                                      *)
THEOREM AnswerDiscardsNoSteering == Spec => NoSteeringDiscardedByAnswer
<1>1. TypeOK /\ SlotInv /\ RecordInv /\ [Next]_vars => MailboxSpent
  <2> SUFFICES ASSUME TypeOK, SlotInv, RecordInv, [Next]_vars PROVE MailboxSpent
    OBVIOUS
  <2> USE JobManagerAssumption
      DEF JobManagerAssumption, TypeOK, SlotInv, RecordInv, AnsweredMailboxClosed, IsTerminal,
          Live, Status, Terminal, record, report, slot, threads, changes, host, world
  <2>1. ASSUME NEW w \in Workspace, NEW gate \in {"gate_job", "gate_sync"}, AcquireSlot(gate, w)
        PROVE  MailboxSpent
    BY <2>1 DEF MailboxSpent, AcquireSlot, SlotAvailable, Unlocked
  <2>2. ASSUME NEW w \in Workspace, RefusePending(w)
        PROVE  MailboxSpent
    BY <2>2 DEF MailboxSpent, RefusePending
  <2>3. ASSUME NEW w \in Workspace, EnterSync(w)
        PROVE  MailboxSpent
    BY <2>3 DEF MailboxSpent, EnterSync, JournalClear
  <2>4. ASSUME NEW w \in Workspace, LeaveSync(w)
        PROVE  MailboxSpent
    BY <2>4 DEF MailboxSpent, LeaveSync, Unlocked
  <2>5. ASSUME NEW w \in Workspace, NEW j \in JobId, RegisterJob(j, w)
        PROVE  MailboxSpent
    BY <2>5 DEF MailboxSpent, RegisterJob, JournalClear
  <2>6. ASSUME NEW w \in Workspace, NEW j \in JobId, SpawnFails(j, w)
        PROVE  MailboxSpent
    BY <2>6 DEF MailboxSpent, SpawnFails
  <2>7. ASSUME NEW j \in JobId, SpawnWorker(j)
        PROVE  MailboxSpent
    BY <2>7 DEF MailboxSpent, SpawnWorker, Retained, Pruned, Prunable, IsTerminal
  <2>8. ASSUME NEW j \in JobId, BeginJob(j)
        PROVE  MailboxSpent
    BY <2>8 DEF MailboxSpent, BeginJob
  <2>9. ASSUME NEW j \in JobId, PollSteering(j)
        PROVE  MailboxSpent
    BY <2>9 DEF MailboxSpent, PollSteering, Running
  <2>10. ASSUME NEW j \in JobId, FinalizeAnswer(j)
        PROVE  MailboxSpent
    BY <2>10 DEF MailboxSpent, FinalizeAnswer, Running
  <2>11. ASSUME NEW j \in JobId, NEW raised \in Raisable, StopAgent(j, raised)
        PROVE  MailboxSpent
    BY <2>11 DEF MailboxSpent, StopAgent, Running, Leaving, Raisable
  <2>12. ASSUME NEW w \in Workspace, NEW j \in JobId, NEW known \in BOOLEAN,
              MutateWorkspace(j, w, known)
        PROVE  MailboxSpent
    BY <2>12 DEF MailboxSpent, MutateWorkspace, Running
  <2>13. ASSUME NEW w \in Workspace, NEW j \in JobId, FinishJob(j, w)
        PROVE  MailboxSpent
    <3>1. Outcome(j).status = "completed" => worker[j] = "answer"
      BY OutcomeFields
    <3>2. \A k \in JobId : status'[k] # status[k] /\ status'[k] = "completed"
            => k = j /\ worker[j] = "answer"
      <4>1. Committed(j)
        <5> HIDE DEF TypeOK
        <5> QED  BY <2>13, FinishCommits
      <4> QED  BY <3>1, <4>1 DEF Committed
    <3> QED  BY <2>13, <3>2 DEF MailboxSpent, FinishJob
  <2>14. ASSUME NEW j \in JobId, SendMessage(j)
        PROVE  MailboxSpent
    BY <2>14 DEF MailboxSpent, SendMessage
  <2>15. ASSUME NEW j \in JobId, CancelJob(j)
        PROVE  MailboxSpent
    BY <2>15 DEF MailboxSpent, CancelJob
  <2>16. ASSUME NEW c \in Client, NEW j \in JobId, ClaimUsage(c, j)
        PROVE  MailboxSpent
    BY <2>16 DEF MailboxSpent, ClaimUsage, Claimable
  <2>17. ASSUME NEW c \in Client, NEW written \in BOOLEAN, NEW persisted \in BOOLEAN,
              FinishUsage(c, written, persisted)
        PROVE  MailboxSpent
    BY <2>17 DEF MailboxSpent, FinishUsage
  <2>18. ASSUME NEW w \in Workspace,
              ForeignAcquire(w) \/ ForeignRelease(w) \/ ForeignJournal(w) \/ SyncMutates(w)
        PROVE  MailboxSpent
    BY <2>18 DEF MailboxSpent, ForeignAcquire, ForeignRelease, ForeignJournal, SyncMutates
  <2>19. CASE UNCHANGED vars
    BY <2>19 DEF MailboxSpent, vars, record
  <2> QED
    BY <2>1, <2>2, <2>3, <2>4, <2>5, <2>6, <2>7, <2>8, <2>9, <2>10, <2>11, <2>12,
       <2>13, <2>14, <2>15, <2>16, <2>17, <2>18, <2>19
    DEF Next, Start, JobThread, Host, Environment
<1> QED
  BY <1>1, RecordsCorrect, PTL DEF Spec, NoSteeringDiscardedByAnswer, MailboxSpent

-----------------------------------------------------------------------------
(* Every set of numbers has a least element.                                 *)
LEMMA LeastNumber ==
  ASSUME NEW T \in SUBSET Nat, T # {}
  PROVE  \E x \in T : \A y \in T : x <= y
<1>1. IsWellFoundedOn(OpToRel(<, Nat), Nat)
  BY NatLessThanWellFounded, Zenon
<1>2. PICK x \in T : \A y \in T : ~(<<y, x>> \in OpToRel(<, Nat))
  BY <1>1, WFMin, Zenon
<1>3. ASSUME NEW y \in T PROVE ~(y < x)
  BY <1>2, Zenon DEF OpToRel
<1> QED  BY <1>3

(* Jobs finish one after the other, each at a moment of its own.             *)
FinishInv ==
  /\ \A j \in JobId : IsTerminal(j) => finishedAt[j] \in 1 .. clock
  /\ \A j, k \in JobId :
       IsTerminal(j) /\ IsTerminal(k) /\ finishedAt[j] = finishedAt[k] => j = k

LEMMA FinishInvInit == Init => FinishInv
  BY DEF Init, FinishInv, IsTerminal, Terminal

(* The steps after which a job is terminal that was not, or the other way    *)
(* round.                                                                    *)
LEMMA TerminalSteps ==
  ASSUME TypeOK, SlotInv, [Next]_vars
  PROVE  \/ \A j \in JobId : IsTerminal(j)' = IsTerminal(j) /\ UNCHANGED <<finishedAt, clock>>
         \/ \E j \in JobId : SpawnWorker(j)
         \/ \E j \in JobId, w \in Workspace : FinishJob(j, w)
<1> DEFINE Kept == \A j \in JobId :
             IsTerminal(j)' = IsTerminal(j) /\ UNCHANGED <<finishedAt, clock>>
<1> SUFFICES ASSUME ~\E j \in JobId : SpawnWorker(j),
                    ~\E j \in JobId, w \in Workspace : FinishJob(j, w)
             PROVE  Kept
  OBVIOUS
<1> USE DEF TypeOK, SlotInv, IsTerminal, Live, Status, Terminal, record, report, slot, threads,
            changes, host, world
<1>1. ASSUME NEW w \in Workspace, NEW gate \in {"gate_job", "gate_sync"}, AcquireSlot(gate, w)
      PROVE  Kept
  BY <1>1 DEF AcquireSlot
<1>2. ASSUME NEW w \in Workspace, RefusePending(w) \/ EnterSync(w) \/ LeaveSync(w) PROVE Kept
  BY <1>2 DEF RefusePending, EnterSync, LeaveSync
<1>3. ASSUME NEW w \in Workspace, NEW j \in JobId, RegisterJob(j, w) PROVE Kept
  BY <1>3 DEF RegisterJob
<1>4. ASSUME NEW w \in Workspace, NEW j \in JobId, SpawnFails(j, w) PROVE Kept
  BY <1>4 DEF SpawnFails
<1>5. ASSUME NEW j \in JobId, BeginJob(j) \/ PollSteering(j) \/ FinalizeAnswer(j) PROVE Kept
  BY <1>5 DEF BeginJob, PollSteering, FinalizeAnswer
<1>6. ASSUME NEW j \in JobId, NEW raised \in Raisable, StopAgent(j, raised)
      PROVE  Kept
  BY <1>6 DEF StopAgent
<1>7. ASSUME NEW w \in Workspace, NEW j \in JobId, NEW known \in BOOLEAN,
              MutateWorkspace(j, w, known) PROVE Kept
  BY <1>7 DEF MutateWorkspace
<1>8. CASE Host
  BY <1>8 DEF Host, SendMessage, CancelJob, ClaimUsage, FinishUsage
<1>9. CASE Environment
  BY <1>9 DEF Environment, ForeignAcquire, ForeignRelease, ForeignJournal, SyncMutates
<1>10. CASE UNCHANGED vars
  BY <1>10 DEF vars
<1> QED
  BY <1>1, <1>2, <1>3, <1>4, <1>5, <1>6, <1>7, <1>8, <1>9, <1>10 DEF Next, Start, JobThread

LEMMA FinishInvStep == TypeOK /\ SlotInv /\ FinishInv /\ [Next]_vars => FinishInv'
<1> SUFFICES ASSUME TypeOK, SlotInv, FinishInv, [Next]_vars PROVE FinishInv'
  OBVIOUS
<1> USE DEF FinishInv, IsTerminal
<1>1. CASE \A j \in JobId : IsTerminal(j)' = IsTerminal(j) /\ UNCHANGED <<finishedAt, clock>>
  BY <1>1
<1>2. ASSUME NEW j \in JobId, SpawnWorker(j) PROVE FinishInv'
  BY <1>2 DEF SpawnWorker, Retained, TypeOK, Terminal
<1>3. ASSUME NEW j \in JobId, NEW w \in Workspace, FinishJob(j, w) PROVE FinishInv'
  <2>1. ~IsTerminal(j)
    BY <1>3 DEF FinishJob, SlotInv, Live, Terminal, Exits, Raisable
  <2>2. /\ clock \in Nat /\ clock' = clock + 1
        /\ finishedAt' = [finishedAt EXCEPT ![j] = clock + 1]
        /\ \A k \in JobId \ {j} : status'[k] = status[k]
        /\ finishedAt \in [JobId -> Nat]
    <3>1. Committed(j)
      BY <1>3, FinishCommits
    <3> QED  BY <1>3, <3>1 DEF FinishJob, TypeOK, Committed
  <2>3. /\ finishedAt'[j] = clock + 1
        /\ \A k \in JobId \ {j} : finishedAt'[k] = finishedAt[k]
    BY <2>2
  <2>4. ASSUME NEW k \in JobId, IsTerminal(k)' PROVE finishedAt'[k] \in 1 .. clock'
    BY <2>2, <2>3, <2>4
  <2>5. ASSUME NEW k \in JobId, NEW l \in JobId, IsTerminal(k)', IsTerminal(l)',
               finishedAt'[k] = finishedAt'[l]
        PROVE  k = l
    <3>1. \A i \in JobId \ {j} : IsTerminal(i)' => finishedAt'[i] \in 1 .. clock
      BY <2>2, <2>3
    <3> QED  BY <2>2, <2>3, <2>5, <3>1
  <2> QED  BY <2>4, <2>5
<1> QED  BY <1>1, <1>2, <1>3, TerminalSteps

(* There are never more terminal jobs than moments at which one finished.    *)
LEMMA TerminalsFinite ==
  ASSUME TypeOK, FinishInv
  PROVE  IsFiniteSet({j \in JobId : IsTerminal(j)})
<1> DEFINE T == {j \in JobId : IsTerminal(j)}
           f == [j \in T |-> finishedAt[j]]
<1>1. clock \in Nat /\ IsFiniteSet(1 .. clock)
  BY FS_Interval DEF TypeOK
<1>2. f \in Injection(T, 1 .. clock)
  BY DEF FinishInv, Injection, IsInjective
<1> QED  BY <1>1, <1>2, FS_Injection

(* Whatever is pruned, the MaxRetained - 1 jobs that are younger than the     *)
(* youngest pruned one stay.                                                 *)
LEMMA PruningKeeps ==
  ASSUME TypeOK, FinishInv, NEW j \in Pruned
  PROVE  Cardinality({k \in JobId : IsTerminal(k) /\ k \notin Pruned
                                     /\ finishedAt[k] > finishedAt[j]}) >= MaxRetained - 1
<1> DEFINE Ages == {clock - finishedAt[k] : k \in Pruned}
           Kept == {k \in JobId : IsTerminal(k) /\ k \notin Pruned
                                  /\ finishedAt[k] > finishedAt[j]}
<1>1. /\ clock \in Nat /\ Pruned \subseteq JobId
      /\ \A k \in JobId : finishedAt[k] \in Nat
      /\ \A k \in Pruned : IsTerminal(k) /\ finishedAt[k] \in 1 .. clock
  BY DEF TypeOK, FinishInv, Pruned, Prunable
<1>2. PICK a \in Ages : \A b \in Ages : a <= b
  <2>1. Ages \in SUBSET Nat /\ Ages # {}
    BY <1>1
  <2> QED  BY <2>1, LeastNumber
<1>3. PICK p \in Pruned : a = clock - finishedAt[p]
  BY <1>2
<1>4. \A k \in Pruned : finishedAt[k] <= finishedAt[p]
  BY <1>1, <1>2, <1>3
<1> DEFINE Younger == {k \in Prunable : finishedAt[k] > finishedAt[p]}
<1>5. Cardinality(Younger) >= MaxRetained - 1
  BY DEF Pruned
<1>6. Younger \subseteq Kept
  BY <1>1, <1>4 DEF Prunable
<1>7. IsFiniteSet(Kept)
  <2>1. Kept \subseteq {k \in JobId : IsTerminal(k)}
    OBVIOUS
  <2> QED  BY <2>1, TerminalsFinite, FS_Subset
<1>8. Cardinality(Younger) <= Cardinality(Kept) /\ Cardinality(Kept) \in Nat
      /\ Cardinality(Younger) \in Nat
  BY <1>6, <1>7, FS_Subset, FS_CardinalityType
<1>9. MaxRetained - 1 \in Nat
  BY JobManagerAssumption DEF JobManagerAssumption
<1> QED  BY <1>5, <1>8, <1>9

(* A result goes only when a start succeeds, and leaves MaxRetained - 1       *)
(* younger ones behind.                                                      *)
PrunedInOrder ==
  \A j \in JobId : IsTerminal(j) /\ status'[j] = "absent" =>
    /\ worker' # worker
    /\ Cardinality({k \in JobId : IsTerminal(k)' /\ finishedAt[k] > finishedAt[j]})
         >= MaxRetained - 1

(* Pruning drops the oldest results, for every limit and any number of jobs.  *)
THEOREM NewestAreRetained == Spec => PruneKeepsNewest
<1>1. TypeOK /\ SlotInv /\ FinishInv /\ [Next]_vars => PrunedInOrder
  <2> SUFFICES ASSUME TypeOK, SlotInv, FinishInv, [Next]_vars,
                      NEW j \in JobId, IsTerminal(j), status'[j] = "absent"
               PROVE  /\ worker' # worker
                      /\ Cardinality({k \in JobId : IsTerminal(k)'
                                        /\ finishedAt[k] > finishedAt[j]}) >= MaxRetained - 1
    BY DEF PrunedInOrder
  <2>1. ~IsTerminal(j)'
    BY DEF IsTerminal, Terminal
  <2>2. ASSUME NEW l \in JobId, NEW w \in Workspace, FinishJob(l, w) PROVE FALSE
    <3>1. ~IsTerminal(l) /\ j # l
      BY <2>2 DEF FinishJob, SlotInv, Live, IsTerminal, Terminal, Exits, Raisable
    <3>2. status'[j] = status[j]
      <4>1. Committed(l)
        BY <2>2, FinishCommits
      <4> QED  BY <3>1, <4>1 DEF Committed
    <3> QED  BY <3>2, <2>1 DEF IsTerminal
  <2>3. PICK l \in JobId : SpawnWorker(l)
    BY <2>1, <2>2, TerminalSteps
  <2>4. worker' # worker
    <3>1. worker[l] = "none"
      BY <2>3 DEF SpawnWorker, SlotInv, Live
    <3> QED  BY <2>3, <3>1 DEF SpawnWorker, TypeOK
  <2>5. j \in Pruned
    BY <2>3 DEF SpawnWorker, Retained, IsTerminal, Terminal
  <2>6. \A k \in JobId : IsTerminal(k)' <=> IsTerminal(k) /\ k \notin Pruned
    BY <2>3 DEF SpawnWorker, Retained, IsTerminal, Terminal
  <2>7. {k \in JobId : IsTerminal(k)' /\ finishedAt[k] > finishedAt[j]}
          = {k \in JobId : IsTerminal(k) /\ k \notin Pruned /\ finishedAt[k] > finishedAt[j]}
    BY <2>6
  <2> QED  BY <2>4, <2>5, <2>7, PruningKeeps
<1> QED
  BY <1>1, TypeCorrect, SlotInvInit, SlotInvStep, FinishInvInit, FinishInvStep, PTL
  DEF Spec, PruneKeepsNewest, PrunedInOrder

=============================================================================
