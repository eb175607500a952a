------------------------ MODULE MutationJournal_proofs ------------------------
(***************************************************************************)
(* Proofs about MutationJournal for every set of transactions and every      *)
(* journal capacity.                                                        *)
(***************************************************************************)
EXTENDS MutationJournal, TLAPS

(* What the stage of a transaction says about its traces.                    *)
StageInv ==
  \A t \in Tx :
    /\ child[t] \in {"unused", "working"} => t \notin journal /\ t \notin acked
    /\ child[t] \in {"unused", "working", "recorded", "durable"} => t \notin ready
    /\ child[t] \in {"unused", "working", "recorded", "durable", "ready"} => t \notin effective
    /\ child[t] = "recorded" => t \in journal
    /\ child[t] = "ready" => t \in ready
    /\ child[t] \in {"durable", "ready", "published", "succeeded"} => t \in durable
    /\ child[t] = "published" => t \in effective /\ t \notin warned
    /\ child[t] # "dead" => result[t] = "none"
    /\ Alive(t) => t \notin acked
    /\ t \in effective => t \in ready /\ (t \in acked \/ t \in durable)
    /\ t \in warned => t \in effective

(* At most one tool child is alive, and whoever has the lease without it     *)
(* knows that there is none.                                                 *)
AloneInv ==
  /\ \A t, u \in Tx : Alive(t) /\ Alive(u) => t = u
  /\ parent \in {"gate", "running"} => \A t \in Tx : ~Alive(t)
  /\ parent \in {"calling", "stopping"} =>
       current \in called /\ \A t \in Tx : Alive(t) => t = current
  /\ current # NoTx => parent \in {"calling", "stopping"}
  /\ parent \in {"running", "calling", "stopping"} => journal \subseteq called

(* The content of the target belongs to a publication that stands.           *)
TargetInv ==
  /\ target # User => target \in effective
  /\ \A t \in Tx : child[t] = "published" =>
       before[t] # t /\ (before[t] # User => before[t] \in effective)
  /\ \A t \in Tx : records[t] = "committed" => t \in effective /\ child[t] = "dead"

(* What the run knows of the mutations it has made.                          *)
RunInv ==
  /\ \A t \in called : child[t] # "unused"
  /\ parent \in {"running", "calling", "stopping"} =>
       \A t \in called \ {current} : t \in effective \cup warned =>
         records[t] = "committed" /\ t \notin warned
  /\ parent = "ending" =>
       \A t \in called : t \in effective \/ Alive(t) => records[t] # "none" \/ t \in blind

-----------------------------------------------------------------------------
(* Every variable keeps its type.                                           *)
LEMMA TypeStep == TypeOK /\ StageInv /\ AloneInv /\ [Next]_vars => TypeOK'
<1> USE JournalAssumption DEF JournalAssumption, TypeOK, StageInv, AloneInv, ParentStates, ChildStates,
        server, pipe, file, store
<1> SUFFICES ASSUME TypeOK, StageInv, AloneInv, [Next]_vars PROVE TypeOK'
  OBVIOUS
<1>1. CASE ParentStep
  <2>1. CASE AcquireLease  BY <2>1 DEF AcquireLease, LeaseFree
  <2>2. CASE PassGate  BY <2>2 DEF PassGate, NothingPending
  <2>3. CASE Refuse  BY <2>3 DEF Refuse
  <2>4. CASE InterruptCall  BY <2>4 DEF InterruptCall
  <2>5. ASSUME NEW readable \in BOOLEAN, FinishInterruptedCall(readable) PROVE TypeOK'
    BY <2>5 DEF FinishInterruptedCall, Settle, MutationState
  <2>6. CASE LoseOutput  BY <2>6 DEF LoseOutput, Settle
  <2>7. CASE EndRun  BY <2>7 DEF EndRun
  <2>8. CASE CrashServer  BY <2>8 DEF CrashServer
  <2>9. CASE RestartServer  BY <2>9 DEF RestartServer
  <2>10. ASSUME NEW t \in Tx, StartCall(t) PROVE TypeOK'
    BY <2>10 DEF StartCall
  <2>11. ASSUME NEW clean \in BOOLEAN, NEW readable \in BOOLEAN,
                CompleteCall(clean, readable)
         PROVE  TypeOK'
    BY <2>11 DEF CompleteCall, Settle, MutationState
  <2> QED  BY <1>1, <2>1, <2>2, <2>3, <2>4, <2>5,
              <2>6, <2>7, <2>8, <2>9, <2>10, <2>11 DEF ParentStep
<1>2. ASSUME NEW t \in Tx, ChildStep(t) PROVE TypeOK'
  <2>1. CASE RecordIntent(t)  BY <2>1 DEF RecordIntent, Move
  <2>2. CASE SyncIntent(t)  BY <2>2 DEF SyncIntent, Move
  <2>3. CASE AnnounceIntent(t)  BY <2>3 DEF AnnounceIntent, Move
  <2>4. CASE Publish(t)  BY <2>4 DEF Publish, Move, MayPublish
  <2>5. CASE Restore(t)  BY <2>5 DEF Restore, Move
  <2>6. CASE Warn(t)  BY <2>6 DEF Warn, Move
  <2>7. CASE Succeed(t)  BY <2>7 DEF Succeed, Move
  <2>8. CASE FailCall(t)  BY <2>8 DEF FailCall, Move
  <2>9. CASE ExitWithResult(t)  BY <2>9 DEF ExitWithResult
  <2>10. CASE Die(t)  BY <2>10 DEF Die
  <2> QED  BY <1>2, <2>1, <2>2, <2>3, <2>4, <2>5,
              <2>6, <2>7, <2>8, <2>9, <2>10 DEF ChildStep
<1>3. CASE World
  <2>1. CASE PowerLoss  BY <2>1 DEF PowerLoss
  <2>2. CASE UserEdits  BY <2>2 DEF UserEdits
  <2>3. ASSUME NEW ids \in SUBSET Tx, Acknowledge(ids) PROVE TypeOK'
    BY <2>3 DEF Acknowledge, LeaseFree
  <2> QED  BY <1>3, <2>1, <2>2, <2>3 DEF World
<1>4. CASE UNCHANGED vars  BY <1>4 DEF vars
<1> QED  BY <1>1, <1>2, <1>3, <1>4 DEF Next

(* The stage of a child, its journal record, its lines and its publication   *)
(* stay consistent.                                                          *)
LEMMA StageStep == TypeOK /\ AloneInv /\ StageInv /\ [Next]_vars => StageInv'
<1> USE JournalAssumption DEF JournalAssumption, TypeOK, AloneInv, StageInv, Alive, ChildStates,
        server, pipe, file, store
<1> SUFFICES ASSUME TypeOK, AloneInv, StageInv, [Next]_vars PROVE StageInv'
  OBVIOUS
<1>1. CASE ParentStep
  <2>1. CASE AcquireLease  BY <2>1 DEF AcquireLease, LeaseFree
  <2>2. CASE PassGate  BY <2>2 DEF PassGate, NothingPending
  <2>3. CASE Refuse  BY <2>3 DEF Refuse
  <2>4. CASE InterruptCall  BY <2>4 DEF InterruptCall
  <2>5. ASSUME NEW readable \in BOOLEAN, FinishInterruptedCall(readable) PROVE StageInv'
    BY <2>5 DEF FinishInterruptedCall, Settle, MutationState
  <2>6. CASE LoseOutput  BY <2>6 DEF LoseOutput, Settle
  <2>7. CASE EndRun  BY <2>7 DEF EndRun
  <2>8. CASE CrashServer  BY <2>8 DEF CrashServer
  <2>9. CASE RestartServer  BY <2>9 DEF RestartServer
  <2>10. ASSUME NEW t \in Tx, StartCall(t) PROVE StageInv'
    BY <2>10 DEF StartCall
  <2>11. ASSUME NEW clean \in BOOLEAN, NEW readable \in BOOLEAN,
                CompleteCall(clean, readable)
         PROVE  StageInv'
    BY <2>11 DEF CompleteCall, Settle, MutationState
  <2> QED  BY <1>1, <2>1, <2>2, <2>3, <2>4, <2>5,
              <2>6, <2>7, <2>8, <2>9, <2>10, <2>11 DEF ParentStep
<1>2. ASSUME NEW t \in Tx, ChildStep(t) PROVE StageInv'
  <2>1. CASE RecordIntent(t)  BY <2>1 DEF RecordIntent, Move
  <2>2. CASE SyncIntent(t)  BY <2>2 DEF SyncIntent, Move
  <2>3. CASE AnnounceIntent(t)  BY <2>3 DEF AnnounceIntent, Move
  <2>4. CASE Publish(t)  BY <2>4 DEF Publish, Move, MayPublish
  <2>5. CASE Restore(t)  BY <2>5 DEF Restore, Move
  <2>6. CASE Warn(t)  BY <2>6 DEF Warn, Move
  <2>7. CASE Succeed(t)  BY <2>7 DEF Succeed, Move
  <2>8. CASE FailCall(t)  BY <2>8 DEF FailCall, Move
  <2>9. CASE ExitWithResult(t)  BY <2>9 DEF ExitWithResult
  <2>10. CASE Die(t)  BY <2>10 DEF Die
  <2> QED  BY <1>2, <2>1, <2>2, <2>3, <2>4, <2>5,
              <2>6, <2>7, <2>8, <2>9, <2>10 DEF ChildStep
<1>3. CASE World
  <2>1. CASE PowerLoss  BY <2>1 DEF PowerLoss
  <2>2. CASE UserEdits  BY <2>2 DEF UserEdits
  <2>3. ASSUME NEW ids \in SUBSET Tx, Acknowledge(ids) PROVE StageInv'
    BY <2>3 DEF Acknowledge, LeaseFree
  <2> QED  BY <1>3, <2>1, <2>2, <2>3 DEF World
<1>4. CASE UNCHANGED vars  BY <1>4 DEF vars
<1> QED  BY <1>1, <1>2, <1>3, <1>4 DEF Next

(* The lease keeps tool children apart.                                      *)
LEMMA AloneStep == TypeOK /\ StageInv /\ AloneInv /\ [Next]_vars => AloneInv'
<1> USE JournalAssumption DEF JournalAssumption, TypeOK, StageInv, AloneInv, Alive, ParentStates, ChildStates,
        server, pipe, file, store
<1> SUFFICES ASSUME TypeOK, StageInv, AloneInv, [Next]_vars PROVE AloneInv'
  OBVIOUS
<1>1. CASE ParentStep
  <2>1. CASE AcquireLease  BY <2>1 DEF AcquireLease, LeaseFree
  <2>2. CASE PassGate  BY <2>2 DEF PassGate, NothingPending
  <2>3. CASE Refuse  BY <2>3 DEF Refuse
  <2>4. CASE InterruptCall  BY <2>4 DEF InterruptCall
  <2>5. ASSUME NEW readable \in BOOLEAN, FinishInterruptedCall(readable) PROVE AloneInv'
    BY <2>5 DEF FinishInterruptedCall, Settle, MutationState
  <2>6. CASE LoseOutput  BY <2>6 DEF LoseOutput, Settle
  <2>7. CASE EndRun  BY <2>7 DEF EndRun
  <2>8. CASE CrashServer  BY <2>8 DEF CrashServer
  <2>9. CASE RestartServer  BY <2>9 DEF RestartServer
  <2>10. ASSUME NEW t \in Tx, StartCall(t) PROVE AloneInv'
    BY <2>10 DEF StartCall
  <2>11. ASSUME NEW clean \in BOOLEAN, NEW readable \in BOOLEAN,
                CompleteCall(clean, readable)
         PROVE  AloneInv'
    BY <2>11 DEF CompleteCall, Settle, MutationState
  <2> QED  BY <1>1, <2>1, <2>2, <2>3, <2>4, <2>5,
              <2>6, <2>7, <2>8, <2>9, <2>10, <2>11 DEF ParentStep
<1>2. ASSUME NEW t \in Tx, ChildStep(t) PROVE AloneInv'
  <2>1. CASE RecordIntent(t)  BY <2>1 DEF RecordIntent, Move
  <2>2. CASE SyncIntent(t)  BY <2>2 DEF SyncIntent, Move
  <2>3. CASE AnnounceIntent(t)  BY <2>3 DEF AnnounceIntent, Move
  <2>4. CASE Publish(t)  BY <2>4 DEF Publish, Move, MayPublish
  <2>5. CASE Restore(t)  BY <2>5 DEF Restore, Move
  <2>6. CASE Warn(t)  BY <2>6 DEF Warn, Move
  <2>7. CASE Succeed(t)  BY <2>7 DEF Succeed, Move
  <2>8. CASE FailCall(t)  BY <2>8 DEF FailCall, Move
  <2>9. CASE ExitWithResult(t)  BY <2>9 DEF ExitWithResult
  <2>10. CASE Die(t)  BY <2>10 DEF Die
  <2> QED  BY <1>2, <2>1, <2>2, <2>3, <2>4, <2>5,
              <2>6, <2>7, <2>8, <2>9, <2>10 DEF ChildStep
<1>3. CASE World
  <2>1. CASE PowerLoss  BY <2>1 DEF PowerLoss
  <2>2. CASE UserEdits  BY <2>2 DEF UserEdits
  <2>3. ASSUME NEW ids \in SUBSET Tx, Acknowledge(ids) PROVE AloneInv'
    BY <2>3 DEF Acknowledge, LeaseFree
  <2> QED  BY <1>3, <2>1, <2>2, <2>3 DEF World
<1>4. CASE UNCHANGED vars  BY <1>4 DEF vars
<1> QED  BY <1>1, <1>2, <1>3, <1>4 DEF Next

(* Restoring a displaced file never brings back one that was taken back.     *)
LEMMA TargetStep == TypeOK /\ StageInv /\ AloneInv /\ TargetInv /\ [Next]_vars => TargetInv'
<1> USE JournalAssumption DEF JournalAssumption, TypeOK, StageInv, AloneInv, TargetInv, Alive, ChildStates,
        server, pipe, file, store
<1> SUFFICES ASSUME TypeOK, StageInv, AloneInv, TargetInv, [Next]_vars PROVE TargetInv'
  OBVIOUS
<1>1. CASE ParentStep
  <2>1. CASE AcquireLease  BY <2>1 DEF AcquireLease, LeaseFree
  <2>2. CASE PassGate  BY <2>2 DEF PassGate, NothingPending
  <2>3. CASE Refuse  BY <2>3 DEF Refuse
  <2>4. CASE InterruptCall  BY <2>4 DEF InterruptCall
  <2>5. ASSUME NEW readable \in BOOLEAN, FinishInterruptedCall(readable) PROVE TargetInv'
    BY <2>5 DEF FinishInterruptedCall, Settle, MutationState
  <2>6. CASE LoseOutput  BY <2>6 DEF LoseOutput, Settle
  <2>7. CASE EndRun  BY <2>7 DEF EndRun
  <2>8. CASE CrashServer  BY <2>8 DEF CrashServer
  <2>9. CASE RestartServer  BY <2>9 DEF RestartServer
  <2>10. ASSUME NEW t \in Tx, StartCall(t) PROVE TargetInv'
    BY <2>10 DEF StartCall
  <2>11. ASSUME NEW clean \in BOOLEAN, NEW readable \in BOOLEAN,
                CompleteCall(clean, readable)
         PROVE  TargetInv'
    BY <2>11 DEF CompleteCall, Settle, MutationState
  <2> QED  BY <1>1, <2>1, <2>2, <2>3, <2>4, <2>5,
              <2>6, <2>7, <2>8, <2>9, <2>10, <2>11 DEF ParentStep
<1>2. ASSUME NEW t \in Tx, ChildStep(t) PROVE TargetInv'
  <2>1. CASE RecordIntent(t)  BY <2>1 DEF RecordIntent, Move
  <2>2. CASE SyncIntent(t)  BY <2>2 DEF SyncIntent, Move
  <2>3. CASE AnnounceIntent(t)  BY <2>3 DEF AnnounceIntent, Move
  <2>4. CASE Publish(t)  BY <2>4 DEF Publish, Move, MayPublish
  <2>5. CASE Restore(t)  BY <2>5 DEF Restore, Move
  <2>6. CASE Warn(t)  BY <2>6 DEF Warn, Move
  <2>7. CASE Succeed(t)  BY <2>7 DEF Succeed, Move
  <2>8. CASE FailCall(t)  BY <2>8 DEF FailCall, Move
  <2>9. CASE ExitWithResult(t)  BY <2>9 DEF ExitWithResult
  <2>10. CASE Die(t)  BY <2>10 DEF Die
  <2> QED  BY <1>2, <2>1, <2>2, <2>3, <2>4, <2>5,
              <2>6, <2>7, <2>8, <2>9, <2>10 DEF ChildStep
<1>3. CASE World
  <2>1. CASE PowerLoss  BY <2>1 DEF PowerLoss
  <2>2. CASE UserEdits  BY <2>2 DEF UserEdits
  <2>3. ASSUME NEW ids \in SUBSET Tx, Acknowledge(ids) PROVE TargetInv'
    BY <2>3 DEF Acknowledge, LeaseFree
  <2> QED  BY <1>3, <2>1, <2>2, <2>3 DEF World
<1>4. CASE UNCHANGED vars  BY <1>4 DEF vars
<1> QED  BY <1>1, <1>2, <1>3, <1>4 DEF Next

(* The accumulator keeps up with the publications of the run.                *)
LEMMA RunStep == TypeOK /\ StageInv /\ AloneInv /\ RunInv /\ [Next]_vars => RunInv'
<1> USE JournalAssumption DEF JournalAssumption, TypeOK, StageInv, AloneInv, RunInv, Alive, ParentStates, ChildStates,
        server, pipe, file, store
<1> SUFFICES ASSUME TypeOK, StageInv, AloneInv, RunInv, [Next]_vars PROVE RunInv'
  OBVIOUS
<1>1. CASE ParentStep
  <2>1. CASE AcquireLease  BY <2>1 DEF AcquireLease, LeaseFree
  <2>2. CASE PassGate  BY <2>2 DEF PassGate, NothingPending
  <2>3. CASE Refuse  BY <2>3 DEF Refuse
  <2>4. CASE InterruptCall  BY <2>4 DEF InterruptCall
  <2>5. ASSUME NEW readable \in BOOLEAN, FinishInterruptedCall(readable) PROVE RunInv'
    BY <2>5 DEF FinishInterruptedCall, Settle, MutationState
  <2>6. CASE LoseOutput  BY <2>6 DEF LoseOutput, Settle
  <2>7. CASE EndRun  BY <2>7 DEF EndRun
  <2>8. CASE CrashServer  BY <2>8 DEF CrashServer
  <2>9. CASE RestartServer  BY <2>9 DEF RestartServer
  <2>10. ASSUME NEW t \in Tx, StartCall(t) PROVE RunInv'
    BY <2>10 DEF StartCall
  <2>11. ASSUME NEW clean \in BOOLEAN, NEW readable \in BOOLEAN,
                CompleteCall(clean, readable)
         PROVE  RunInv'
    BY <2>11 DEF CompleteCall, Settle, MutationState, GoesOn
  <2> QED  BY <1>1, <2>1, <2>2, <2>3, <2>4, <2>5,
              <2>6, <2>7, <2>8, <2>9, <2>10, <2>11 DEF ParentStep
<1>2. ASSUME NEW t \in Tx, ChildStep(t) PROVE RunInv'
  <2>1. CASE RecordIntent(t)  BY <2>1 DEF RecordIntent, Move
  <2>2. CASE SyncIntent(t)  BY <2>2 DEF SyncIntent, Move
  <2>3. CASE AnnounceIntent(t)  BY <2>3 DEF AnnounceIntent, Move
  <2>4. CASE Publish(t)  BY <2>4 DEF Publish, Move, MayPublish
  <2>5. CASE Restore(t)  BY <2>5 DEF Restore, Move
  <2>6. CASE Warn(t)  BY <2>6 DEF Warn, Move
  <2>7. CASE Succeed(t)  BY <2>7 DEF Succeed, Move
  <2>8. CASE FailCall(t)  BY <2>8 DEF FailCall, Move
  <2>9. CASE ExitWithResult(t)  BY <2>9 DEF ExitWithResult
  <2>10. CASE Die(t)  BY <2>10 DEF Die
  <2> QED  BY <1>2, <2>1, <2>2, <2>3, <2>4, <2>5,
              <2>6, <2>7, <2>8, <2>9, <2>10 DEF ChildStep
<1>3. CASE World
  <2>1. CASE PowerLoss  BY <2>1 DEF PowerLoss
  <2>2. CASE UserEdits  BY <2>2 DEF UserEdits
  <2>3. ASSUME NEW ids \in SUBSET Tx, Acknowledge(ids) PROVE RunInv'
    BY <2>3 DEF Acknowledge, LeaseFree
  <2> QED  BY <1>3, <2>1, <2>2, <2>3 DEF World
<1>4. CASE UNCHANGED vars  BY <1>4 DEF vars
<1> QED  BY <1>1, <1>2, <1>3, <1>4 DEF Next

-----------------------------------------------------------------------------
JournalInv == TypeOK /\ StageInv /\ AloneInv /\ TargetInv /\ RunInv

(* The inductive invariant the theorems below follow from.                   *)
LEMMA JournalInvariant == Spec => []JournalInv
<1>1. Init => JournalInv
  BY JournalAssumption DEF JournalAssumption, Init, JournalInv, TypeOK, StageInv,
     AloneInv, TargetInv, RunInv, Alive, ParentStates, ChildStates
<1>2. JournalInv /\ [Next]_vars => JournalInv'
  BY TypeStep, StageStep, AloneStep, TargetStep, RunStep DEF JournalInv
<1> QED  BY <1>1, <1>2, PTL DEF Spec

(* Type correctness.                                                        *)
THEOREM TypeCorrect == Spec => []TypeOK
BY JournalInvariant, PTL DEF JournalInv

(* Across kills and power loss, a replacement that stands has a durable      *)
(* record until the host acknowledges it.                                    *)
THEOREM MutationsAreJournaled == Spec => []EffectiveIsJournaled
<1>1. JournalInv => EffectiveIsJournaled
  BY DEF JournalInv, TypeOK, StageInv, EffectiveIsJournaled
<1> QED  BY <1>1, JournalInvariant, PTL

(* Delegation fails closed while a record of an earlier run is there.        *)
THEOREM DelegationFailsClosed == Spec => []RunSeesOwnRecordsOnly
<1>1. JournalInv => RunSeesOwnRecordsOnly
  BY DEF JournalInv, AloneInv, RunSeesOwnRecordsOnly
<1> QED  BY <1>1, JournalInvariant, PTL

(* The agent loop goes on only past mutations recorded as clean commits.     *)
THEOREM LoopGoesOnPastCommitsOnly == Spec => []GoesOnOnlyPastCommitted
<1>1. JournalInv => GoesOnOnlyPastCommitted
  BY JournalAssumption
     DEF JournalAssumption, JournalInv, TypeOK, AloneInv, RunInv, GoesOnOnlyPastCommitted
<1> QED  BY <1>1, JournalInvariant, PTL

(* A run that ends by itself reports what it left in the workspace.          *)
THEOREM RunsReport == Spec => []RunReportsMutations
<1>1. JournalInv => RunReportsMutations
  BY JournalAssumption
     DEF JournalAssumption, JournalInv, TypeOK, AloneInv, RunInv, RunReportsMutations
<1> QED  BY <1>1, JournalInvariant, PTL

(* "committed" is never said of a replacement that does not stand.           *)
THEOREM CommittedMeansStanding == Spec => []CommittedIsTrue
<1>1. JournalInv => CommittedIsTrue
  BY DEF JournalInv, TargetInv, CommittedIsTrue
<1> QED  BY <1>1, JournalInvariant, PTL

(* After its acknowledgement no tool step changes what a transaction did.    *)
THEOREM AcknowledgedIsOver == Spec => AckedIsFinal
<1> DEFINE Final == \A t \in acked : (t \in effective) <=> (t \in effective')
<1>1. JournalInv /\ [Next]_vars => [Final]_vars
  <2> SUFFICES ASSUME JournalInv, Next PROVE Final
    BY DEF JournalInv
  <2> USE DEF JournalInv, TypeOK, StageInv, Alive, file, store, pipe, server
  <2>1. CASE ParentStep
    BY <2>1 DEF ParentStep, AcquireLease, PassGate, Refuse, InterruptCall,
       FinishInterruptedCall, LoseOutput, EndRun, CrashServer, RestartServer, StartCall,
       CompleteCall, Settle
  <2>2. ASSUME NEW t \in Tx, ChildStep(t) PROVE Final
    <3>1. CASE Publish(t)  BY <3>1 DEF Publish, MayPublish, Move
    <3>2. CASE Restore(t)  BY <3>2 DEF Restore, Move
    <3>3. CASE ~Publish(t) /\ ~Restore(t)
      BY <2>2, <3>3 DEF ChildStep, RecordIntent, SyncIntent, AnnounceIntent, Warn, Succeed,
         FailCall, ExitWithResult, Die
    <3> QED  BY <3>1, <3>2, <3>3
  <2>3. CASE World
    BY <2>3 DEF World, PowerLoss, UserEdits, Acknowledge
  <2> QED  BY <2>1, <2>2, <2>3 DEF Next
<1> QED  BY <1>1, JournalInvariant, PTL DEF Spec, AckedIsFinal

=============================================================================
