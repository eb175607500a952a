--------------------------- MODULE MutationJournal ---------------------------
(***************************************************************************)
(* The life of file mutations across processes: the tool child that journals *)
(* an intent, announces it to its parent and publishes a replacement          *)
(* (tool_child.py, transaction_report.py, transaction_journal.py); the        *)
(* parent that classifies what happened when the child is gone               *)
(* (tool_process.py, mutation_outcome.py); and the host that reviews and      *)
(* acknowledges records under the workspace lease (transaction_recovery.py). *)
(* Children, servers and the machine may stop between any two steps.         *)
(*                                                                         *)
(* Files are one target whose content is named after the transaction that    *)
(* published it.  The commit is abstracted to what PosixCommit shows of it:  *)
(* the replacement appears, may be taken back, or stays with a warning.      *)
(***************************************************************************)
EXTENDS Naturals, FiniteSets

CONSTANTS
  Tx,          \* transaction ids; each is one call of a mutation tool
  NoTx,
  User,        \* content nobody but the user wrote
  MaxRecords   \* transaction_journal.MAX_RECORDS = MAX_MUTATION_RECORDS

ASSUME JournalAssumption ==
  /\ NoTx \notin Tx /\ User \notin Tx
  /\ MaxRecords \in Nat \ {0}

VARIABLES
  parent,     \* the server thread that runs the execution
  current,    \* the call it has in progress
  child,      \* the tool child of a transaction
  journal,    \* records in the journal directory
  durable,    \* records whose directory entry has been fsynced
  ready,      \* mutation_ready lines the children have sent
  warned,     \* mutation_warning lines the children have sent
  result,     \* the result line of a child
  target,     \* the content of the file
  before,     \* what a publication displaced
  effective,  \* history: publications that were not taken back
  called,     \* transactions of the current run
  records,    \* MutationAccumulator of the current run
  blind,      \* history: calls whose output the parent could not read
  acked       \* history: acknowledged ids

vars == <<parent, current, child, journal, durable, ready, warned, result, target,
          before, effective, called, records, blind, acked>>
server == <<parent, current, called, records, blind>>
pipe   == <<ready, warned, result>>
file   == <<target, before, effective>>
store  == <<journal, durable>>

ParentStates == {"idle", "gate", "running", "calling", "stopping", "ending", "crashed"}
ChildStates  == {"unused", "working", "recorded", "durable", "ready", "published",
                 "failed", "succeeded", "dead"}

Alive(t) == child[t] \notin {"unused", "dead"}

-----------------------------------------------------------------------------
Init ==
  /\ parent = "idle"
  /\ current = NoTx
  /\ child = [t \in Tx |-> "unused"]
  /\ journal = {} /\ durable = {}
  /\ ready = {} /\ warned = {}
  /\ result = [t \in Tx |-> "none"]
  /\ target = User
  /\ before = [t \in Tx |-> User]
  /\ effective = {}
  /\ called = {}
  /\ records = [t \in Tx |-> "none"]
  /\ blind = {}
  /\ acked = {}

-----------------------------------------------------------------------------
(* The workspace lease (WorkspaceLease): free when no execution has it and   *)
(* no tool child inherited it.                                               *)
Mut_ChildrenDoNotHold == parent \in {"idle", "crashed"}
LeaseFree == parent \in {"idle", "crashed"} /\ \A t \in Tx : ~Alive(t)

AcquireLease ==
  /\ parent = "idle"
  /\ LeaseFree
  /\ parent' = "gate"
  /\ UNCHANGED <<current, called, records, blind, child, pipe, file, store, acked>>

(* require_no_pending: records, or a journal that cannot be read, refuse.    *)
NothingPending == journal = {}

PassGate ==
  /\ parent = "gate"
  /\ NothingPending
  /\ parent' = "running"
  /\ called' = {}
  /\ records' = [t \in Tx |-> "none"]
  /\ blind' = {}
  /\ UNCHANGED <<current, child, pipe, file, store, acked>>

Refuse ==
  /\ parent = "gate"
  /\ parent' = "idle"
  /\ UNCHANGED <<current, called, records, blind, child, pipe, file, store, acked>>

StartCall(t) ==
  /\ parent = "running"
  /\ child[t] = "unused"
  /\ parent' = "calling"
  /\ current' = t
  /\ called' = called \cup {t}
  /\ child' = [child EXCEPT ![t] = "working"]
  /\ UNCHANGED <<records, blind, pipe, file, store, acked>>

(* Cancellation or the deadline: _stop_process.                              *)
InterruptCall ==
  /\ parent = "calling"
  /\ parent' = "stopping"
  /\ UNCHANGED <<current, called, records, blind, child, pipe, file, store, acked>>

(* _interrupted_mutation_state: no mutation_ready line, no record; otherwise *)
(* the target's digest decides, if the target can be read at all.            *)
Mut_OnlyCommittedReported(t, readable) ==
  IF t \in ready /\ readable /\ target = t THEN "committed" ELSE "none"
Mut_CommittedWhenReady(t, readable) == IF t \in ready THEN "committed" ELSE "none"
MutationState(t, readable) ==
  IF t \notin ready THEN "none"
  ELSE IF readable /\ target = t THEN "committed" ELSE "uncertain"

Settle(t, next, state) ==
  /\ parent' = next
  /\ current' = NoTx
  /\ records' = [records EXCEPT ![t] = state]
  /\ UNCHANGED <<called, child, pipe, file, store, acked>>

(* _complete_tool_call on a result: an error without a record returns to the *)
(* model; a recorded call does only when it is OK, committed, without a      *)
(* warning, and the artifacts could be checked (`clean`).                    *)
Mut_OkIsEnough(t, clean, state) == result[t] = "ok" \/ state = "none"
GoesOn(t, clean, state) ==
  /\ clean
  /\ \/ state = "none" /\ result[t] = "error"
     \/ state = "committed" /\ result[t] = "ok" /\ t \notin warned

CompleteCall(clean, readable) ==
  LET t == current
      state == MutationState(t, readable) IN
  /\ parent = "calling"
  /\ child[t] = "dead" /\ result[t] # "none"
  /\ Settle(t, IF GoesOn(t, clean, state) THEN "running" ELSE "ending", state)
  /\ UNCHANGED blind

(* _finish_interrupted_call, when the child is gone: it was stopped, or it   *)
(* died before or after its result line.                                     *)
FinishInterruptedCall(readable) ==
  LET t == current IN
  /\ parent \in {"calling", "stopping"}
  /\ child[t] = "dead"
  /\ Settle(t, "ending", MutationState(t, readable))
  /\ UNCHANGED blind

(* The output is lost (the pipe thread failed or did not finish), or the     *)
(* child survived its SIGKILL for two seconds: the failure has no record.    *)
LoseOutput ==
  LET t == current IN
  /\ parent \in {"calling", "stopping"}
  /\ child[t] = "dead" \/ parent = "stopping"
  /\ Settle(t, "ending", "none")
  /\ blind' = blind \cup {t}

(* The run returns its answer or its error, and the lease.                   *)
EndRun ==
  /\ parent \in {"running", "ending"}
  /\ parent' = "idle"
  /\ UNCHANGED <<current, called, records, blind, child, pipe, file, store, acked>>

CrashServer ==
  /\ parent \notin {"idle", "crashed"}
  /\ parent' = "crashed"
  /\ current' = NoTx
  /\ UNCHANGED <<called, records, blind, child, pipe, file, store, acked>>

RestartServer ==
  /\ parent = "crashed"
  /\ parent' = "idle"
  /\ UNCHANGED <<current, called, records, blind, child, pipe, file, store, acked>>

-----------------------------------------------------------------------------
(* The tool child.                                                          *)

Move(t, from, to) ==
  /\ child[t] = from
  /\ child' = [child EXCEPT ![t] = to]
  /\ UNCHANGED <<server, result, acked>>

(* record_intent up to the rename that publishes the record; it refuses at   *)
(* its capacity or on any error.                                             *)
JournalHasRoom == Cardinality(journal) < MaxRecords

RecordIntent(t) ==
  /\ JournalHasRoom
  /\ Move(t, "working", "recorded")
  /\ journal' = journal \cup {t}
  /\ UNCHANGED <<durable, ready, warned, file>>

(* The fsync of the directory.  If it fails the intent is announced, and the *)
(* mutation is given up (JournalUpdatePublishedWarning).                     *)
SyncIntent(t) ==
  \/ /\ Move(t, "recorded", "durable")
     /\ durable' = durable \cup {t}
     /\ UNCHANGED <<journal, ready, warned, file>>
  \/ /\ Move(t, "recorded", "failed")
     /\ ready' = ready \cup {t}
     /\ UNCHANGED <<store, warned, file>>

(* _write_mutation_ready                                                     *)
AnnounceIntent(t) ==
  /\ Move(t, "durable", "ready")
  /\ ready' = ready \cup {t}
  /\ UNCHANGED <<store, warned, file>>

Mut_PublishBeforeRecord == {"working", "ready"}
MayPublish == {"ready"}

Publish(t) ==
  /\ child[t] \in MayPublish
  /\ Move(t, child[t], "published")
  /\ target' = t
  /\ before' = [before EXCEPT ![t] = target]
  /\ effective' = effective \cup {t}
  /\ UNCHANGED <<store, ready, warned>>

(* The commit takes the replacement back after a conflict or a failed audit. *)
Restore(t) ==
  /\ Move(t, "published", "failed")
  /\ target' = before[t]
  /\ effective' = effective \ {t}
  /\ UNCHANGED <<store, ready, warned, before>>

(* mutation_warning: the line is sent even when append_warning fails, and    *)
(* then the tool's result is an error although the replacement stands.       *)
Warn(t) ==
  /\ \/ Move(t, "published", "succeeded")
     \/ Move(t, "published", "failed")
  /\ warned' = warned \cup {t}
  /\ UNCHANGED <<store, ready, file>>

Succeed(t) ==
  /\ Move(t, "published", "succeeded")
  /\ UNCHANGED <<store, ready, warned, file>>

(* Any error before publication.                                             *)
FailCall(t) ==
  /\ \/ Move(t, "working", "failed")
     \/ Move(t, "ready", "failed")
  /\ UNCHANGED <<store, ready, warned, file>>

ExitWithResult(t) ==
  /\ child[t] \in {"failed", "succeeded"}
  /\ child' = [child EXCEPT ![t] = "dead"]
  /\ result' = [result EXCEPT ![t] = IF child[t] = "succeeded" THEN "ok" ELSE "error"]
  /\ UNCHANGED <<server, ready, warned, file, store, acked>>

(* SIGTERM, SIGKILL or os._exit: no result line.                             *)
Die(t) ==
  /\ Alive(t)
  /\ child' = [child EXCEPT ![t] = "dead"]
  /\ UNCHANGED <<server, pipe, file, store, acked>>

-----------------------------------------------------------------------------
(* The machine stops: records whose entry is not durable may be gone.        *)
PowerLoss ==
  /\ parent' = "crashed"
  /\ current' = NoTx
  /\ child' = [t \in Tx |-> IF Alive(t) THEN "dead" ELSE child[t]]
  /\ \E kept \in SUBSET (journal \ durable) : journal' = (journal \cap durable) \cup kept
  /\ durable' = journal'
  /\ UNCHANGED <<called, records, blind, pipe, file, acked>>

(* acknowledge_deepseek_mutations: the exact ids that have a record, under   *)
(* the lease.  (get_deepseek_recovery changes nothing that is modelled.)     *)
Acknowledge(ids) ==
  /\ parent = "idle" /\ LeaseFree
  /\ ids # {} /\ ids \subseteq journal
  /\ journal' = journal \ ids
  /\ durable' = durable \ ids
  /\ acked' = acked \cup ids
  /\ UNCHANGED <<server, child, pipe, file>>

UserEdits ==
  /\ target # User
  /\ target' = User
  /\ UNCHANGED <<server, child, pipe, store, acked, before, effective>>

-----------------------------------------------------------------------------
ParentStep ==
  \/ AcquireLease \/ PassGate \/ Refuse \/ InterruptCall
  \/ LoseOutput \/ EndRun \/ CrashServer \/ RestartServer
  \/ \E t \in Tx : StartCall(t)
  \/ \E clean, readable \in BOOLEAN : CompleteCall(clean, readable)
  \/ \E readable \in BOOLEAN : FinishInterruptedCall(readable)

ChildStep(t) ==
  \/ RecordIntent(t) \/ SyncIntent(t) \/ AnnounceIntent(t) \/ Publish(t) \/ Restore(t)
  \/ Warn(t) \/ Succeed(t) \/ FailCall(t) \/ ExitWithResult(t) \/ Die(t)

World ==
  \/ PowerLoss \/ UserEdits
  \/ \E ids \in SUBSET Tx : Acknowledge(ids)

Next == ParentStep \/ (\E t \in Tx : ChildStep(t)) \/ World

Spec == Init /\ [][Next]_vars

-----------------------------------------------------------------------------
TypeOK ==
  /\ parent \in ParentStates
  /\ current \in Tx \cup {NoTx}
  /\ child \in [Tx -> ChildStates]
  /\ journal \in SUBSET Tx /\ durable \in SUBSET journal
  /\ ready \in SUBSET Tx /\ warned \in SUBSET Tx
  /\ result \in [Tx -> {"none", "ok", "error"}]
  /\ target \in Tx \cup {User}
  /\ before \in [Tx -> Tx \cup {User}]
  /\ effective \in SUBSET Tx
  /\ called \in SUBSET Tx
  /\ records \in [Tx -> {"none", "committed", "uncertain"}]
  /\ blind \in SUBSET Tx
  /\ acked \in SUBSET Tx

(* Whatever stops, and whenever: a replacement that stands has a durable     *)
(* record until the host has acknowledged it.                                *)
EffectiveIsJournaled == effective \ acked \subseteq journal \cap durable

(* Delegation fails closed: a run never goes on while the journal holds a    *)
(* record of another run, not even one an orphaned child would add late.     *)
RunSeesOwnRecordsOnly == parent \in {"running", "calling", "stopping"} => journal \subseteq called

(* The agent loop only goes on past a mutation it has recorded as committed  *)
(* and that came without a warning.                                          *)
GoesOnOnlyPastCommitted ==
  parent = "running" =>
    \A t \in called \cap (effective \cup warned) : records[t] = "committed" /\ t \notin warned

(* A run that ends by itself reports every replacement that stands, except   *)
(* for a call whose output was lost, and then the run has failed.            *)
RunReportsMutations ==
  parent \in {"running", "ending"} =>
    \A t \in called \cap effective : records[t] # "none" \/ (parent = "ending" /\ t \in blind)

(* "committed" is said of a replacement that was published and stood when    *)
(* its child was gone: nothing can take it back later.                       *)
CommittedIsTrue == \A t \in Tx : records[t] = "committed" => t \in effective

(* An acknowledged transaction is over: no step of a tool puts its content   *)
(* in place or takes it back any more.                                       *)
AckedIsFinal == [][\A t \in acked : (t \in effective) <=> (t \in effective')]_vars

=============================================================================
