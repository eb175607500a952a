----------------------------- MODULE PosixCommit -----------------------------
(***************************************************************************)
(* One Write, Edit or NotebookEdit of one workspace file on POSIX            *)
(* (file_io._write_posix, posix_atomic_commit.commit), against an editor     *)
(* that saves, deletes or writes the same file at any moment, system calls   *)
(* that fail, SIGTERM, and a kill between any two system calls.              *)
(*                                                                         *)
(* A version stands for a file's content and metadata: what _same_metadata   *)
(* and the digest together tell apart.  The temporary and recovery names are *)
(* random, so only this call links files there; a recovery name that exists  *)
(* three times in a row is one of the ways to park can fail.                 *)
(***************************************************************************)
EXTENDS Naturals, FiniteSets

CONSTANTS
  File,         \* inodes the editor's versions live in
  FirstFile,    \* the one the target names when the tool reads it
  Ours,         \* the inode of the replacement
  NoFile,
  Edits,        \* versions the editor writes, each at most once
  Original, Replacement, Partial, NoVersion

ASSUME CommitAssumption ==
  /\ FirstFile \in File
  /\ Ours \notin File /\ NoFile \notin File \cup {Ours}
  /\ Original \notin Edits /\ Replacement \notin Edits \cup {Original}
  /\ Partial \notin Edits \cup {Original, Replacement}
  /\ NoVersion \notin Edits \cup {Original, Replacement, Partial}

VARIABLES
  entry,      \* the directory: what the three names link to
  data,       \* the version an inode holds
  baseline,   \* the identity the tool read, or that there was no file
  pc,         \* the call's next system call
  outcome,    \* what it will return or raise
  displaced,  \* history: the identity that publication took from the target
  sigterm,    \* a SIGTERM is pending behind the signal mask
  warned,     \* a mutation_warning line was sent to the parent
  named,      \* the message names the file in which data is retained
  held,       \* the inode the editor has open for writing
  saved,      \* history: versions the user saved, and nobody replaced on purpose
  late        \* history: versions written to a file already audited or unlinked

vars == <<entry, data, baseline, pc, outcome, displaced, sigterm, warned, named,
          held, saved, late>>
user    == <<held, saved, late>>
message == <<warned, named>>

Names   == {"target", "temp", "recovery"}
Version == Edits \cup {Original, Replacement, Partial, NoVersion}

(* While the commit runs, SIGTERM is blocked (_defer_posix_termination).     *)
Blocked == {"publish", "park", "unpark", "audit", "unlink_recovery", "restore",
            "reclaim", "reclaim_unlink", "sync", "warn", "finish",
            "unblock_failed", "unblock_committed"}
Labels  == Blocked \cup {"check", "create", "write", "intent", "revalidate",
                         "unlink_temp", "discard", "discard_unlink", "done", "dead"}
Outcomes == {"none", "ok", "warning", "conflict", "failed", "terminated"}

Missing == [inode |-> NoFile, version |-> NoVersion]
Identity(n) == IF entry[n] = NoFile THEN Missing
                                    ELSE [inode |-> entry[n], version |-> data[entry[n]]]

-----------------------------------------------------------------------------
Init ==
  /\ data = [i \in File \cup {Ours} |-> IF i = FirstFile THEN Original ELSE NoVersion]
  /\ \E there \in BOOLEAN :
       /\ entry = [n \in Names |-> IF n = "target" /\ there THEN FirstFile ELSE NoFile]
       /\ baseline = IF there THEN [inode |-> FirstFile, version |-> Original] ELSE Missing
       /\ saved = IF there THEN {Original} ELSE {}
  /\ pc = "check"
  /\ outcome = "none"
  /\ displaced = Missing
  /\ sigterm = FALSE
  /\ warned = FALSE
  /\ named = FALSE
  /\ held = NoFile
  /\ late = {}

-----------------------------------------------------------------------------
(* _same_version: type, metadata and digest of the file a name links to.     *)
Mut_MetadataOnly(n, identity) == entry[n] = identity.inode
SameVersion(n, identity) == Identity(n) = identity

Exchange(a, b) == [entry EXCEPT ![a] = entry[b], ![b] = entry[a]]
Moved(a, b)    == [entry EXCEPT ![a] = NoFile, ![b] = entry[a]]
Unlinked(n)    == [entry EXCEPT ![n] = NoFile]

(* One system call of the tool child: what it leaves alone.                  *)
Step(from, to) ==
  /\ pc = from
  /\ pc' = to
  /\ UNCHANGED <<baseline, sigterm, user>>
Quiet == UNCHANGED <<entry, data, displaced, message>>

Raise(from, to, error) ==
  Step(from, to) /\ outcome' = error /\ Quiet

(* _write_baseline: the target is still what the tool read.                  *)
CheckBaseline ==
  \/ SameVersion("target", baseline) /\ Step("check", "create") /\ UNCHANGED outcome /\ Quiet
  \/ ~SameVersion("target", baseline) /\ Raise("check", "done", "conflict")
  \/ Raise("check", "done", "failed")

CreateTemp ==
  \/ /\ Step("create", "write")
     /\ entry' = [entry EXCEPT !["temp"] = Ours]
     /\ data' = [data EXCEPT ![Ours] = Partial]
     /\ UNCHANGED <<outcome, displaced, message>>
  \/ Raise("create", "done", "failed")

(* write, fchmod, fsync; before the replacement's identity is known the      *)
(* temporary is unlinked by name.                                            *)
WriteTemp ==
  \/ /\ Step("write", "intent")
     /\ data' = [data EXCEPT ![Ours] = Replacement]
     /\ UNCHANGED <<entry, outcome, displaced, message>>
  \/ Raise("write", "unlink_temp", "failed")

(* mutation_ready: the journal may refuse the intent.                        *)
PersistIntent ==
  \/ Step("intent", "revalidate") /\ UNCHANGED outcome /\ Quiet
  \/ Raise("intent", "discard", "failed")

Revalidate ==
  \/ SameVersion("target", baseline) /\ Step("revalidate", "publish")
     /\ UNCHANGED outcome /\ Quiet
  \/ ~SameVersion("target", baseline) /\ Raise("revalidate", "discard", "conflict")
  \/ Raise("revalidate", "discard", "failed")

(* commit: _publish_missing, or the exchange that puts the replacement in    *)
(* place and the displaced file under the temporary name.                    *)
PublishMissing ==
  /\ baseline = Missing
  /\ \/ /\ entry["target"] = NoFile
        /\ Step("publish", "finish")
        /\ entry' = Moved("temp", "target")
        /\ UNCHANGED <<data, outcome, displaced, message>>
     \/ entry["target"] # NoFile /\ Raise("publish", "unblock_failed", "conflict")
     \/ Raise("publish", "unblock_failed", "failed")

PublishExchange ==
  /\ baseline # Missing
  /\ \/ /\ entry["target"] # NoFile
        /\ Step("publish", "park")
        /\ entry' = Exchange("temp", "target")
        /\ displaced' = Identity("target")
        /\ UNCHANGED <<data, outcome, message>>
     \/ Raise("publish", "unblock_failed", "failed")

(* _park_displaced                                                           *)
ParkDisplaced ==
  \/ /\ Step("park", "audit")
     /\ entry' = Moved("temp", "recovery")
     /\ UNCHANGED <<data, outcome, displaced, message>>
  \/ Raise("park", "unpark", "failed")

(* The displaced file goes back, or stays under the temporary name that the  *)
(* warning mentions.                                                         *)
Unpark ==
  \/ /\ entry["target"] # NoFile
     /\ Step("unpark", "unblock_failed")
     /\ entry' = Exchange("temp", "target")
     /\ UNCHANGED <<data, outcome, displaced, message>>
  \/ /\ Step("unpark", "warn")
     /\ named' = TRUE
     /\ UNCHANGED <<entry, data, outcome, displaced, warned>>

(* Was the displaced file the baseline?  An audit that fails restores too.   *)
Mut_ConflictWithoutRestore ==
  \/ SameVersion("recovery", baseline) /\ Step("audit", "unlink_recovery")
     /\ UNCHANGED outcome /\ Quiet
  \/ ~SameVersion("recovery", baseline) /\ Raise("audit", "unblock_failed", "conflict")
  \/ Raise("audit", "restore", "failed")
AuditDisplaced ==
  \/ SameVersion("recovery", baseline) /\ Step("audit", "unlink_recovery")
     /\ UNCHANGED outcome /\ Quiet
  \/ ~SameVersion("recovery", baseline) /\ Raise("audit", "restore", "conflict")
  \/ Raise("audit", "restore", "failed")

(* The audit has passed: from here the replacement stands for the original.  *)
UnlinkRecovery ==
  \/ /\ pc = "unlink_recovery"
     /\ pc' = "finish"
     /\ entry' = Unlinked("recovery")
     /\ saved' = saved \ {Original}
     /\ UNCHANGED <<data, baseline, outcome, displaced, sigterm, message, held, late>>
  \/ /\ Step("unlink_recovery", "warn")
     /\ named' = TRUE
     /\ UNCHANGED <<entry, data, outcome, displaced, warned>>

(* _restore_conflict, _restore_after_audit_failure                           *)
Restore ==
  \/ /\ entry["target"] # NoFile
     /\ Step("restore", "reclaim")
     /\ entry' = Exchange("recovery", "target")
     /\ UNCHANGED <<data, outcome, displaced, message>>
  \/ /\ Step("restore", "warn")
     /\ named' = TRUE
     /\ UNCHANGED <<entry, data, outcome, displaced, warned>>

(* _remove_owned_recovery: only the exact replacement is removed; anything   *)
(* else, or an error, leaves the file and the message names it.              *)
Mut_RetainsSilently ==
  \/ /\ Identity("recovery") = [inode |-> Ours, version |-> Replacement]
     /\ Step("reclaim", "reclaim_unlink")
     /\ UNCHANGED outcome /\ Quiet
  \/ Step("reclaim", "sync") /\ UNCHANGED outcome /\ Quiet
CheckOwnedRecovery ==
  \/ /\ SameVersion("recovery", [inode |-> Ours, version |-> Replacement])
     /\ Step("reclaim", "reclaim_unlink")
     /\ UNCHANGED outcome /\ Quiet
  \/ /\ Step("reclaim", "sync")
     /\ named' = TRUE
     /\ UNCHANGED <<entry, data, outcome, displaced, warned>>

RemoveOwnedRecovery ==
  \/ /\ Step("reclaim_unlink", "sync")
     /\ entry' = Unlinked("recovery")
     /\ UNCHANGED <<data, outcome, displaced, message>>
  \/ /\ Step("reclaim_unlink", "sync")
     /\ named' = TRUE
     /\ UNCHANGED <<entry, data, outcome, displaced, warned>>

(* The fsync of the restore functions; its own failure replaces the message. *)
SyncRestored ==
  \/ Step("sync", "unblock_failed") /\ UNCHANGED outcome /\ Quiet
  \/ /\ Step("sync", "unblock_failed")
     /\ outcome' = "failed"
     /\ named' = FALSE
     /\ UNCHANGED <<entry, data, displaced, warned>>

(* mutation_warning of a MutationCommittedWarning.  When the journal cannot  *)
(* append it, the line is sent all the same and the error replaces the       *)
(* warning before the commit is marked as made.                              *)
ReportWarning ==
  \/ /\ Step("warn", "finish")
     /\ outcome' = "warning"
     /\ warned' = TRUE
     /\ UNCHANGED <<entry, data, displaced, named>>
  \/ /\ Step("warn", "unblock_failed")
     /\ outcome' = "failed"
     /\ warned' = TRUE
     /\ named' \in {named, FALSE}
     /\ UNCHANGED <<entry, data, displaced>>

(* committed = True, then the directory's fsync.                             *)
FinishCommit ==
  \/ /\ Step("finish", "unblock_committed")
     /\ outcome' = IF outcome = "none" THEN "ok" ELSE outcome
     /\ Quiet
  \/ /\ Step("finish", "unblock_committed")
     /\ outcome' \in {"warning", "failed"}
     /\ warned' = TRUE
     /\ UNCHANGED <<entry, data, displaced, named>>

(* The mask is restored: a pending SIGTERM is raised here.                   *)
Unblock ==
  /\ pc \in {"unblock_failed", "unblock_committed"}
  /\ pc' = IF pc = "unblock_failed" THEN "discard" ELSE "done"
  /\ outcome' = IF sigterm THEN "terminated" ELSE outcome
  /\ sigterm' = FALSE
  /\ UNCHANGED <<entry, data, baseline, displaced, message, user>>

(* The finally clause of _write_posix.                                       *)
UnlinkTemp ==
  \/ /\ Step("unlink_temp", "done")
     /\ entry' = Unlinked("temp")
     /\ UNCHANGED <<data, outcome, displaced, message>>
  \/ Step("unlink_temp", "done") /\ UNCHANGED outcome /\ Quiet

Mut_DiscardsUnchecked ==
  Step("discard", "discard_unlink") /\ UNCHANGED outcome /\ Quiet
CheckOwnedTemp ==
  \/ /\ SameVersion("temp", [inode |-> Ours, version |-> Replacement])
     /\ Step("discard", "discard_unlink")
     /\ UNCHANGED outcome /\ Quiet
  \/ Step("discard", "done") /\ UNCHANGED outcome /\ Quiet

DiscardTemp ==
  \/ /\ Step("discard_unlink", "done")
     /\ entry' = Unlinked("temp")
     /\ UNCHANGED <<data, outcome, displaced, message>>
  \/ Step("discard_unlink", "done") /\ UNCHANGED outcome /\ Quiet

-----------------------------------------------------------------------------
(* SIGTERM from the parent or the watchdog raises _ToolTermination in the    *)
(* main thread, unless it is blocked.                                        *)
AfterRaise(label) ==
  CASE label \in {"intent", "revalidate"} -> {"discard"}
    [] label = "write"                    -> {"unlink_temp", "done"}
    [] OTHER                              -> {"done"}

Sigterm ==
  /\ pc \notin {"done", "dead"}
  /\ IF pc \in Blocked
     THEN sigterm' = TRUE /\ UNCHANGED <<pc, outcome>>
     ELSE pc' \in AfterRaise(pc) /\ outcome' = "terminated" /\ UNCHANGED sigterm
  /\ UNCHANGED <<entry, data, baseline, displaced, message, user>>

(* SIGKILL, os._exit(124), or the machine stops.                             *)
Kill ==
  /\ pc \notin {"done", "dead"}
  /\ pc' = "dead"
  /\ outcome' = "none"
  /\ UNCHANGED <<entry, data, baseline, displaced, sigterm, message, user>>

-----------------------------------------------------------------------------
(* The editor.  Each version is written at most once.                       *)
Unwritten == Edits \ (saved \cup late \cup {data[i] : i \in File \cup {Ours}})
UserStep  == UNCHANGED <<baseline, pc, outcome, displaced, sigterm, message>>
Replaced(i) == IF i = NoFile THEN {} ELSE {data[i]}

EditorSaves(i, v) ==
  /\ data[i] = NoVersion
  /\ v \in Unwritten
  /\ entry' = [entry EXCEPT !["target"] = i]
  /\ data' = [data EXCEPT ![i] = v]
  /\ saved' = (saved \ Replaced(entry["target"])) \cup {v}
  /\ UNCHANGED <<held, late>>
  /\ UserStep

EditorDeletes ==
  /\ entry["target"] # NoFile
  /\ entry' = Unlinked("target")
  /\ saved' = saved \ Replaced(entry["target"])
  /\ UNCHANGED <<data, held, late>>
  /\ UserStep

EditorOpens ==
  /\ held # entry["target"]
  /\ held' = entry["target"]
  /\ UNCHANGED <<entry, data, saved, late>>
  /\ UserStep

(* Files the commit has audited for the unlink that is its next call.        *)
Audited(i) ==
  \/ i = entry["recovery"] /\ pc \in {"unlink_recovery", "reclaim_unlink"}
  \/ i = entry["temp"] /\ pc \in {"unlink_temp", "discard_unlink"}
Linked(i) == \E n \in Names : entry[n] = i

(* A write through a descriptor opened earlier.  It is late when the file is *)
(* already unlinked, or audited and about to be: no code that unlinks by     *)
(* name can see it.                                                          *)
EditorWrites(v) ==
  /\ held # NoFile
  /\ v \in Unwritten
  /\ data' = [data EXCEPT ![held] = v]
  /\ IF Audited(held) \/ ~Linked(held)
     THEN late' = late \cup {v} /\ saved' = saved \ {data[held]}
     ELSE saved' = (saved \ {data[held]}) \cup {v} /\ UNCHANGED late
  /\ UNCHANGED <<entry, held>>
  /\ UserStep

-----------------------------------------------------------------------------
Tool ==
  \/ CheckBaseline \/ CreateTemp \/ WriteTemp \/ PersistIntent \/ Revalidate
  \/ PublishMissing \/ PublishExchange \/ ParkDisplaced \/ Unpark
  \/ AuditDisplaced \/ UnlinkRecovery \/ Restore \/ CheckOwnedRecovery
  \/ RemoveOwnedRecovery \/ SyncRestored \/ ReportWarning \/ FinishCommit
  \/ Unblock \/ UnlinkTemp \/ CheckOwnedTemp \/ DiscardTemp

Editor ==
  \/ \E i \in File, v \in Edits : EditorSaves(i, v)
  \/ EditorDeletes
  \/ EditorOpens
  \/ \E v \in Edits : EditorWrites(v)

Next == Tool \/ Sigterm \/ Kill \/ Editor

Spec == Init /\ [][Next]_vars

-----------------------------------------------------------------------------
Identities == [inode : File \cup {Ours, NoFile}, version : Version]

TypeOK ==
  /\ entry \in [Names -> File \cup {Ours, NoFile}]
  /\ data \in [File \cup {Ours} -> Version]
  /\ baseline \in Identities
  /\ pc \in Labels
  /\ outcome \in Outcomes
  /\ displaced \in Identities
  /\ sigterm \in BOOLEAN /\ warned \in BOOLEAN /\ named \in BOOLEAN
  /\ held \in File \cup {Ours, NoFile}
  /\ saved \in SUBSET Version
  /\ late \in SUBSET Edits

Owed == saved \cap (Edits \cup {Original})
Found == {data[entry[n]] : n \in {m \in Names : entry[m] # NoFile}}

(* At every moment, a crash included, each version the user saved is in the  *)
(* directory under one of the three names, unless he replaced or deleted it  *)
(* himself or it is the original an audited commit replaced.                 *)
NoSavedDataLost == Owed \subseteq Found

(* A call that raises, and sends no warning, has not left its replacement    *)
(* in place.                                                                 *)
FailureRestores ==
  pc = "done" /\ outcome \in {"conflict", "failed"} /\ ~warned => entry["target"] # Ours

(* "OK" without a warning means that publication displaced exactly the       *)
(* version the tool had read, even when the file was written through an old  *)
(* descriptor just before.                                                   *)
SuccessReplacedBaseline ==
  outcome = "ok" /\ pc # "finish" => displaced = baseline

(* Saved data that ends up hidden under a temporary or recovery name is      *)
(* named by the conflict or the warning the caller sees.                     *)
Hidden == {data[entry[n]] : n \in {m \in {"temp", "recovery"} : entry[m] # NoFile}}
RetainedDataIsNamed ==
  pc = "done" /\ outcome \in {"ok", "warning", "conflict"} =>
    (named \/ Hidden \cap saved \cap Edits = {})

=============================================================================
