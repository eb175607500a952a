---------------------------- MODULE WindowsCommit ----------------------------
(***************************************************************************)
(* One Write, Edit or NotebookEdit of one workspace file on Windows          *)
(* (windows_workspace_write.write_windows over windows_atomic_commit),       *)
(* against an editor that saves, deletes or writes the same file at any      *)
(* moment, calls that fail, and a kill between any two of them.              *)
(*                                                                         *)
(* There is no exchange here: ReplaceFileW moves the target to a backup name *)
(* and the replacement to the target, and may stop in between (error 1177).  *)
(* A file is audited and deleted through one handle that nobody can rename   *)
(* or delete beside, and the tool child has no SIGTERM to defer.             *)
(***************************************************************************)
EXTENDS Naturals, FiniteSets

CONSTANTS
  File,         \* file ids the editor's versions live in
  FirstFile,    \* the one the target names when the tool reads it
  Ours,         \* the file id of the replacement
  NoFile,
  Edits,        \* versions the editor writes, each at most once
  Large,        \* those among them over MAX_TEXT_FILE_BYTES
  Original, Replacement, Partial, NoVersion

ASSUME WindowsAssumption ==
  /\ FirstFile \in File /\ Large \subseteq Edits
  /\ Ours \notin File /\ NoFile \notin File \cup {Ours}
  /\ Original \notin Edits /\ Replacement \notin Edits \cup {Original}
  /\ Partial \notin Edits \cup {Original, Replacement}
  /\ NoVersion \notin Edits \cup {Original, Replacement, Partial}

VARIABLES
  entry,      \* the directory: the files the four names link to
  data,       \* the version a file holds
  baseline,   \* the identity the tool read, or that there was no file
  pc,         \* what the call does next
  outcome,    \* what it will return or raise
  published,  \* history: the identity that publication took from the target
  warned,     \* a mutation_warning line was sent to the parent
  named,      \* the names the final message gives for retained data
  gaps,       \* history: the exits whose message leaves a retained file out
  held,       \* the file the editor has open for writing
  saved,      \* history: versions the user saved, and nobody replaced on purpose
  late        \* history: versions written to a file already audited or deleted

vars == <<entry, data, baseline, pc, outcome, published, warned, named, gaps, held,
          saved, late>>
user    == <<held, saved, late>>
message == <<warned, named, gaps>>

Names    == {"target", "temp", "displaced", "recovery"}
Version  == Edits \cup {Original, Replacement, Partial, NoVersion}
Labels   == {"check", "create", "write", "intent", "revalidate", "publish",
             "publishPartial", "parentAudit", "audit", "delete", "rollback",
             "rollbackPartial", "rollbackAudit", "reclaim", "reclaimDelete", "warn",
             "cleanup", "cleanupDelete", "done", "dead"}
Outcomes == {"none", "ok", "warning", "conflict", "failed"}
Gaps     == {"parentAudit", "escape", "rollbackPartial"}

Missing == [file |-> NoFile, version |-> NoVersion]
Identity(n) == IF entry[n] = NoFile THEN Missing
                                    ELSE [file |-> entry[n], version |-> data[entry[n]]]
Replaces == [file |-> Ours, version |-> Replacement]

-----------------------------------------------------------------------------
Init ==
  /\ data = [f \in File \cup {Ours} |-> IF f = FirstFile THEN Original ELSE NoVersion]
  /\ \E there \in BOOLEAN :
       /\ entry = [n \in Names |-> IF n = "target" /\ there THEN FirstFile ELSE NoFile]
       /\ baseline = IF there THEN [file |-> FirstFile, version |-> Original] ELSE Missing
       /\ saved = IF there THEN {Original} ELSE {}
  /\ pc = "check" /\ outcome = "none" /\ published = Missing
  /\ warned = FALSE /\ named = {} /\ gaps = {}
  /\ held = NoFile /\ late = {}

-----------------------------------------------------------------------------
Mut_FileIdOnly(n, identity) == entry[n] = identity.file
Mut_AnyVersion(n, identity) == entry[n] # NoFile
(* same_version of what a name links to.                                     *)
SameVersion(n, identity) == Identity(n) = identity

(* _checked_read raises ToolInputError, which is no OSError, over a file that *)
(* is too large or that is written while it is read.                         *)
Unreadable(n) ==
  entry[n] # NoFile /\ (data[entry[n]] \in Large \/ held = entry[n])

Unlinked(n) == [entry EXCEPT ![n] = NoFile]
Renamed(from, to) == [entry EXCEPT ![from] = NoFile, ![to] = entry[from]]

(* ReplaceFileW(target, replacement, backup), whole and as far as error 1177 *)
(* goes; any other error leaves all names as they are.                       *)
ReplaceFile(replacement, backup) ==
  [entry EXCEPT !["target"] = entry[replacement], ![replacement] = NoFile,
                ![backup] = entry["target"]]
PartialReplace(backup) == Renamed("target", backup)

(* One call of the tool child: what it leaves alone.                         *)
Step(from, to) ==
  /\ pc = from
  /\ pc' = to
  /\ UNCHANGED <<baseline, user>>
Quiet == UNCHANGED <<entry, data, published, message>>
Goes(from, to)         == Step(from, to) /\ UNCHANGED outcome /\ Quiet
Raise(from, to, error) == Step(from, to) /\ outcome' = error /\ Quiet

(* An error or a warning whose message names the retained files.             *)
RaiseNaming(from, to, error, names) ==
  /\ Step(from, to)
  /\ outcome' = error /\ named' = names
  /\ UNCHANGED <<entry, data, published, warned, gaps>>
RaiseWithGap(from, to, error, names) ==
  /\ Step(from, to)
  /\ outcome' = error /\ named' = names /\ gaps' = gaps \cup {from}
  /\ UNCHANGED <<entry, data, published, warned>>
Escape(from) ==
  /\ Step(from, "cleanup")
  /\ outcome' = "conflict" /\ gaps' = gaps \cup {"escape"}
  /\ UNCHANGED <<entry, data, published, warned, named>>

(* A rename, after which the call goes on.                                   *)
Links(from, to, links) ==
  /\ Step(from, to)
  /\ entry' = links
  /\ UNCHANGED <<data, outcome, published, message>>

-----------------------------------------------------------------------------
(* _win_current_info and _write_baseline: still what the tool read.          *)
CheckBaseline ==
  \/ SameVersion("target", baseline) /\ Goes("check", "create")
  \/ ~SameVersion("target", baseline) /\ Raise("check", "done", "conflict")
  \/ Raise("check", "done", "failed")

CreateTemp ==
  \/ /\ Step("create", "write")
     /\ entry' = [entry EXCEPT !["temp"] = Ours]
     /\ data' = [data EXCEPT ![Ours] = Partial]
     /\ UNCHANGED <<outcome, published, message>>
  \/ Raise("create", "done", "failed")

(* A write or fsync that fails deletes the file through its handle, which    *)
(* may fail too.                                                             *)
WriteTemp ==
  \/ /\ Step("write", "intent")
     /\ data' = [data EXCEPT ![Ours] = Replacement]
     /\ UNCHANGED <<entry, outcome, published, message>>
  \/ /\ Step("write", "done")
     /\ entry' \in {entry, Unlinked("temp")}
     /\ outcome' = "failed"
     /\ UNCHANGED <<data, published, message>>

PersistIntent ==
  \/ Goes("intent", "revalidate")
  \/ Raise("intent", "cleanup", "failed")

Revalidate ==
  \/ SameVersion("target", baseline) /\ Goes("revalidate", "publish")
  \/ ~SameVersion("target", baseline) /\ Raise("revalidate", "cleanup", "conflict")
  \/ Raise("revalidate", "cleanup", "failed")

(* _publish_name of a new file: a rename that does not replace.  A close     *)
(* that fails afterwards is a MutationCommittedWarning.                      *)
PublishMissing ==
  /\ baseline = Missing
  /\ \/ /\ entry["target"] = NoFile
        /\ pc = "publish"
        /\ \/ pc' = "done" /\ outcome' = "ok"
           \/ pc' = "warn" /\ outcome' = "warning"
        /\ entry' = Renamed("temp", "target")
        /\ UNCHANGED <<data, baseline, published, message, user>>
     \/ entry["target"] # NoFile /\ Raise("publish", "cleanup", "conflict")
     \/ Raise("publish", "cleanup", "failed")

(* _replace_with_backup of the target by the temporary file.                 *)
PublishReplace ==
  /\ baseline # Missing
  /\ \/ /\ entry["target"] # NoFile
        /\ Step("publish", "parentAudit")
        /\ entry' = ReplaceFile("temp", "displaced")
        /\ published' = Identity("target")
        /\ UNCHANGED <<data, outcome, message>>
     \/ /\ entry["target"] # NoFile
        /\ Links("publish", "publishPartial", PartialReplace("displaced"))
     \/ Raise("publish", "cleanup", "failed")

(* _recover_partial: the original returns unless the name is taken again.    *)
(* After a close that fails the message names it although it is back.        *)
RecoverPartial ==
  \/ /\ entry["target"] = NoFile
     /\ Step("publishPartial", "cleanup")
     /\ entry' = Renamed("displaced", "target")
     /\ outcome' = "failed"
     /\ named' \in {{}, {"displaced"}}
     /\ UNCHANGED <<data, published, warned, gaps>>
  \/ RaiseNaming("publishPartial", "cleanup", "failed", {"displaced"})

(* _audit_replacement: when it fails the displaced file is neither audited   *)
(* nor named.                                                                *)
AuditParent ==
  \/ Goes("parentAudit", "audit")
  \/ RaiseWithGap("parentAudit", "warn", "warning", {})

(* _discard_if_version of the displaced file against the baseline.  An       *)
(* OSError restores it, as a mismatch does; a ToolInputError does not.       *)
Mut_ErrorWithoutRestore ==
  \/ SameVersion("displaced", baseline) /\ Goes("audit", "delete")
  \/ ~SameVersion("displaced", baseline) /\ Raise("audit", "rollback", "conflict")
  \/ Raise("audit", "cleanup", "failed")
AuditDisplaced ==
  \/ SameVersion("displaced", baseline) /\ Goes("audit", "delete")
  \/ /\ ~SameVersion("displaced", baseline)
     /\ entry["displaced"] # NoFile => data[entry["displaced"]] \notin Large
     /\ Raise("audit", "rollback", "conflict")
  \/ Raise("audit", "rollback", "failed")
  \/ Unreadable("displaced") /\ Escape("audit")

(* mark_delete and close.  From here the replacement stands for the          *)
(* original; a close that fails restores all the same.                       *)
DeleteDisplaced ==
  \/ /\ pc = "delete"
     /\ entry' = Unlinked("displaced")
     /\ saved' = saved \ {Original}
     /\ \/ pc' = "done" /\ outcome' = "ok"
        \/ pc' = "rollback" /\ outcome' = "failed"
     /\ UNCHANGED <<data, baseline, published, message, held, late>>
  \/ Raise("delete", "rollback", "failed")

(* _restore: _replace_with_backup in the other direction.  An error of       *)
(* ReplaceFileW is a MutationCommittedWarning, one before it a plain error;  *)
(* both name the displaced file.                                             *)
Rollback ==
  \/ /\ entry["target"] # NoFile /\ entry["displaced"] # NoFile
     /\ Links("rollback", "rollbackAudit", ReplaceFile("displaced", "recovery"))
  \/ /\ entry["target"] # NoFile /\ entry["displaced"] # NoFile
     /\ Links("rollback", "rollbackPartial", PartialReplace("recovery"))
  \/ RaiseNaming("rollback", "warn", "warning", {"displaced"})
  \/ RaiseNaming("rollback", "cleanup", "failed", {"displaced"})

(* When the displaced file cannot return, _recover_partial names both files  *)
(* but _restore raises an error of its own that names the recovery only.     *)
RecoverPartialRollback ==
  \/ entry["target"] = NoFile
     /\ Links("rollbackPartial", "reclaim", Renamed("displaced", "target"))
  \/ /\ entry["target"] = NoFile
     /\ Step("rollbackPartial", "cleanup")
     /\ entry' = Renamed("displaced", "target")
     /\ outcome' = "failed" /\ named' = {"recovery"}
     /\ UNCHANGED <<data, published, warned, gaps>>
  \/ RaiseWithGap("rollbackPartial", "cleanup", "failed", {"recovery"})

AuditParentAgain ==
  \/ Goes("rollbackAudit", "reclaim")
  \/ RaiseNaming("rollbackAudit", "cleanup", "failed", {"recovery"})

(* _discard_if_version of the file the rollback displaced: the replacement   *)
(* is deleted, anything else is named.                                       *)
Mut_RetainsSilently ==
  \/ SameVersion("recovery", Replaces) /\ Goes("reclaim", "reclaimDelete")
  \/ ~SameVersion("recovery", Replaces) /\ Goes("reclaim", "cleanup")
Retained(from) == RaiseNaming(from, "cleanup", outcome, {"recovery"})
Reclaim ==
  \/ SameVersion("recovery", Replaces) /\ Goes("reclaim", "reclaimDelete")
  \/ /\ entry["recovery"] # NoFile => data[entry["recovery"]] \notin Large
     /\ Retained("reclaim")
  \/ Unreadable("recovery") /\ Escape("reclaim")

DeleteReclaimed ==
  \/ Links("reclaimDelete", "cleanup", Unlinked("recovery"))
  \/ Retained("reclaimDelete")

(* mutation_warning: when the journal cannot append it, its error replaces   *)
(* the warning.                                                              *)
ReportWarning ==
  /\ Step("warn", "cleanup")
  /\ warned' = TRUE
  /\ \/ UNCHANGED <<outcome, named>>
     \/ outcome' = "failed" /\ named' = {}
  /\ UNCHANGED <<entry, data, published, gaps>>

(* The finally clause of write_windows.                                      *)
CheckOwnedTemp ==
  \/ SameVersion("temp", Replaces) /\ Goes("cleanup", "cleanupDelete")
  \/ Goes("cleanup", "done")

DiscardTemp ==
  \/ Links("cleanupDelete", "done", Unlinked("temp"))
  \/ Goes("cleanupDelete", "done")

(* TerminateProcess, os._exit, or the machine stops.                         *)
Kill ==
  /\ pc \notin {"done", "dead"}
  /\ pc' = "dead"
  /\ outcome' = "none"
  /\ UNCHANGED <<entry, data, baseline, published, message, user>>

-----------------------------------------------------------------------------
(* The editor.  Each version is written at most once.                       *)
Unwritten == Edits \ (saved \cup late \cup {data[f] : f \in File \cup {Ours}})
UserStep  == UNCHANGED <<baseline, pc, outcome, published, message>>
Replaced(f) == IF f = NoFile THEN {} ELSE {data[f]}

EditorSaves(f, v) ==
  /\ data[f] = NoVersion
  /\ v \in Unwritten
  /\ entry' = [entry EXCEPT !["target"] = f]
  /\ data' = [data EXCEPT ![f] = v]
  /\ saved' = (saved \ Replaced(entry["target"])) \cup {v}
  /\ UNCHANGED <<held, late>>
  /\ UserStep

EditorDeletes ==
  /\ entry["target"] # NoFile
  /\ entry' = Unlinked("target")
  /\ saved' = saved \ Replaced(entry["target"])
  /\ UNCHANGED <<data, held, late>>
  /\ UserStep

EditorOpens ==
  /\ held # entry["target"]
  /\ held' = entry["target"]
  /\ UNCHANGED <<entry, data, saved, late>>
  /\ UserStep

(* A write through a handle opened earlier is late when the file is deleted, *)
(* or audited for the deletion that is the next call.                        *)
Audited(f) ==
  \/ f = entry["displaced"] /\ pc = "delete"
  \/ f = entry["recovery"] /\ pc = "reclaimDelete"
  \/ f = entry["temp"] /\ pc = "cleanupDelete"
Linked(f) == \E n \in Names : entry[n] = f

EditorWrites(v) ==
  /\ held # NoFile
  /\ v \in Unwritten
  /\ data' = [data EXCEPT ![held] = v]
  /\ IF Audited(held) \/ ~Linked(held)
     THEN late' = late \cup {v} /\ saved' = saved \ {data[held]}
     ELSE saved' = (saved \ {data[held]}) \cup {v} /\ UNCHANGED late
  /\ UNCHANGED <<entry, held>>
  /\ UserStep

-----------------------------------------------------------------------------
Tool ==
  \/ CheckBaseline \/ CreateTemp \/ WriteTemp \/ PersistIntent \/ Revalidate
  \/ PublishMissing \/ PublishReplace \/ RecoverPartial \/ AuditParent
  \/ AuditDisplaced \/ DeleteDisplaced \/ Rollback \/ RecoverPartialRollback
  \/ AuditParentAgain \/ Reclaim \/ DeleteReclaimed \/ ReportWarning
  \/ CheckOwnedTemp \/ DiscardTemp

Editor ==
  \/ \E f \in File, v \in Edits : EditorSaves(f, v)
  \/ EditorDeletes
  \/ EditorOpens
  \/ \E v \in Edits : EditorWrites(v)

Next == Tool \/ Kill \/ Editor

Spec == Init /\ [][Next]_vars

-----------------------------------------------------------------------------
Identities == [file : File \cup {Ours, NoFile}, version : Version]

TypeOK ==
  /\ entry \in [Names -> File \cup {Ours, NoFile}]
  /\ data \in [File \cup {Ours} -> Version]
  /\ baseline \in Identities /\ published \in Identities
  /\ pc \in Labels /\ outcome \in Outcomes
  /\ warned \in BOOLEAN /\ named \subseteq Names /\ gaps \subseteq Gaps
  /\ held \in File \cup {Ours, NoFile}
  /\ saved \subseteq Version /\ late \subseteq Edits

Owed  == saved \cap (Edits \cup {Original})
Found == {data[entry[n]] : n \in {m \in Names : entry[m] # NoFile}}

(* At every moment, a kill included, each version the user saved is in the   *)
(* directory under one of the four names, unless he replaced or deleted it   *)
(* himself or it is the original an audited replacement stands for.          *)
NoSavedDataLost == Owed \subseteq Found

Refused == pc = "done" /\ outcome \in {"conflict", "failed"} /\ ~warned

(* A call that raises, and sends no warning, has taken its replacement back  *)
(* or says where the original is; not so when an audit escapes as an input   *)
(* error (see RestoresDisplacement).                                         *)
FailureRestores ==
  Refused /\ "escape" \notin gaps => entry["target"] # Ours \/ "displaced" \in named

(* "Publish a temporary file and restore any non-baseline displacement":     *)
(* a call that took something else than the baseline from the target and     *)
(* raises without a warning has put it back, or says where it is.            *)
RestoresDisplacement ==
  Refused /\ published \notin {Missing, baseline} =>
    entry["target"] # Ours \/ "displaced" \in named

(* "OK" means that publication displaced exactly the version the tool had    *)
(* read, whatever the editor did in the last moment.                         *)
SuccessReplacedBaseline == outcome = "ok" => published = baseline

(* Every version the user is owed and that a finished call leaves under a    *)
(* private name is named in its message, the original included; the exits    *)
(* recorded in gaps and a warning lost with the journal are left out.        *)
RetainedDataIsNamed ==
  pc = "done" /\ gaps = {} /\ ~(warned /\ outcome = "failed") =>
    \A n \in Names \ {"target"} :
      entry[n] # NoFile /\ data[entry[n]] \in Owed => n \in named
=============================================================================
