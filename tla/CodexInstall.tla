---------------------------- MODULE CodexInstall ----------------------------
(***************************************************************************)
(* The Codex adapter's installer and uninstaller, on POSIX: the shell       *)
(* scripts adapters/codex/install.sh and uninstall.sh, the helper they run  *)
(* (adapters/codex/configure.py) and the user, who edits the same           *)
(* config.toml.                                                             *)
(*                                                                          *)
(* A run of a script takes the adapter lock (a directory, so it survives a  *)
(* kill), builds a generation (a Python environment of its own), lets the   *)
(* helper replace the registration in config.toml, has Codex verify it, and *)
(* prunes old generations; a run that fails rolls the file back.  The       *)
(* helper's work is one action per system call that others can see, with a  *)
(* failure, a Ctrl-C or a kill possible at each.                            *)
(***************************************************************************)
EXTENDS Integers, FiniteSets

CONSTANTS
  Earlier,   \* installations before the first run modelled
  MaxRuns,   \* the last run of the scripts (a bound on the behaviour)
  Edits,     \* what the user saves, each text once
  First,     \* the text of a config that exists at the start
  Blank,     \* the text of a config the installer created
  NoFile     \* an absent file

Run  == 1 .. MaxRuns
Gen  == 0 .. MaxRuns      \* the generation a run built; 0 is no registration
Text == Edits \cup {First, Blank}
Content == [text : Text, gen : Gen]

(* A config file: what is the user's in it, the generation it registers,    *)
(* and who wrote it.  All of it together tells two snapshots apart (inode   *)
(* and times); text and generation are its content (the sha256).            *)
File == [text : Text, gen : Gen, by : {"user", "install", "restore"}, run : Gen]

ASSUME CodexInstallAssumption ==
  /\ Earlier \in Nat /\ MaxRuns \in Nat /\ Earlier < MaxRuns
  /\ First \notin Edits /\ Blank \notin Edits /\ First # Blank
  /\ NoFile \notin File /\ NoFile \notin Content

VARIABLES
  (* The directory of config.toml and the state of ~/.deepseek-mcp.         *)
  config,    \* config.toml
  temp,      \* the private name of the helper at work (.tmp or .delete)
  hidden,    \* texts left for good under .tmp, .delete or .recovery names
  backup,    \* [Run -> the protected copy of the original's content]
  manifest,  \* [Run -> its original_exists], "none" without a manifest
  gens,      \* generations on disk, numbered by age
  locked,    \* the adapter lock directory
  (* The script at work and its helper.                                     *)
  run, op,   \* its number, "install" or "uninstall"
  shell,     \* where the script is
  preserve,  \* PRESERVE_RECOVERY
  succeeded, \* the runs that set INSTALL_SUCCEEDED or UNINSTALL_SUCCEEDED
  helper,    \* where the helper is
  mode,      \* what its current replacement is for
  base,      \* original_snapshot
  seen,      \* current, in _restore_original
  (* History.                                                               *)
  used,      \* the texts the user has saved so far
  owed,      \* the texts the user has not replaced or deleted himself
  blind      \* texts saved between begin's check and its forced restore

disk    == <<config, temp, hidden>>
records == <<backup, manifest>>
script  == <<locked, run, op, shell, preserve, succeeded, gens>>
work    == <<helper, mode, base, seen>>
user    == <<used, owed, blind>>
vars    == <<disk, records, script, work, user>>

HelperLabels ==
  {"none", "ok", "failed",
   "read", "prepare", "backup", "manifest", "recheck", "onError",
   "restoreRead", "restoreCheck",
   "check", "write", "publish", "audit", "recover", "unexchange", "reaudit",
   "unlink", "sync",
   "quarantine", "auditDelete", "requarantine"}

Writing == {"check", "write", "publish", "audit", "recover", "unexchange",
            "reaudit", "unlink", "sync"}

Init ==
  /\ config \in {NoFile} \cup
        [text : {First}, gen : 0 .. Earlier, by : {"user"}, run : {0}]
  /\ temp = NoFile /\ hidden = {}
  /\ backup = [t \in Run |-> NoFile] /\ manifest = [t \in Run |-> "none"]
  /\ gens = 1 .. Earlier /\ locked = FALSE
  /\ run = Earlier /\ op = "install" /\ shell = "idle"
  /\ preserve = FALSE /\ succeeded = 1 .. Earlier
  /\ helper = "none" /\ mode = "install" /\ base = NoFile /\ seen = NoFile
  /\ used = {} /\ blind = {}
  /\ owed = IF config = NoFile THEN {} ELSE {First}

-----------------------------------------------------------------------------
(* The script.                                                               *)

(* mkdir of the adapter lock.  A run that finds it taken exits at once.      *)
StartScript ==
  /\ shell = "idle" /\ ~locked /\ run < MaxRuns
  /\ locked' = TRUE
  /\ run' = run + 1
  /\ op' \in {"install", "uninstall"}
  /\ shell' = "setup"
  /\ UNCHANGED <<preserve, succeeded, gens, disk, records, work, user>>

(* The generation and transaction directories (mktemp), then the Python      *)
(* environment with its checks; an uninstall looks for one.                  *)
MakeGeneration ==
  /\ shell = "setup"
  /\ shell' = "build"
  /\ gens' = IF op = "install" THEN gens \cup {run} ELSE gens
  /\ UNCHANGED <<locked, run, op, preserve, succeeded, disk, records, work, user>>

StartHelper ==
  /\ shell = "build"
  /\ shell' = "begin"
  /\ helper' = "read" /\ mode' = "install"
  /\ UNCHANGED <<locked, run, op, preserve, succeeded, gens, disk, records, base,
                 seen, user>>

BeginSucceeded ==
  /\ shell = "begin" /\ helper = "ok"
  /\ shell' = "verify"
  /\ helper' = "none"
  /\ UNCHANGED <<locked, run, op, preserve, succeeded, gens, disk, records, mode,
                 base, seen, user>>

(* validate_registration_payload and validate_registration_absent, applied   *)
(* to what Codex reads from the file.                                        *)
Registered == IF config = NoFile THEN 0 ELSE config.gen
Verified   == Registered = (IF op = "install" THEN run ELSE 0)
Verify ==
  /\ shell = "verify"
  /\ Verified
  /\ succeeded' = succeeded \cup {run}
  /\ shell' = IF op = "install" THEN "prune" ELSE "cleanup"
  /\ UNCHANGED <<locked, run, op, preserve, gens, disk, records, work, user>>

(* prune_generations keeps the current generation and the newest of the      *)
(* others; when it fails some of the rest stay, which is only a warning.     *)
Kept == {run} \cup {g \in gens \ {run} : \A h \in gens \ {run} : h <= g}
PruneGenerations ==
  /\ shell = "prune"
  /\ \E removed \in SUBSET (gens \ Kept) : gens' = gens \ removed
  /\ shell' = "cleanup"
  /\ UNCHANGED <<locked, run, op, preserve, succeeded, disk, records, work, user>>

(* Any command may fail and a trapped signal ends the script when its        *)
(* command has ended (set -e, exit 130, exit 143): on_exit follows.          *)
ScriptFails ==
  /\ \/ shell \in {"setup", "build", "verify"} /\ helper' = helper
     \/ shell = "begin" /\ helper \in {"ok", "failed"} /\ helper' = "none"
  /\ shell' = "exit"
  /\ UNCHANGED <<locked, run, op, preserve, succeeded, gens, disk, records, mode,
                 base, seen, user>>

(* on_exit of a run that has not succeeded.                                  *)
StartRollback ==
  /\ shell = "exit"
  /\ IF manifest[run] # "none"
       THEN shell' = "rollback" /\ helper' = "restoreRead" /\ mode' = "rollback"
       ELSE shell' = "cleanup" /\ UNCHANGED <<helper, mode>>
  /\ UNCHANGED <<locked, run, op, preserve, succeeded, gens, disk, records, base,
                 seen, user>>

Mut_RollbackFailureForgotten ==
  /\ shell = "rollback" /\ helper \in {"ok", "failed"}
  /\ shell' = "cleanup"
  /\ helper' = "none"
  /\ UNCHANGED <<locked, run, op, preserve, succeeded, gens, disk, records, mode,
                 base, seen, user>>
RollbackEnded ==
  /\ shell = "rollback" /\ helper \in {"ok", "failed"}
  /\ preserve' = (helper = "failed")
  /\ shell' = "cleanup"
  /\ helper' = "none"
  /\ UNCHANGED <<locked, run, op, succeeded, gens, disk, records, mode, base, seen,
                 user>>

(* cleanup_generation (best effort), cleanup_transaction.                    *)
CleanUp ==
  /\ shell = "cleanup"
  /\ shell' = "unlock"
  /\ IF preserve
       THEN UNCHANGED <<gens, records>>
       ELSE /\ \/ gens' = gens
               \/ op = "install" /\ run \notin succeeded /\ gens' = gens \ {run}
            /\ backup' = [backup EXCEPT ![run] = NoFile]
            /\ manifest' = [manifest EXCEPT ![run] = "none"]
  /\ UNCHANGED <<locked, run, op, preserve, succeeded, disk, work, user>>

(* The locals of a process end with it.                                      *)
Forget ==
  /\ op' = "install" /\ preserve' = FALSE
  /\ mode' = "install" /\ base' = NoFile /\ seen' = NoFile

ReleaseLock ==
  /\ shell = "unlock"
  /\ locked' = FALSE
  /\ shell' = "idle"
  /\ Forget
  /\ UNCHANGED <<run, succeeded, gens, disk, records, helper, user>>

(* SIGKILL of the script alone: its helper goes on.                          *)
KillScript ==
  /\ shell \notin {"idle", "dead"}
  /\ shell' = "dead"
  /\ UNCHANGED <<locked, run, op, preserve, succeeded, gens, disk, records, work, user>>

(* The operator removes the lock directory of a killed run when none of its  *)
(* processes is alive, as the script's message asks.                         *)
OperatorUnlocks ==
  /\ shell = "dead" /\ helper \in {"none", "ok", "failed"}
  /\ locked' = FALSE
  /\ shell' = "idle"
  /\ helper' = "none"
  /\ Forget
  /\ UNCHANGED <<run, succeeded, gens, disk, records, user>>

-----------------------------------------------------------------------------
(* The helper: begin_transaction and rollback_transaction.                   *)
ContentOf(f) == [text |-> f.text, gen |-> f.gen]

(* What configure_install and configure_uninstall make of the original.      *)
Installed ==
  [text |-> IF base = NoFile THEN Blank ELSE base.text,
   gen  |-> IF op = "install" THEN run ELSE 0,
   by   |-> "install", run |-> run]
IsInstalled(f) ==
  IF op = "uninstall" /\ base = NoFile THEN f = NoFile
  ELSE f # NoFile /\ ContentOf(f) = ContentOf(Installed)

(* The replacement at work: what it writes and what it expects to displace.  *)
Original ==
  [text |-> backup[run].text, gen |-> backup[run].gen, by |-> "restore", run |-> run]
Written  == IF mode = "install" THEN Installed ELSE Original
Expected == IF mode = "install" THEN base ELSE seen

Goes(label) == helper' = label
(* A forced restore ends in the error it was made for.                       *)
Done == IF mode = "force" THEN "failed" ELSE "ok"
InHelper == UNCHANGED <<script, user, mode>>

(* A private name the helper leaves behind.                                  *)
Leftover == IF temp = NoFile THEN hidden ELSE hidden \cup {temp.text}

(* An exception out of the replacement.  begin reads the file again and      *)
(* takes its own change back, whoever it has to overwrite.                   *)
Raise(left) ==
  /\ temp' = NoFile /\ hidden' = left
  /\ helper' = IF mode = "install" THEN "onError" ELSE "failed"

Fail ==
  /\ Goes("failed")
  /\ UNCHANGED <<disk, records, base, seen>>

(* _begin_locked up to the first write: the lease (busy for ten seconds is   *)
(* an error), the snapshot, the edit of the document, the second look.       *)
BeginReads ==
  /\ helper = "read"
  /\ \/ Fail
     \/ /\ base' = config
        /\ Goes("prepare")
        /\ UNCHANGED <<disk, records, seen>>
  /\ InHelper

PrepareUpdate ==
  /\ helper = "prepare"
  /\ \/ Fail
     \/ /\ config = base
        /\ Goes(IF base = NoFile THEN "manifest" ELSE "backup")
        /\ UNCHANGED <<disk, records, base, seen>>
  /\ InHelper

(* The backup and the manifest are replacements too, of files nobody else    *)
(* touches: they may fail before or after they take effect.                  *)
Mut_SkipsBackup ==
  /\ helper = "backup"
  /\ Goes("manifest")
  /\ UNCHANGED <<disk, records, base, seen>> /\ InHelper
WriteBackup ==
  /\ helper = "backup"
  /\ \/ Fail
     \/ /\ backup' = [backup EXCEPT ![run] = ContentOf(base)]
        /\ helper' \in {"manifest", "failed"}
        /\ UNCHANGED <<disk, manifest, base, seen>>
  /\ InHelper

(* changed: a new registration always is one; the removal may find nothing   *)
(* to remove, and then still has to make the file private.                   *)
WriteManifest ==
  /\ helper = "manifest"
  /\ \/ Fail
     \/ /\ manifest' = [manifest EXCEPT ![run] =
                          IF base = NoFile THEN "created" ELSE "replaced"]
        /\ \/ Goes("failed")
           \/ ~(op = "uninstall" /\ base = NoFile) /\ Goes("recheck")
           \/ IsInstalled(base) /\ Goes("ok")
        /\ UNCHANGED <<disk, backup, base, seen>>
  /\ InHelper

RecheckOriginal ==
  /\ helper = "recheck"
  /\ Goes(IF config = base THEN "check" ELSE "failed")
  /\ UNCHANGED <<disk, records, base, seen>> /\ InHelper

(* The except clause of _begin_locked.                                       *)
OnError ==
  /\ helper = "onError"
  /\ IF config # NoFile /\ IsInstalled(config)
       THEN Goes("restoreRead") /\ mode' = "force"
       ELSE Goes("failed") /\ UNCHANGED mode
  /\ UNCHANGED <<disk, records, base, seen, script, user>>

(* _restore_original.                                                        *)
MayRestore == mode = "force" \/ IsInstalled(config)
RestoreReads ==
  /\ helper = "restoreRead"
  /\ \/ Fail
     \/ /\ MayRestore
        /\ seen' = config
        /\ Goes("restoreCheck")
        /\ UNCHANGED <<disk, records, base>>
  /\ InHelper

RestoreChecks ==
  /\ helper = "restoreCheck"
  /\ \/ Fail
     \/ /\ config = seen
        /\ \/ base # NoFile /\ backup[run] # NoFile /\ Goes("check")
           \/ base = NoFile /\ Goes(IF seen = NoFile THEN Done ELSE "quarantine")
        /\ UNCHANGED <<disk, records, base, seen>>
  /\ InHelper

-----------------------------------------------------------------------------
(* _atomic_write_posix.                                                      *)
Replacing == UNCHANGED <<records, base, seen, config>> /\ InHelper

CheckExpected ==
  /\ helper = "check"
  /\ IF config = Expected THEN Goes("write") /\ UNCHANGED <<temp, hidden>> ELSE Raise(hidden)
  /\ Replacing

WriteTemp ==
  /\ helper = "write"
  /\ \/ temp' = Written /\ Goes("publish") /\ UNCHANGED hidden
     \/ Raise(hidden)
  /\ Replacing

(* Exchange with the file, or link where there was none.                     *)
Publish ==
  /\ helper = "publish"
  /\ IF Expected # NoFile
       THEN /\ config # NoFile
            /\ config' = temp /\ temp' = config
            /\ Goes("audit")
       ELSE /\ config = NoFile
            /\ config' = temp
            /\ Goes("unlink")
            /\ UNCHANGED temp
  /\ UNCHANGED <<hidden, records, base, seen>> /\ InHelper

(* The file is gone or was created, or the filesystem cannot do it: the      *)
(* temporary file is discarded or, after any other error, stays.             *)
PublishFails ==
  /\ helper = "publish"
  /\ \/ Raise(Leftover)
     \/ (Expected # NoFile \/ config # NoFile) /\ Raise(hidden)
  /\ Replacing

Mut_UnlinksUnaudited ==
  /\ helper = "audit"
  /\ temp' = NoFile /\ Goes("sync") /\ UNCHANGED hidden
  /\ Replacing
AuditDisplaced ==
  /\ helper = "audit"
  /\ \/ temp = Expected /\ temp' = NoFile /\ Goes("sync") /\ UNCHANGED hidden
     \/ temp # Expected /\ Goes("recover") /\ UNCHANGED <<temp, hidden>>
     \/ Raise(Leftover)
  /\ Replacing

(* _recover_exchange: when the user has replaced our file too, both stay.    *)
RecoverConflict ==
  /\ helper = "recover"
  /\ \/ config = Written /\ Goes("unexchange") /\ UNCHANGED <<temp, hidden>>
     \/ Raise(Leftover)
  /\ Replacing

ExchangeBack ==
  /\ helper = "unexchange"
  /\ \/ /\ config # NoFile
        /\ config' = temp /\ temp' = config
        /\ Goes("reaudit")
        /\ UNCHANGED <<hidden, records, base, seen>> /\ InHelper
     \/ Raise(Leftover) /\ Replacing

AuditReturned ==
  /\ helper = "reaudit"
  /\ \/ temp = Written /\ Raise(hidden)
     \/ Raise(Leftover)
  /\ Replacing

UnlinkTemp ==
  /\ helper = "unlink"
  /\ \/ temp' = NoFile /\ Goes("sync") /\ UNCHANGED hidden
     \/ Raise(Leftover)
  /\ Replacing

SyncDirectory ==
  /\ helper = "sync"
  /\ \/ Goes(Done) /\ UNCHANGED <<temp, hidden>>
     \/ Raise(hidden)
  /\ Replacing

(* _delete_posix.                                                            *)
Quarantine ==
  /\ helper = "quarantine"
  /\ \/ /\ config # NoFile
        /\ temp' = config /\ config' = NoFile
        /\ Goes("auditDelete")
        /\ UNCHANGED <<hidden, records, base, seen>> /\ InHelper
     \/ Raise(hidden) /\ Replacing

AuditQuarantined ==
  /\ helper = "auditDelete"
  /\ \/ temp = seen /\ temp' = NoFile /\ Goes("sync") /\ UNCHANGED hidden
     \/ Goes("requarantine") /\ UNCHANGED <<temp, hidden>>
     \/ temp = seen /\ Raise(Leftover)
  /\ Replacing

RestoreQuarantine ==
  /\ helper = "requarantine"
  /\ \/ /\ config = NoFile
        /\ config' = temp /\ temp' = NoFile
        /\ Goes("failed")
        /\ UNCHANGED <<hidden, records, base, seen>> /\ InHelper
     \/ Raise(Leftover) /\ Replacing

-----------------------------------------------------------------------------
(* Ctrl-C reaches the helper of a begin, and only there: on_exit ignores it. *)
(* Inside the replacement it is one more exception; a temporary file whose   *)
(* snapshot was taken stays.                                                 *)
Interrupt ==
  /\ shell \in {"begin", "dead"} /\ mode \in {"install", "force"}
  /\ helper \notin {"none", "ok", "failed"}
  /\ IF helper \in Writing THEN Raise(Leftover)
                           ELSE /\ Goes("failed") /\ temp' = NoFile /\ hidden' = Leftover
  /\ UNCHANGED <<config, records, base, seen>> /\ InHelper

KillHelper ==
  /\ helper \notin {"none", "ok", "failed"}
  /\ Goes("failed")
  /\ temp' = NoFile /\ hidden' = Leftover
  /\ UNCHANGED <<config, records, base, seen>> /\ InHelper

-----------------------------------------------------------------------------
(* The user, whose editor reads and saves at once, keeping the registration. *)
Replaced == IF config = NoFile THEN {} ELSE {config.text}

UserSaves(e) ==
  /\ e \notin used
  /\ config' = [text |-> e, gen |-> Registered, by |-> "user", run |-> 0]
  /\ used' = used \cup {e}
  /\ owed' = (owed \ Replaced) \cup {e}
  /\ blind' = IF mode = "force" /\ helper = "restoreRead" THEN blind \cup {e} ELSE blind
  /\ UNCHANGED <<temp, hidden, records, script, work>>

UserDeletes ==
  /\ config # NoFile
  /\ config' = NoFile
  /\ owed' = owed \ Replaced
  /\ UNCHANGED <<temp, hidden, records, script, work, used, blind>>

-----------------------------------------------------------------------------
Script ==
  \/ StartScript \/ MakeGeneration \/ StartHelper \/ BeginSucceeded \/ Verify
  \/ PruneGenerations \/ ScriptFails \/ StartRollback \/ RollbackEnded \/ CleanUp
  \/ ReleaseLock \/ KillScript \/ OperatorUnlocks

Begin == BeginReads \/ PrepareUpdate \/ WriteBackup \/ WriteManifest \/ RecheckOriginal \/ OnError
Restore == RestoreReads \/ RestoreChecks
AtomicWrite ==
  \/ CheckExpected \/ WriteTemp \/ Publish \/ PublishFails \/ AuditDisplaced
  \/ RecoverConflict \/ ExchangeBack \/ AuditReturned \/ UnlinkTemp \/ SyncDirectory
Delete == Quarantine \/ AuditQuarantined \/ RestoreQuarantine

Next ==
  \/ Script \/ Begin \/ Restore \/ AtomicWrite \/ Delete \/ Interrupt \/ KillHelper
  \/ \E e \in Edits : UserSaves(e)
  \/ UserDeletes

Spec == Init /\ [][Next]_vars

-----------------------------------------------------------------------------
TypeOK ==
  /\ config \in File \cup {NoFile} /\ temp \in File \cup {NoFile}
  /\ hidden \subseteq Text
  /\ backup \in [Run -> Content \cup {NoFile}]
  /\ manifest \in [Run -> {"none", "created", "replaced"}]
  /\ gens \subseteq Run /\ locked \in BOOLEAN
  /\ run \in 0 .. MaxRuns /\ op \in {"install", "uninstall"}
  /\ shell \in {"idle", "setup", "build", "begin", "verify", "prune", "exit",
                "rollback", "cleanup", "unlock", "dead"}
  /\ shell # "idle" => run \in Run
  /\ preserve \in BOOLEAN /\ succeeded \subseteq Run
  /\ helper \in HelperLabels /\ mode \in {"install", "force", "rollback"}
  /\ base \in File \cup {NoFile} /\ seen \in File \cup {NoFile}
  /\ used \subseteq Edits /\ owed \subseteq Text /\ blind \subseteq Edits

Stored ==
  hidden \cup {f.text : f \in ({config, temp} \cup {backup[t] : t \in Run}) \ {NoFile}}

(* Whatever the script, its helper and their failures do at whatever moment, *)
(* each text the user saved and did not replace himself is in config.toml,   *)
(* under a private name beside it, or in a backup; the window of the         *)
(* helper's forced restore is left out here.                                 *)
NoEditLost == owed \ blind \subseteq Stored

(* "refusing to overwrite newer edits": the same without that exception.     *)
NewerEditsSurvive == owed \subseteq Stored

(* Codex can always start what config.toml registers: no clean-up, pruning,  *)
(* rollback or edit leaves it naming a generation that is gone.              *)
RegisteredGenerationExists == Registered # 0 => Registered \in gens

(* As long as the change of a run that did not succeed is in config.toml,    *)
(* the run's manifest and its backup of the original are there to take it    *)
(* back with, also after kills and failed rollbacks.                         *)
ChangedBy(t) ==
  /\ config # NoFile
  /\ config.gen = t \/ (config.by = "install" /\ config.run = t)
RecoveryIsKept ==
  \A t \in Run \ succeeded : ChangedBy(t) =>
    /\ manifest[t] # "none"
    /\ manifest[t] = "replaced" => backup[t] # NoFile
=============================================================================
