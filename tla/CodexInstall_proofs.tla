------------------------ MODULE CodexInstall_proofs -------------------------
(***************************************************************************)
(* Proofs about CodexInstall, for any number of runs and of user edits.     *)
(*                                                                          *)
(* The invariant says of each file on the way (config, temp, base, seen)    *)
(* that what it registers is on disk and that a run which has not succeeded *)
(* and shows in it still has its records (Sound).  It is inductive only     *)
(* together with where the script and the helper are (PhaseInv), what a run *)
(* may have left (RunInv, BaseInv) and what a finished replacement has      *)
(* removed (DoneInv).  EditInv says where each text of the user may be.     *)
(***************************************************************************)
EXTENDS CodexInstall, TLAPS

(* The helper is at work; the run at work has not come to an end.            *)
Alive == helper \notin {"none", "ok", "failed"}
Before == {"setup", "build", "begin", "verify", "exit", "rollback"}
Active == shell \in Before \/ Alive
BeginLabels == {"read", "prepare", "backup", "manifest", "recheck", "onError"}
RestoreLabels == {"restoreRead", "restoreCheck", "quarantine", "auditDelete", "requarantine"}

Holding == {"publish", "audit", "recover", "unexchange", "reaudit", "unlink",
            "auditDelete", "requarantine"}

(* The file shows that run t wrote it; the records to take that back exist.  *)
(* The file shows that run t wrote it; the records to take that back exist.  *)
Carries(f, t) == f # NoFile /\ (f.gen = t \/ (f.by = "install" /\ f.run = t))
KeptFor(t) == manifest[t] # "none" /\ (manifest[t] = "replaced" => backup[t] # NoFile)
Sound(f) ==
  f # NoFile =>
    /\ f.gen \in gens \cup {0}
    /\ \A t \in Run \ succeeded : Carries(f, t) => KeptFor(t)

(* Where helper and private name may be, for each place of the script.       *)
PhaseInv ==
  /\ helper # "none" => shell \in {"begin", "rollback", "dead"}
  /\ shell = "begin" => mode # "rollback"
  /\ shell = "rollback" => mode = "rollback"
  /\ helper \in BeginLabels => mode = "install"
  /\ helper \in RestoreLabels => mode # "install"
  /\ mode = "force" => helper # "ok"
  /\ temp # NoFile => helper \in Holding
  /\ helper = "backup" => base # NoFile
  /\ shell = "idle" => base = NoFile /\ seen = NoFile
  /\ helper \in {"publish", "unlink"} => temp = Written

(* Runs to come have left nothing; the run at work has not succeeded and its *)
(* Runs to come have left nothing; the run at work has not succeeded and its *)
(* generation exists.                                                        *)
RunInv ==
  /\ \A t \in Run : t > run =>
       /\ t \notin gens /\ t \notin succeeded
       /\ manifest[t] = "none" /\ backup[t] = NoFile
       /\ ~Carries(config, t)
  /\ Active => run \notin succeeded
  /\ shell \in {"build", "begin", "verify"} \/ (Alive /\ mode = "install") =>
       (op = "install" => run \in gens)
  /\ shell = "prune" => run \in succeeded /\ run \in gens /\ Registered \in {0, run}

(* What the run at work knows of the original and has recorded of it.        *)
BaseInv ==
  Active =>
    /\ Sound(base) /\ Sound(seen)
    /\ ~Carries(base, run)
    /\ shell \in {"setup", "build"} \/ helper \in {"read", "prepare"} =>
         backup[run] = NoFile /\ manifest[run] = "none"
    /\ helper = "backup" => manifest[run] = "none"
    /\ backup[run] # NoFile => base # NoFile /\ backup[run] = ContentOf(base)
    /\ manifest[run] = "replaced" => backup[run] # NoFile
    /\ helper = "manifest" /\ base # NoFile => backup[run] # NoFile
    /\ Alive /\ helper \notin {"read", "prepare", "backup", "manifest"} => manifest[run] # "none"
    /\ helper \in Writing /\ mode # "install" => backup[run] # NoFile \/ helper = "sync"

(* After a restore, and before a clean-up that deletes the records, nothing  *)
(* After a restore, and before a clean-up that deletes the records, nothing  *)
(* of an unsuccessful run is left in config.toml.                            *)
DoneInv ==
  /\ mode # "install" /\ helper \in {"audit", "sync", "unlink", "auditDelete"}
       => ~Carries(config, run)
  /\ mode = "rollback" /\ helper = "ok" => ~Carries(config, run)
  /\ shell = "cleanup" /\ ~preserve /\ run \notin succeeded => ~Carries(config, run)

SoundInv == Sound(config) /\ Sound(temp)

InstallInv == TypeOK /\ PhaseInv /\ RunInv /\ BaseInv /\ DoneInv /\ SoundInv

(* The text is somewhere else than under the private name and in the backup  *)
(* of the run at work.                                                       *)
KeptElsewhere(e) ==
  \/ e \in hidden
  \/ config # NoFile /\ config.text = e
  \/ \E t \in Run \ {run} : backup[t] # NoFile /\ backup[t].text = e

(* Where the private name holds what was displaced.                          *)
Displacing == {"audit", "recover", "unexchange", "reaudit", "auditDelete", "requarantine"}
BaseText == IF base = NoFile THEN Blank ELSE base.text
Owed == owed \ blind

(* No owed text depends on the backup, nor on the private name before it     *)
(* holds what was displaced.                                                 *)
OwedInv ==
  /\ owed \subseteq used \cup {First}
  /\ \A e \in Owed : KeptElsewhere(e) \/ (helper \in Displacing /\ temp # NoFile /\ temp.text = e)

(* The original's text, which the replacement carries, is never in the       *)
(* replacement alone.                                                        *)
OriginalInv ==
  /\ helper \in {"audit", "recover", "unexchange"} => temp # NoFile
  /\ base # NoFile /\ base.text \in Owed =>
       /\ KeptElsewhere(base.text)
       /\ helper \in {"audit", "recover", "unexchange"} =>
            \/ temp.text = base.text
            \/ base.text \in hidden
            \/ \E t \in Run \ {run} : backup[t] # NoFile /\ backup[t].text = base.text

(* What a restore may displace and drop: the original's text, or one saved   *)
(* in the window of a forced restore.                                        *)
Droppable(f) == f = NoFile \/ f.text \in blind \cup {BaseText}
SeenInv ==
  /\ mode = "force" /\ helper = "restoreRead" => Droppable(config)
  /\ mode # "install" /\ Alive /\ helper # "restoreRead" => Droppable(seen)
  /\ helper \in {"quarantine", "auditDelete", "requarantine"} => base = NoFile

(* The user's texts in files are those he has saved.                         *)
TextInv ==
  \A f \in {config, temp, base} : f # NoFile => f.text \in used \cup {First, Blank}

EditInv == OwedInv /\ OriginalInv /\ SeenInv /\ TextInv

-----------------------------------------------------------------------------
(* What the helper writes is a file.                                        *)
LEMMA WrittenTyped ==
  ASSUME TypeOK, run \in Run, mode = "install" \/ backup[run] # NoFile
  PROVE  Written \in File
BY CodexInstallAssumption
   DEF CodexInstallAssumption, TypeOK, Written, Installed, Original, File, Content, Text, Gen, Run

(* Types. *)
LEMMA TypeStep == InstallInv /\ [Next]_vars => TypeOK'
<1> SUFFICES ASSUME InstallInv, [Next]_vars PROVE TypeOK'
  OBVIOUS
<1> USE CodexInstallAssumption DEF vars, disk, records, script, work, user, InHelper,
   Replacing, Goes, Raise, Fail, Forget, Done, InstallInv, TypeOK, HelperLabels,
   CodexInstallAssumption
<1>1. CASE Script
  <2>1. CASE StartScript
    BY <2>1 DEF StartScript, Run
  <2>2. CASE MakeGeneration
    BY <2>2 DEF MakeGeneration, Run
  <2>3. CASE StartHelper
    BY <2>3 DEF StartHelper
  <2>4. CASE BeginSucceeded
    BY <2>4 DEF BeginSucceeded
  <2>5. CASE Verify
    BY <2>5 DEF Verify
  <2>6. CASE PruneGenerations
    BY <2>6 DEF PruneGenerations
  <2>7. CASE ScriptFails
    BY <2>7 DEF ScriptFails
  <2>8. CASE StartRollback
    BY <2>8 DEF StartRollback
  <2>9. CASE RollbackEnded
    BY <2>9 DEF RollbackEnded
  <2>10. CASE CleanUp
    <3>1. run \in Run
      BY <2>10 DEF CleanUp
    <3>2. backup' \in [Run -> Content \cup {NoFile}]
      <4>1. [backup EXCEPT ![run] = NoFile] \in [Run -> Content \cup {NoFile}]
        BY <3>1
      <4> QED
        BY <2>10, <4>1 DEF CleanUp
    <3>3. manifest' \in [Run -> {"none", "created", "replaced"}]
      <4>1. [manifest EXCEPT ![run] = "none"] \in [Run -> {"none", "created", "replaced"}]
        BY <3>1
      <4> QED
        BY <2>10, <4>1 DEF CleanUp
    <3>4. gens' \subseteq Run
      BY <2>10 DEF CleanUp
    <3> QED
      BY <2>10, <3>1, <3>2, <3>3, <3>4 DEF CleanUp
  <2>11. CASE ReleaseLock
    BY <2>11 DEF ReleaseLock
  <2>12. CASE KillScript
    BY <2>12 DEF KillScript
  <2>13. CASE OperatorUnlocks
    BY <2>13 DEF OperatorUnlocks
  <2> QED
    BY <1>1, <2>1, <2>2, <2>3, <2>4, <2>5, <2>6, <2>7, <2>8, <2>9, <2>10, <2>11, <2>12,
       <2>13 DEF Script
<1>2. CASE Begin
  <2>1. CASE BeginReads
    BY <2>1 DEF BeginReads
  <2>2. CASE PrepareUpdate
    BY <2>2 DEF PrepareUpdate
  <2>3. CASE WriteBackup
    <3>1. run \in Run
      BY <2>3 DEF WriteBackup, PhaseInv
    <3>2. ContentOf(base) \in Content
      BY <2>3 DEF WriteBackup, PhaseInv, ContentOf, Content, File
    <3> QED
      BY <2>3, <3>1, <3>2 DEF WriteBackup
  <2>4. CASE WriteManifest
    BY <2>4 DEF WriteManifest
  <2>5. CASE RecheckOriginal
    BY <2>5 DEF RecheckOriginal
  <2>6. CASE OnError
    BY <2>6 DEF OnError
  <2> QED
    BY <1>2, <2>1, <2>2, <2>3, <2>4, <2>5, <2>6 DEF Begin
<1>3. CASE Restore
  BY <1>3 DEF Restore, RestoreReads, RestoreChecks
<1>4. CASE AtomicWrite
  <2>1. CASE CheckExpected
    BY <2>1 DEF CheckExpected
  <2>2. CASE WriteTemp
    <3>1. Written \in File
      BY <2>2, WrittenTyped DEF WriteTemp, PhaseInv, BaseInv, Active, Alive, Writing
    <3> QED
      BY <2>2, <3>1 DEF WriteTemp
  <2>3. CASE Publish
    BY <2>3 DEF Publish
  <2>4. CASE PublishFails
    BY <2>4 DEF PublishFails, Leftover, File
  <2>5. CASE AuditDisplaced
    BY <2>5 DEF AuditDisplaced, Leftover, File
  <2>6. CASE RecoverConflict
    BY <2>6 DEF RecoverConflict, Leftover, File
  <2>7. CASE ExchangeBack
    BY <2>7 DEF ExchangeBack, Leftover, File
  <2>8. CASE AuditReturned
    BY <2>8 DEF AuditReturned, Leftover, File
  <2>9. CASE UnlinkTemp
    BY <2>9 DEF UnlinkTemp, Leftover, File
  <2>10. CASE SyncDirectory
    BY <2>10 DEF SyncDirectory
  <2> QED
    BY <1>4, <2>1, <2>2, <2>3, <2>4, <2>5, <2>6, <2>7, <2>8, <2>9, <2>10 DEF AtomicWrite
<1>5. CASE Delete
  <2>1. CASE Quarantine
    BY <2>1 DEF Quarantine, Leftover, File
  <2>2. CASE AuditQuarantined
    BY <2>2 DEF AuditQuarantined, Leftover, File
  <2>3. CASE RestoreQuarantine
    BY <2>3 DEF RestoreQuarantine, Leftover, File
  <2> QED
    BY <1>5, <2>1, <2>2, <2>3 DEF Delete
<1>6. CASE Interrupt
  BY <1>6 DEF Interrupt, Leftover, File, Writing
<1>7. CASE KillHelper
  BY <1>7 DEF KillHelper, Leftover, File
<1>8. CASE UserDeletes
  BY <1>8 DEF UserDeletes, Replaced
<1>9. ASSUME NEW e \in Edits, UserSaves(e) PROVE TypeOK'
  BY <1>9 DEF UserSaves, Registered, Replaced, File, Gen, Text, Run
<1>10. CASE UNCHANGED vars
  BY <1>10
<1> QED
  BY <1>1, <1>2, <1>3, <1>4, <1>5, <1>6, <1>7, <1>8, <1>9, <1>10 DEF Next

(* Where the script, its helper and the private name may be.                  *)
LEMMA PhaseStep == InstallInv /\ [Next]_vars => PhaseInv'
<1> SUFFICES ASSUME InstallInv, [Next]_vars PROVE PhaseInv'
  OBVIOUS
<1> USE DEF vars, disk, records, script, work, user, InHelper, Replacing, Goes, Raise,
   Fail, Forget, Done, InstallInv, PhaseInv, BeginLabels, RestoreLabels, Holding, Writing,
   Written, Installed,
           Original
<1>1. CASE Script
  BY <1>1 DEF Script, StartScript, MakeGeneration, StartHelper, BeginSucceeded, Verify,
     PruneGenerations, ScriptFails, StartRollback, RollbackEnded, CleanUp, ReleaseLock,
     KillScript, OperatorUnlocks
<1>2. CASE Begin
  BY <1>2 DEF Begin, BeginReads, PrepareUpdate, WriteBackup, WriteManifest,
     RecheckOriginal, OnError
<1>3. CASE Restore
  BY <1>3 DEF Restore, RestoreReads, RestoreChecks
<1>4. CASE AtomicWrite
  BY <1>4 DEF AtomicWrite, CheckExpected, WriteTemp, Publish, PublishFails,
     AuditDisplaced, RecoverConflict, ExchangeBack, AuditReturned, UnlinkTemp,
     SyncDirectory
<1>5. CASE Delete
  BY <1>5 DEF Delete, Quarantine, AuditQuarantined, RestoreQuarantine
<1>6. CASE Interrupt
  BY <1>6 DEF Interrupt
<1>7. CASE KillHelper
  BY <1>7 DEF KillHelper
<1>8. CASE UserDeletes
  BY <1>8 DEF UserDeletes
<1>9. ASSUME NEW e \in Edits, UserSaves(e) PROVE PhaseInv'
  BY <1>9 DEF UserSaves
<1>10. CASE UNCHANGED vars
  BY <1>10
<1> QED
  BY <1>1, <1>2, <1>3, <1>4, <1>5, <1>6, <1>7, <1>8, <1>9, <1>10 DEF Next

(* Runs to come have left no trace, the run at work has not succeeded.        *)
LEMMA RunStep == InstallInv /\ [Next]_vars => RunInv'
<1> SUFFICES ASSUME InstallInv, [Next]_vars PROVE RunInv'
  OBVIOUS
<1> USE CodexInstallAssumption DEF vars, disk, records, script, work, user, InHelper,
   Replacing, Goes, Raise, Fail, Forget, Done, InstallInv, TypeOK, PhaseInv, RunInv,
   SoundInv, Active, Alive, Before, BeginLabels,
           RestoreLabels, Holding, Writing, Carries, Sound, KeptFor, Registered, Run, Gen
<1>1. CASE Script
  <2>1. CASE StartScript
    BY <2>1 DEF StartScript
  <2>2. CASE MakeGeneration
    BY <2>2 DEF MakeGeneration
  <2>3. CASE StartHelper
    BY <2>3 DEF StartHelper
  <2>4. CASE BeginSucceeded
    BY <2>4 DEF BeginSucceeded
  <2>5. CASE Verify
    BY <2>5 DEF Verify, Verified
  <2>6. CASE PruneGenerations
    BY <2>6 DEF PruneGenerations, Kept
  <2>7. CASE ScriptFails
    BY <2>7 DEF ScriptFails
  <2>8. CASE StartRollback
    BY <2>8 DEF StartRollback
  <2>9. CASE RollbackEnded
    BY <2>9 DEF RollbackEnded
  <2>10. CASE CleanUp
    BY <2>10 DEF CleanUp
  <2>11. CASE ReleaseLock
    BY <2>11 DEF ReleaseLock
  <2>12. CASE KillScript
    BY <2>12 DEF KillScript
  <2>13. CASE OperatorUnlocks
    BY <2>13 DEF OperatorUnlocks
  <2> QED
    BY <1>1, <2>1, <2>2, <2>3, <2>4, <2>5, <2>6, <2>7, <2>8, <2>9, <2>10, <2>11, <2>12,
       <2>13 DEF Script
<1>2. CASE Begin
  <2>1. CASE BeginReads
    BY <2>1 DEF BeginReads
  <2>2. CASE PrepareUpdate
    BY <2>2 DEF PrepareUpdate
  <2>3. CASE WriteBackup
    BY <2>3 DEF WriteBackup
  <2>4. CASE WriteManifest
    BY <2>4 DEF WriteManifest
  <2>5. CASE RecheckOriginal
    BY <2>5 DEF RecheckOriginal
  <2>6. CASE OnError
    BY <2>6 DEF OnError
  <2> QED
    BY <1>2, <2>1, <2>2, <2>3, <2>4, <2>5, <2>6 DEF Begin
<1>3. CASE Restore
  BY <1>3 DEF Restore, RestoreReads, RestoreChecks
<1>4. CASE AtomicWrite
  <2>1. CASE CheckExpected
    BY <2>1 DEF CheckExpected
  <2>2. CASE WriteTemp
    BY <2>2 DEF WriteTemp
  <2>3. CASE Publish
    BY <2>3 DEF Publish
  <2>4. CASE PublishFails
    BY <2>4 DEF PublishFails
  <2>5. CASE AuditDisplaced
    BY <2>5 DEF AuditDisplaced
  <2>6. CASE RecoverConflict
    BY <2>6 DEF RecoverConflict
  <2>7. CASE ExchangeBack
    BY <2>7 DEF ExchangeBack
  <2>8. CASE AuditReturned
    BY <2>8 DEF AuditReturned
  <2>9. CASE UnlinkTemp
    BY <2>9 DEF UnlinkTemp
  <2>10. CASE SyncDirectory
    BY <2>10 DEF SyncDirectory
  <2> QED
    BY <1>4, <2>1, <2>2, <2>3, <2>4, <2>5, <2>6, <2>7, <2>8, <2>9, <2>10 DEF AtomicWrite
<1>5. CASE Delete
  BY <1>5 DEF Delete, Quarantine, AuditQuarantined, RestoreQuarantine
<1>6. CASE Interrupt
  BY <1>6 DEF Interrupt
<1>7. CASE KillHelper
  BY <1>7 DEF KillHelper
<1>8. CASE UserDeletes
  BY <1>8 DEF UserDeletes
<1>9. ASSUME NEW e \in Edits, UserSaves(e) PROVE RunInv'
  BY <1>9 DEF UserSaves
<1>10. CASE UNCHANGED vars
  BY <1>10
<1> QED
  BY <1>1, <1>2, <1>3, <1>4, <1>5, <1>6, <1>7, <1>8, <1>9, <1>10 DEF Next

(* Only pruning and clean-up take away what a file may need.                  *)
LEMMA SoundKept ==
  ASSUME InstallInv, [Next]_vars, ~PruneGenerations, ~CleanUp
  PROVE  \A f : Sound(f) => Sound(f)'
<1> SUFFICES ASSUME NEW f, Sound(f) PROVE Sound(f)'
  OBVIOUS
<1> USE CodexInstallAssumption DEF vars, disk, records, script, work, user, InHelper,
   Replacing, Goes, Raise, Fail, Forget, Done, InstallInv, TypeOK, PhaseInv, RunInv,
   BaseInv, Sound, KeptFor, Active, Alive, Before
<1>1. CASE WriteBackup
  BY <1>1 DEF WriteBackup, ContentOf, Content, Text, File, Gen, Run
<1>2. CASE WriteManifest
  BY <1>2 DEF WriteManifest
<1>3. CASE Script
  BY <1>3 DEF Script, StartScript, MakeGeneration, StartHelper, BeginSucceeded, Verify,
     PruneGenerations, ScriptFails, StartRollback, RollbackEnded, CleanUp, ReleaseLock,
     KillScript, OperatorUnlocks, Carries
<1>4. ASSUME Next, ~WriteBackup, ~WriteManifest, ~Script PROVE UNCHANGED <<gens,
   succeeded, manifest, backup>>
  <2>1. CASE Begin
    BY <1>4, <2>1 DEF Begin, BeginReads, PrepareUpdate, WriteBackup, WriteManifest,
       RecheckOriginal, OnError
  <2>2. CASE Restore \/ Delete
    BY <2>2 DEF Restore, Delete, RestoreReads, RestoreChecks, Quarantine,
       AuditQuarantined, RestoreQuarantine
  <2>3. CASE AtomicWrite
    BY <2>3 DEF AtomicWrite, CheckExpected, WriteTemp, Publish, PublishFails,
       AuditDisplaced, RecoverConflict, ExchangeBack, AuditReturned, UnlinkTemp,
       SyncDirectory
  <2>4. CASE Interrupt \/ KillHelper \/ UserDeletes
    BY <2>4 DEF Interrupt, KillHelper, UserDeletes
  <2>5. ASSUME NEW e \in Edits, UserSaves(e) PROVE UNCHANGED <<gens, succeeded,
     manifest, backup>>
    BY <2>5 DEF UserSaves
  <2> QED
    BY <1>4, <2>1, <2>2, <2>3, <2>4, <2>5 DEF Next
<1>5. CASE UNCHANGED <<gens, succeeded, manifest, backup>>
  BY <1>5 DEF Carries
<1> QED
  BY <1>1, <1>2, <1>3, <1>4, <1>5

(* The snapshots of the helper and the records it works from.               *)
LEMMA BaseStep == InstallInv /\ [Next]_vars => BaseInv'
<1> SUFFICES ASSUME InstallInv, [Next]_vars PROVE BaseInv'
  OBVIOUS
<1> USE CodexInstallAssumption, SoundKept DEF vars, disk, records, script, work, user,
   InHelper, Replacing, Goes, Raise, Fail, Forget, Done, InstallInv, TypeOK, PhaseInv,
   RunInv, BaseInv, DoneInv, SoundInv, Active, Alive, Before, BeginLabels,
           RestoreLabels, Holding, Writing, Carries, Sound, KeptFor, Registered, Run,
              Gen, File, Content, ContentOf
<1>1. CASE Script
  <2>1. CASE StartScript
    BY <2>1 DEF StartScript
  <2>2. CASE MakeGeneration
    BY <2>2 DEF MakeGeneration
  <2>3. CASE StartHelper
    BY <2>3 DEF StartHelper
  <2>4. CASE BeginSucceeded
    BY <2>4 DEF BeginSucceeded
  <2>5. CASE Verify
    BY <2>5 DEF Verify, Verified
  <2>6. CASE PruneGenerations
    BY <2>6 DEF PruneGenerations
  <2>7. CASE ScriptFails
    BY <2>7 DEF ScriptFails
  <2>8. CASE StartRollback
    BY <2>8 DEF StartRollback
  <2>9. CASE RollbackEnded
    BY <2>9 DEF RollbackEnded
  <2>10. CASE CleanUp
    BY <2>10 DEF CleanUp
  <2>11. CASE ReleaseLock
    BY <2>11 DEF ReleaseLock
  <2>12. CASE KillScript
    BY <2>12 DEF KillScript
  <2>13. CASE OperatorUnlocks
    BY <2>13 DEF OperatorUnlocks
  <2> QED
    BY <1>1, <2>1, <2>2, <2>3, <2>4, <2>5, <2>6, <2>7, <2>8, <2>9, <2>10, <2>11, <2>12,
       <2>13 DEF Script
<1>2. CASE Begin
  <2>1. CASE BeginReads
    BY <2>1 DEF BeginReads
  <2>2. CASE PrepareUpdate
    BY <2>2 DEF PrepareUpdate
  <2>3. CASE WriteBackup
    BY <2>3 DEF WriteBackup
  <2>4. CASE WriteManifest
    BY <2>4 DEF WriteManifest
  <2>5. CASE RecheckOriginal
    BY <2>5 DEF RecheckOriginal
  <2>6. CASE OnError
    BY <2>6 DEF OnError
  <2> QED
    BY <1>2, <2>1, <2>2, <2>3, <2>4, <2>5, <2>6 DEF Begin
<1>3. CASE Restore
  <2>1. CASE RestoreReads
    <3>1. Sound(base) /\ Sound(config) /\ Sound(seen)
      BY <2>1 DEF RestoreReads
    <3>2. /\ UNCHANGED <<gens, succeeded, manifest, backup, base, run, shell, config, op, mode>>
          /\ seen' \in {seen, config}
      BY <2>1 DEF RestoreReads
    <3>3. Sound(base)' /\ Sound(seen)'
      BY <3>1, <3>2
    <3>4. ~Carries(base, run)' /\ helper' \in {"failed", "restoreCheck"}
      BY <2>1, <3>2 DEF RestoreReads
    <3> QED
      BY <2>1, <3>2, <3>3, <3>4 DEF RestoreReads
  <2>2. CASE RestoreChecks
    BY <2>2 DEF RestoreChecks
  <2> QED
    BY <1>3, <2>1, <2>2 DEF Restore
<1>4. CASE AtomicWrite
  <2>1. CASE CheckExpected
    BY <2>1 DEF CheckExpected
  <2>2. CASE WriteTemp
    BY <2>2 DEF WriteTemp
  <2>3. CASE Publish
    BY <2>3 DEF Publish
  <2>4. CASE PublishFails
    BY <2>4 DEF PublishFails
  <2>5. CASE AuditDisplaced
    BY <2>5 DEF AuditDisplaced
  <2>6. CASE RecoverConflict
    BY <2>6 DEF RecoverConflict
  <2>7. CASE ExchangeBack
    BY <2>7 DEF ExchangeBack
  <2>8. CASE AuditReturned
    BY <2>8 DEF AuditReturned
  <2>9. CASE UnlinkTemp
    BY <2>9 DEF UnlinkTemp
  <2>10. CASE SyncDirectory
    BY <2>10 DEF SyncDirectory
  <2> QED
    BY <1>4, <2>1, <2>2, <2>3, <2>4, <2>5, <2>6, <2>7, <2>8, <2>9, <2>10 DEF AtomicWrite
<1>5. CASE Delete
  <2>1. CASE Quarantine
    BY <2>1 DEF Quarantine
  <2>2. CASE AuditQuarantined
    BY <2>2 DEF AuditQuarantined
  <2>3. CASE RestoreQuarantine
    BY <2>3 DEF RestoreQuarantine
  <2> QED
    BY <1>5, <2>1, <2>2, <2>3 DEF Delete
<1>6. CASE Interrupt
  BY <1>6 DEF Interrupt
<1>7. CASE KillHelper
  BY <1>7 DEF KillHelper
<1>8. CASE UserDeletes
  BY <1>8 DEF UserDeletes
<1>9. ASSUME NEW e \in Edits, UserSaves(e) PROVE BaseInv'
  BY <1>9 DEF UserSaves
<1>10. CASE UNCHANGED vars
  BY <1>10
<1> QED
  BY <1>1, <1>2, <1>3, <1>4, <1>5, <1>6, <1>7, <1>8, <1>9, <1>10 DEF Next

(* A replacement that has taken place leaves nothing of the run.            *)
LEMMA DoneStep == InstallInv /\ [Next]_vars => DoneInv'
<1> SUFFICES ASSUME InstallInv, [Next]_vars PROVE DoneInv'
  OBVIOUS
<1> USE CodexInstallAssumption DEF vars, disk, records, script, work, user, InHelper,
   Replacing, Goes, Raise, Fail, Forget, Done, InstallInv, TypeOK, PhaseInv, RunInv,
   BaseInv, DoneInv, SoundInv, Active, Alive, Before, BeginLabels,
           RestoreLabels, Holding, Writing, Carries, Sound, KeptFor, Registered, Run,
              Gen, File, Content, ContentOf
<1>1. CASE Script
  <2>1. CASE StartScript
    BY <2>1 DEF StartScript
  <2>2. CASE MakeGeneration
    BY <2>2 DEF MakeGeneration
  <2>3. CASE StartHelper
    BY <2>3 DEF StartHelper
  <2>4. CASE BeginSucceeded
    BY <2>4 DEF BeginSucceeded
  <2>5. CASE Verify
    BY <2>5 DEF Verify, Verified
  <2>6. CASE PruneGenerations
    BY <2>6 DEF PruneGenerations
  <2>7. CASE ScriptFails
    BY <2>7 DEF ScriptFails
  <2>8. CASE StartRollback
    BY <2>8 DEF StartRollback
  <2>9. CASE RollbackEnded
    BY <2>9 DEF RollbackEnded
  <2>10. CASE CleanUp
    BY <2>10 DEF CleanUp
  <2>11. CASE ReleaseLock
    BY <2>11 DEF ReleaseLock
  <2>12. CASE KillScript
    BY <2>12 DEF KillScript
  <2>13. CASE OperatorUnlocks
    BY <2>13 DEF OperatorUnlocks
  <2> QED
    BY <1>1, <2>1, <2>2, <2>3, <2>4, <2>5, <2>6, <2>7, <2>8, <2>9, <2>10, <2>11, <2>12,
       <2>13 DEF Script
<1>2. CASE Begin
  <2>1. CASE BeginReads
    BY <2>1 DEF BeginReads
  <2>2. CASE PrepareUpdate
    BY <2>2 DEF PrepareUpdate
  <2>3. CASE WriteBackup
    BY <2>3 DEF WriteBackup
  <2>4. CASE WriteManifest
    BY <2>4 DEF WriteManifest
  <2>5. CASE RecheckOriginal
    BY <2>5 DEF RecheckOriginal
  <2>6. CASE OnError
    BY <2>6 DEF OnError
  <2> QED
    BY <1>2, <2>1, <2>2, <2>3, <2>4, <2>5, <2>6 DEF Begin
<1>3. CASE Restore
  <2>1. CASE RestoreReads
    BY <2>1 DEF RestoreReads
  <2>2. CASE RestoreChecks
    BY <2>2 DEF RestoreChecks
  <2> QED
    BY <1>3, <2>1, <2>2 DEF Restore
<1>4. CASE AtomicWrite
  <2>1. CASE CheckExpected
    BY <2>1 DEF CheckExpected
  <2>2. CASE WriteTemp
    BY <2>2 DEF WriteTemp
  <2>3. CASE Publish
    BY <2>3 DEF Publish, Written, Original
  <2>4. CASE PublishFails
    BY <2>4 DEF PublishFails
  <2>5. CASE AuditDisplaced
    BY <2>5 DEF AuditDisplaced
  <2>6. CASE RecoverConflict
    BY <2>6 DEF RecoverConflict
  <2>7. CASE ExchangeBack
    BY <2>7 DEF ExchangeBack
  <2>8. CASE AuditReturned
    BY <2>8 DEF AuditReturned
  <2>9. CASE UnlinkTemp
    BY <2>9 DEF UnlinkTemp
  <2>10. CASE SyncDirectory
    BY <2>10 DEF SyncDirectory
  <2> QED
    BY <1>4, <2>1, <2>2, <2>3, <2>4, <2>5, <2>6, <2>7, <2>8, <2>9, <2>10 DEF AtomicWrite
<1>5. CASE Delete
  <2>1. CASE Quarantine
    BY <2>1 DEF Quarantine
  <2>2. CASE AuditQuarantined
    BY <2>2 DEF AuditQuarantined
  <2>3. CASE RestoreQuarantine
    BY <2>3 DEF RestoreQuarantine
  <2> QED
    BY <1>5, <2>1, <2>2, <2>3 DEF Delete
<1>6. CASE Interrupt
  BY <1>6 DEF Interrupt
<1>7. CASE KillHelper
  BY <1>7 DEF KillHelper
<1>8. CASE UserDeletes
  BY <1>8 DEF UserDeletes
<1>9. ASSUME NEW e \in Edits, UserSaves(e) PROVE DoneInv'
  BY <1>9 DEF UserSaves
<1>10. CASE UNCHANGED vars
  BY <1>10
<1> QED
  BY <1>1, <1>2, <1>3, <1>4, <1>5, <1>6, <1>7, <1>8, <1>9, <1>10 DEF Next

(* What is in config.toml and under the private name.                       *)
LEMMA SoundStep == InstallInv /\ [Next]_vars => SoundInv'
<1> SUFFICES ASSUME InstallInv, [Next]_vars PROVE SoundInv'
  OBVIOUS
<1> USE CodexInstallAssumption, SoundKept DEF vars, disk, records, script, work, user,
   InHelper, Replacing, Goes, Raise, Fail, Forget, Done, InstallInv, TypeOK, PhaseInv,
   RunInv, BaseInv, DoneInv, SoundInv, Active, Alive, Before, BeginLabels,
           RestoreLabels, Holding, Writing, Carries, Sound, KeptFor, Registered, Run,
              Gen, File, Content, ContentOf
<1>1. CASE Script
  <2>1. CASE StartScript
    BY <2>1 DEF StartScript
  <2>2. CASE MakeGeneration
    BY <2>2 DEF MakeGeneration
  <2>3. CASE StartHelper
    BY <2>3 DEF StartHelper
  <2>4. CASE BeginSucceeded
    BY <2>4 DEF BeginSucceeded
  <2>5. CASE Verify
    BY <2>5 DEF Verify
  <2>6. CASE PruneGenerations
    BY <2>6 DEF PruneGenerations, Kept
  <2>7. CASE ScriptFails
    BY <2>7 DEF ScriptFails
  <2>8. CASE StartRollback
    BY <2>8 DEF StartRollback
  <2>9. CASE RollbackEnded
    BY <2>9 DEF RollbackEnded
  <2>10. CASE CleanUp
    BY <2>10 DEF CleanUp
  <2>11. CASE ReleaseLock
    BY <2>11 DEF ReleaseLock
  <2>12. CASE KillScript
    BY <2>12 DEF KillScript
  <2>13. CASE OperatorUnlocks
    BY <2>13 DEF OperatorUnlocks
  <2> QED
    BY <1>1, <2>1, <2>2, <2>3, <2>4, <2>5, <2>6, <2>7, <2>8, <2>9, <2>10, <2>11, <2>12,
       <2>13 DEF Script
<1>2. CASE Begin
  <2>1. CASE BeginReads
    BY <2>1 DEF BeginReads
  <2>2. CASE PrepareUpdate
    BY <2>2 DEF PrepareUpdate
  <2>3. CASE WriteBackup
    BY <2>3 DEF WriteBackup
  <2>4. CASE WriteManifest
    BY <2>4 DEF WriteManifest
  <2>5. CASE RecheckOriginal
    BY <2>5 DEF RecheckOriginal
  <2>6. CASE OnError
    BY <2>6 DEF OnError
  <2> QED
    BY <1>2, <2>1, <2>2, <2>3, <2>4, <2>5, <2>6 DEF Begin
<1>3. CASE Restore
  <2>1. CASE RestoreReads
    BY <2>1 DEF RestoreReads
  <2>2. CASE RestoreChecks
    BY <2>2 DEF RestoreChecks
  <2> QED
    BY <1>3, <2>1, <2>2 DEF Restore
<1>4. CASE AtomicWrite
  <2>1. CASE CheckExpected
    BY <2>1 DEF CheckExpected
  <2>2. CASE WriteTemp
    BY <2>2 DEF WriteTemp, Written, Installed, Original
  <2>3. CASE Publish
    BY <2>3 DEF Publish
  <2>4. CASE PublishFails
    BY <2>4 DEF PublishFails
  <2>5. CASE AuditDisplaced
    BY <2>5 DEF AuditDisplaced
  <2>6. CASE RecoverConflict
    BY <2>6 DEF RecoverConflict
  <2>7. CASE ExchangeBack
    BY <2>7 DEF ExchangeBack
  <2>8. CASE AuditReturned
    BY <2>8 DEF AuditReturned
  <2>9. CASE UnlinkTemp
    BY <2>9 DEF UnlinkTemp
  <2>10. CASE SyncDirectory
    BY <2>10 DEF SyncDirectory
  <2> QED
    BY <1>4, <2>1, <2>2, <2>3, <2>4, <2>5, <2>6, <2>7, <2>8, <2>9, <2>10 DEF AtomicWrite
<1>5. CASE Delete
  <2>1. CASE Quarantine
    BY <2>1 DEF Quarantine
  <2>2. CASE AuditQuarantined
    BY <2>2 DEF AuditQuarantined
  <2>3. CASE RestoreQuarantine
    BY <2>3 DEF RestoreQuarantine
  <2> QED
    BY <1>5, <2>1, <2>2, <2>3 DEF Delete
<1>6. CASE Interrupt
  BY <1>6 DEF Interrupt
<1>7. CASE KillHelper
  BY <1>7 DEF KillHelper
<1>8. CASE UserDeletes
  BY <1>8 DEF UserDeletes
<1>9. ASSUME NEW e \in Edits, UserSaves(e) PROVE SoundInv'
  BY <1>9 DEF UserSaves
<1>10. CASE UNCHANGED vars
  BY <1>10
<1> QED
  BY <1>1, <1>2, <1>3, <1>4, <1>5, <1>6, <1>7, <1>8, <1>9, <1>10 DEF Next

LEMMA InitInv == Init => InstallInv
<1> SUFFICES ASSUME Init PROVE InstallInv
  OBVIOUS
<1> USE CodexInstallAssumption DEF Init, File, Text, Gen, Run
<1>1. TypeOK
  <2>1. config \in File \cup {NoFile}
    OBVIOUS
  <2>2. owed \subseteq Text
    OBVIOUS
  <2>3. gens \subseteq Run /\ succeeded \subseteq Run /\ run \in 0 .. MaxRuns
    OBVIOUS
  <2>4. /\ backup \in [Run -> Content \cup {NoFile}]
        /\ manifest \in [Run -> {"none", "created", "replaced"}]
    OBVIOUS
  <2> QED
    BY <2>1, <2>2, <2>3, <2>4 DEF TypeOK, HelperLabels
<1>2. PhaseInv
  BY DEF PhaseInv, BeginLabels, RestoreLabels, Holding
<1>3. RunInv /\ BaseInv /\ DoneInv
  BY DEF RunInv, BaseInv, DoneInv, Active, Alive, Before, Carries
<1>4. SoundInv
  BY DEF SoundInv, Sound, Carries
<1> QED
  BY <1>1, <1>2, <1>3, <1>4 DEF InstallInv

LEMMA Invariance == Spec => []InstallInv
<1>1. InstallInv /\ [Next]_vars => InstallInv'
  BY TypeStep, PhaseStep, RunStep, BaseStep, DoneStep, SoundStep DEF InstallInv
<1> QED
  BY InitInv, <1>1, PTL DEF Spec

-----------------------------------------------------------------------------
(* The user's texts in files are those he has saved. *)
LEMMA TextStep == InstallInv /\ EditInv /\ [Next]_vars => TextInv'
<1> SUFFICES ASSUME InstallInv, EditInv, [Next]_vars PROVE TextInv'
  OBVIOUS
<1> USE CodexInstallAssumption DEF vars, disk, records, script, work, user, InHelper,
   Replacing, Goes, Raise, Fail, Forget, Done, InstallInv, TypeOK, PhaseInv, RunInv,
   BaseInv, Active, Alive, Before, BeginLabels, RestoreLabels, Holding, Writing, EditInv,
   OwedInv, OriginalInv, SeenInv, TextInv, KeptElsewhere, Displacing, BaseText, Owed,
   Droppable, Run, Gen, Replaced, Leftover
<1>1. CASE Script
  <2>1. CASE StartScript
    BY <2>1 DEF StartScript
  <2>2. CASE MakeGeneration
    BY <2>2 DEF MakeGeneration
  <2>3. CASE StartHelper
    BY <2>3 DEF StartHelper
  <2>4. CASE BeginSucceeded
    BY <2>4 DEF BeginSucceeded
  <2>5. CASE Verify
    BY <2>5 DEF Verify
  <2>6. CASE PruneGenerations
    BY <2>6 DEF PruneGenerations
  <2>7. CASE ScriptFails
    BY <2>7 DEF ScriptFails
  <2>8. CASE StartRollback
    BY <2>8 DEF StartRollback
  <2>9. CASE RollbackEnded
    BY <2>9 DEF RollbackEnded
  <2>10. CASE CleanUp
    BY <2>10 DEF CleanUp
  <2>11. CASE ReleaseLock
    BY <2>11 DEF ReleaseLock
  <2>12. CASE KillScript
    BY <2>12 DEF KillScript
  <2>13. CASE OperatorUnlocks
    BY <2>13 DEF OperatorUnlocks
  <2> QED
    BY <1>1, <2>1, <2>2, <2>3, <2>4, <2>5, <2>6, <2>7, <2>8, <2>9, <2>10, <2>11, <2>12,
       <2>13 DEF Script
<1>2. CASE Begin
  <2>1. CASE BeginReads
    BY <2>1 DEF BeginReads
  <2>2. CASE PrepareUpdate
    BY <2>2 DEF PrepareUpdate
  <2>3. CASE WriteBackup
    BY <2>3 DEF WriteBackup, ContentOf
  <2>4. CASE WriteManifest
    BY <2>4 DEF WriteManifest
  <2>5. CASE RecheckOriginal
    BY <2>5 DEF RecheckOriginal
  <2>6. CASE OnError
    BY <2>6 DEF OnError, IsInstalled, ContentOf, Installed
  <2> QED
    BY <1>2, <2>1, <2>2, <2>3, <2>4, <2>5, <2>6 DEF Begin
<1>3. CASE Restore
  <2>1. CASE RestoreReads
    BY <2>1 DEF RestoreReads, MayRestore, IsInstalled, ContentOf, Installed
  <2>2. CASE RestoreChecks
    BY <2>2 DEF RestoreChecks
  <2> QED
    BY <1>3, <2>1, <2>2 DEF Restore
<1>4. CASE AtomicWrite
  <2>1. CASE CheckExpected
    BY <2>1 DEF CheckExpected, Expected
  <2>2. CASE WriteTemp
    BY <2>2 DEF WriteTemp, Written, Installed, Original, ContentOf
  <2>3. CASE Publish
    BY <2>3 DEF Publish, Written, Installed, Original, Expected, ContentOf
  <2>4. CASE PublishFails
    BY <2>4 DEF PublishFails, Written, Installed, Original, ContentOf,Expected
  <2>5. CASE AuditDisplaced
    BY <2>5 DEF AuditDisplaced, Expected, Written, Installed, Original, ContentOf
  <2>6. CASE RecoverConflict
    BY <2>6 DEF RecoverConflict, Written, Installed, Original, ContentOf
  <2>7. CASE ExchangeBack
    BY <2>7 DEF ExchangeBack, Written, Installed, Original, ContentOf
  <2>8. CASE AuditReturned
    BY <2>8 DEF AuditReturned, Written, Installed, Original, ContentOf
  <2>9. CASE UnlinkTemp
    BY <2>9 DEF UnlinkTemp, Written, Installed, Original, ContentOf
  <2>10. CASE SyncDirectory
    BY <2>10 DEF SyncDirectory
  <2> QED
    BY <1>4, <2>1, <2>2, <2>3, <2>4, <2>5, <2>6, <2>7, <2>8, <2>9, <2>10 DEF AtomicWrite
<1>5. CASE Delete
  <2>1. CASE Quarantine
    BY <2>1 DEF Quarantine
  <2>2. CASE AuditQuarantined
    BY <2>2 DEF AuditQuarantined
  <2>3. CASE RestoreQuarantine
    BY <2>3 DEF RestoreQuarantine
  <2> QED
    BY <1>5, <2>1, <2>2, <2>3 DEF Delete
<1>6. CASE Interrupt
  BY <1>6 DEF Interrupt
<1>7. CASE KillHelper
  BY <1>7 DEF KillHelper
<1>8. CASE UserDeletes
  BY <1>8 DEF UserDeletes
<1>9. ASSUME NEW e \in Edits, UserSaves(e) PROVE TextInv'
  BY <1>9 DEF UserSaves
<1>10. CASE UNCHANGED vars
  BY <1>10
<1> QED
  BY <1>1, <1>2, <1>3, <1>4, <1>5, <1>6, <1>7, <1>8, <1>9, <1>10 DEF Next

(* What a restore may displace and drop. *)
LEMMA SeenStep == InstallInv /\ EditInv /\ [Next]_vars => SeenInv'
<1> SUFFICES ASSUME InstallInv, EditInv, [Next]_vars PROVE SeenInv'
  OBVIOUS
<1> USE CodexInstallAssumption DEF vars, disk, records, script, work, user, InHelper,
   Replacing, Goes, Raise, Fail, Forget, Done, InstallInv, TypeOK, PhaseInv, RunInv,
   BaseInv, Active, Alive, Before, BeginLabels, RestoreLabels, Holding, Writing, EditInv,
   OwedInv, OriginalInv, SeenInv, TextInv, KeptElsewhere, Displacing, BaseText, Owed,
   Droppable, Run, Gen, Replaced, Leftover
<1>1. CASE Script
  <2>1. CASE StartScript
    BY <2>1 DEF StartScript
  <2>2. CASE MakeGeneration
    BY <2>2 DEF MakeGeneration
  <2>3. CASE StartHelper
    BY <2>3 DEF StartHelper
  <2>4. CASE BeginSucceeded
    BY <2>4 DEF BeginSucceeded
  <2>5. CASE Verify
    BY <2>5 DEF Verify
  <2>6. CASE PruneGenerations
    BY <2>6 DEF PruneGenerations
  <2>7. CASE ScriptFails
    BY <2>7 DEF ScriptFails
  <2>8. CASE StartRollback
    BY <2>8 DEF StartRollback
  <2>9. CASE RollbackEnded
    BY <2>9 DEF RollbackEnded
  <2>10. CASE CleanUp
    BY <2>10 DEF CleanUp
  <2>11. CASE ReleaseLock
    BY <2>11 DEF ReleaseLock
  <2>12. CASE KillScript
    BY <2>12 DEF KillScript
  <2>13. CASE OperatorUnlocks
    BY <2>13 DEF OperatorUnlocks
  <2> QED
    BY <1>1, <2>1, <2>2, <2>3, <2>4, <2>5, <2>6, <2>7, <2>8, <2>9, <2>10, <2>11, <2>12,
       <2>13 DEF Script
<1>2. CASE Begin
  <2>1. CASE BeginReads
    BY <2>1 DEF BeginReads
  <2>2. CASE PrepareUpdate
    BY <2>2 DEF PrepareUpdate
  <2>3. CASE WriteBackup
    BY <2>3 DEF WriteBackup, ContentOf
  <2>4. CASE WriteManifest
    BY <2>4 DEF WriteManifest
  <2>5. CASE RecheckOriginal
    BY <2>5 DEF RecheckOriginal
  <2>6. CASE OnError
    BY <2>6 DEF OnError, IsInstalled, ContentOf, Installed
  <2> QED
    BY <1>2, <2>1, <2>2, <2>3, <2>4, <2>5, <2>6 DEF Begin
<1>3. CASE Restore
  <2>1. CASE RestoreReads
    BY <2>1 DEF RestoreReads, MayRestore, IsInstalled, ContentOf, Installed
  <2>2. CASE RestoreChecks
    BY <2>2 DEF RestoreChecks
  <2> QED
    BY <1>3, <2>1, <2>2 DEF Restore
<1>4. CASE AtomicWrite
  <2>1. CASE CheckExpected
    BY <2>1 DEF CheckExpected, Expected
  <2>2. CASE WriteTemp
    BY <2>2 DEF WriteTemp, Written, Installed, Original, ContentOf
  <2>3. CASE Publish
    BY <2>3 DEF Publish, Written, Installed, Original, Expected, ContentOf
  <2>4. CASE PublishFails
    BY <2>4 DEF PublishFails, Written, Installed, Original, ContentOf,Expected
  <2>5. CASE AuditDisplaced
    BY <2>5 DEF AuditDisplaced, Expected, Written, Installed, Original, ContentOf
  <2>6. CASE RecoverConflict
    BY <2>6 DEF RecoverConflict, Written, Installed, Original, ContentOf
  <2>7. CASE ExchangeBack
    BY <2>7 DEF ExchangeBack, Written, Installed, Original, ContentOf
  <2>8. CASE AuditReturned
    BY <2>8 DEF AuditReturned, Written, Installed, Original, ContentOf
  <2>9. CASE UnlinkTemp
    BY <2>9 DEF UnlinkTemp, Written, Installed, Original, ContentOf
  <2>10. CASE SyncDirectory
    BY <2>10 DEF SyncDirectory
  <2> QED
    BY <1>4, <2>1, <2>2, <2>3, <2>4, <2>5, <2>6, <2>7, <2>8, <2>9, <2>10 DEF AtomicWrite
<1>5. CASE Delete
  <2>1. CASE Quarantine
    BY <2>1 DEF Quarantine
  <2>2. CASE AuditQuarantined
    BY <2>2 DEF AuditQuarantined
  <2>3. CASE RestoreQuarantine
    BY <2>3 DEF RestoreQuarantine
  <2> QED
    BY <1>5, <2>1, <2>2, <2>3 DEF Delete
<1>6. CASE Interrupt
  BY <1>6 DEF Interrupt
<1>7. CASE KillHelper
  BY <1>7 DEF KillHelper
<1>8. CASE UserDeletes
  BY <1>8 DEF UserDeletes
<1>9. ASSUME NEW e \in Edits, UserSaves(e) PROVE SeenInv'
  BY <1>9 DEF UserSaves
<1>10. CASE UNCHANGED vars
  BY <1>10
<1> QED
  BY <1>1, <1>2, <1>3, <1>4, <1>5, <1>6, <1>7, <1>8, <1>9, <1>10 DEF Next

(* The original is not in the replacement alone. *)
LEMMA OriginalStep == InstallInv /\ EditInv /\ [Next]_vars => OriginalInv'
<1> SUFFICES ASSUME InstallInv, EditInv, [Next]_vars PROVE OriginalInv'
  OBVIOUS
<1> USE CodexInstallAssumption DEF vars, disk, records, script, work, user, InHelper,
   Replacing, Goes, Raise, Fail, Forget, Done, InstallInv, TypeOK, PhaseInv, RunInv,
   BaseInv, Active, Alive, Before, BeginLabels, RestoreLabels, Holding, Writing, EditInv,
   OwedInv, OriginalInv, SeenInv, TextInv, KeptElsewhere, Displacing, BaseText, Owed,
   Droppable, Run, Gen, Replaced, Leftover
<1>1. CASE Script
  <2>1. CASE StartScript
    BY <2>1 DEF StartScript
  <2>2. CASE MakeGeneration
    BY <2>2 DEF MakeGeneration
  <2>3. CASE StartHelper
    BY <2>3 DEF StartHelper
  <2>4. CASE BeginSucceeded
    BY <2>4 DEF BeginSucceeded
  <2>5. CASE Verify
    BY <2>5 DEF Verify
  <2>6. CASE PruneGenerations
    BY <2>6 DEF PruneGenerations
  <2>7. CASE ScriptFails
    BY <2>7 DEF ScriptFails
  <2>8. CASE StartRollback
    BY <2>8 DEF StartRollback
  <2>9. CASE RollbackEnded
    BY <2>9 DEF RollbackEnded
  <2>10. CASE CleanUp
    BY <2>10 DEF CleanUp
  <2>11. CASE ReleaseLock
    BY <2>11 DEF ReleaseLock
  <2>12. CASE KillScript
    BY <2>12 DEF KillScript
  <2>13. CASE OperatorUnlocks
    BY <2>13 DEF OperatorUnlocks
  <2> QED
    BY <1>1, <2>1, <2>2, <2>3, <2>4, <2>5, <2>6, <2>7, <2>8, <2>9, <2>10, <2>11, <2>12,
       <2>13 DEF Script
<1>2. CASE Begin
  <2>1. CASE BeginReads
    BY <2>1 DEF BeginReads
  <2>2. CASE PrepareUpdate
    BY <2>2 DEF PrepareUpdate
  <2>3. CASE WriteBackup
    BY <2>3 DEF WriteBackup, ContentOf
  <2>4. CASE WriteManifest
    BY <2>4 DEF WriteManifest
  <2>5. CASE RecheckOriginal
    BY <2>5 DEF RecheckOriginal
  <2>6. CASE OnError
    BY <2>6 DEF OnError, IsInstalled, ContentOf, Installed
  <2> QED
    BY <1>2, <2>1, <2>2, <2>3, <2>4, <2>5, <2>6 DEF Begin
<1>3. CASE Restore
  <2>1. CASE RestoreReads
    BY <2>1 DEF RestoreReads, MayRestore, IsInstalled, ContentOf, Installed
  <2>2. CASE RestoreChecks
    BY <2>2 DEF RestoreChecks
  <2> QED
    BY <1>3, <2>1, <2>2 DEF Restore
<1>4. CASE AtomicWrite
  <2>1. CASE CheckExpected
    BY <2>1 DEF CheckExpected, Expected
  <2>2. CASE WriteTemp
    BY <2>2 DEF WriteTemp, Written, Installed, Original, ContentOf
  <2>3. CASE Publish
    <3>1. Written \in File /\ temp = Written
      BY <2>3, WrittenTyped DEF Publish
    <3>2. base # NoFile => Written.text = base.text
      BY <2>3 DEF Publish, Written, Installed, Original, ContentOf
    <3>3. CASE Expected # NoFile
      BY <2>3, <3>1, <3>2, <3>3 DEF Publish
    <3>4. CASE Expected = NoFile
      BY <2>3, <3>1, <3>2, <3>4 DEF Publish
    <3> QED
      BY <3>3, <3>4
  <2>4. CASE PublishFails
    BY <2>4 DEF PublishFails, Written, Installed, Original, ContentOf,Expected
  <2>5. CASE AuditDisplaced
    BY <2>5 DEF AuditDisplaced, Expected, Written, Installed, Original, ContentOf
  <2>6. CASE RecoverConflict
    BY <2>6 DEF RecoverConflict, Written, Installed, Original, ContentOf
  <2>7. CASE ExchangeBack
    BY <2>7 DEF ExchangeBack, Written, Installed, Original, ContentOf
  <2>8. CASE AuditReturned
    BY <2>8 DEF AuditReturned, Written, Installed, Original, ContentOf
  <2>9. CASE UnlinkTemp
    BY <2>9 DEF UnlinkTemp, Written, Installed, Original, ContentOf
  <2>10. CASE SyncDirectory
    BY <2>10 DEF SyncDirectory
  <2> QED
    BY <1>4, <2>1, <2>2, <2>3, <2>4, <2>5, <2>6, <2>7, <2>8, <2>9, <2>10 DEF AtomicWrite
<1>5. CASE Delete
  <2>1. CASE Quarantine
    BY <2>1 DEF Quarantine
  <2>2. CASE AuditQuarantined
    BY <2>2 DEF AuditQuarantined
  <2>3. CASE RestoreQuarantine
    BY <2>3 DEF RestoreQuarantine
  <2> QED
    BY <1>5, <2>1, <2>2, <2>3 DEF Delete
<1>6. CASE Interrupt
  BY <1>6 DEF Interrupt
<1>7. CASE KillHelper
  BY <1>7 DEF KillHelper
<1>8. CASE UserDeletes
  BY <1>8 DEF UserDeletes
<1>9. ASSUME NEW e \in Edits, UserSaves(e) PROVE OriginalInv'
  BY <1>9 DEF UserSaves
<1>10. CASE UNCHANGED vars
  BY <1>10
<1> QED
  BY <1>1, <1>2, <1>3, <1>4, <1>5, <1>6, <1>7, <1>8, <1>9, <1>10 DEF Next

(* No owed text depends on what may be dropped. *)
LEMMA OwedStep == InstallInv /\ EditInv /\ [Next]_vars => OwedInv'
<1> SUFFICES ASSUME InstallInv, EditInv, [Next]_vars PROVE OwedInv'
  OBVIOUS
<1> USE CodexInstallAssumption DEF vars, disk, records, script, work, user, InHelper,
   Replacing, Goes, Raise, Fail, Forget, Done, InstallInv, TypeOK, PhaseInv, RunInv,
   BaseInv, Active, Alive, Before, BeginLabels, RestoreLabels, Holding, Writing, EditInv,
   OwedInv, OriginalInv, SeenInv, TextInv, KeptElsewhere, Displacing, BaseText, Owed,
   Droppable, Run, Gen, Replaced, Leftover
<1>1. CASE Script
  <2>1. CASE StartScript
    BY <2>1 DEF StartScript
  <2>2. CASE MakeGeneration
    BY <2>2 DEF MakeGeneration
  <2>3. CASE StartHelper
    BY <2>3 DEF StartHelper
  <2>4. CASE BeginSucceeded
    BY <2>4 DEF BeginSucceeded
  <2>5. CASE Verify
    BY <2>5 DEF Verify
  <2>6. CASE PruneGenerations
    BY <2>6 DEF PruneGenerations
  <2>7. CASE ScriptFails
    BY <2>7 DEF ScriptFails
  <2>8. CASE StartRollback
    BY <2>8 DEF StartRollback
  <2>9. CASE RollbackEnded
    BY <2>9 DEF RollbackEnded
  <2>10. CASE CleanUp
    BY <2>10 DEF CleanUp
  <2>11. CASE ReleaseLock
    BY <2>11 DEF ReleaseLock
  <2>12. CASE KillScript
    BY <2>12 DEF KillScript
  <2>13. CASE OperatorUnlocks
    BY <2>13 DEF OperatorUnlocks
  <2> QED
    BY <1>1, <2>1, <2>2, <2>3, <2>4, <2>5, <2>6, <2>7, <2>8, <2>9, <2>10, <2>11, <2>12,
       <2>13 DEF Script
<1>2. CASE Begin
  <2>1. CASE BeginReads
    BY <2>1 DEF BeginReads
  <2>2. CASE PrepareUpdate
    BY <2>2 DEF PrepareUpdate
  <2>3. CASE WriteBackup
    BY <2>3 DEF WriteBackup, ContentOf
  <2>4. CASE WriteManifest
    BY <2>4 DEF WriteManifest
  <2>5. CASE RecheckOriginal
    BY <2>5 DEF RecheckOriginal
  <2>6. CASE OnError
    BY <2>6 DEF OnError, IsInstalled, ContentOf, Installed
  <2> QED
    BY <1>2, <2>1, <2>2, <2>3, <2>4, <2>5, <2>6 DEF Begin
<1>3. CASE Restore
  <2>1. CASE RestoreReads
    BY <2>1 DEF RestoreReads, MayRestore, IsInstalled, ContentOf, Installed
  <2>2. CASE RestoreChecks
    BY <2>2 DEF RestoreChecks
  <2> QED
    BY <1>3, <2>1, <2>2 DEF Restore
<1>4. CASE AtomicWrite
  <2>1. CASE CheckExpected
    BY <2>1 DEF CheckExpected, Expected
  <2>2. CASE WriteTemp
    BY <2>2 DEF WriteTemp, Written, Installed, Original, ContentOf
  <2>3. CASE Publish
    BY <2>3 DEF Publish, Written, Installed, Original, Expected, ContentOf
  <2>4. CASE PublishFails
    BY <2>4 DEF PublishFails, Written, Installed, Original, ContentOf,Expected
  <2>5. CASE AuditDisplaced
    BY <2>5 DEF AuditDisplaced, Expected, Written, Installed, Original, ContentOf
  <2>6. CASE RecoverConflict
    BY <2>6 DEF RecoverConflict, Written, Installed, Original, ContentOf
  <2>7. CASE ExchangeBack
    BY <2>7 DEF ExchangeBack, Written, Installed, Original, ContentOf
  <2>8. CASE AuditReturned
    BY <2>8 DEF AuditReturned, Written, Installed, Original, ContentOf
  <2>9. CASE UnlinkTemp
    BY <2>9 DEF UnlinkTemp, Written, Installed, Original, ContentOf
  <2>10. CASE SyncDirectory
    BY <2>10 DEF SyncDirectory
  <2> QED
    BY <1>4, <2>1, <2>2, <2>3, <2>4, <2>5, <2>6, <2>7, <2>8, <2>9, <2>10 DEF AtomicWrite
<1>5. CASE Delete
  <2>1. CASE Quarantine
    BY <2>1 DEF Quarantine
  <2>2. CASE AuditQuarantined
    BY <2>2 DEF AuditQuarantined
  <2>3. CASE RestoreQuarantine
    BY <2>3 DEF RestoreQuarantine
  <2> QED
    BY <1>5, <2>1, <2>2, <2>3 DEF Delete
<1>6. CASE Interrupt
  BY <1>6 DEF Interrupt
<1>7. CASE KillHelper
  BY <1>7 DEF KillHelper
<1>8. CASE UserDeletes
  BY <1>8 DEF UserDeletes
<1>9. ASSUME NEW e \in Edits, UserSaves(e) PROVE OwedInv'
  <2>1. config' # NoFile /\ config'.text = e /\ UNCHANGED <<hidden, backup, run, temp,
     helper>>
    <3>1. Registered \in Gen
      BY DEF Registered, File, CodexInstallAssumption
    <3>2. config' \in File
      BY <1>9, <3>1 DEF UserSaves, File, Text
    <3> QED
      BY <1>9, <3>2 DEF UserSaves, CodexInstallAssumption
  <2>2. ASSUME NEW x \in Owed', x # e
        PROVE  KeptElsewhere(x)' \/ (helper' \in Displacing /\ temp' # NoFile /\
           temp'.text = x)
    <3>1. x \in Owed /\ ~(config # NoFile /\ config.text = x)
      BY <1>9, <2>2 DEF UserSaves
    <3> QED
      BY <2>1, <3>1
  <2>3. owed' \subseteq used' \cup {First}
    BY <1>9 DEF UserSaves
  <2> QED
    BY <2>1, <2>2, <2>3
<1>10. CASE UNCHANGED vars
  BY <1>10
<1> QED
  BY <1>1, <1>2, <1>3, <1>4, <1>5, <1>6, <1>7, <1>8, <1>9, <1>10 DEF Next

LEMMA EditInit == Init => EditInv
<1> SUFFICES ASSUME Init PROVE EditInv
  OBVIOUS
<1> USE CodexInstallAssumption DEF Init
<1>1. OwedInv
  BY DEF OwedInv, Owed, KeptElsewhere
<1>2. OriginalInv /\ SeenInv
  BY DEF OriginalInv, SeenInv, Alive
<1>3. TextInv
  BY DEF TextInv
<1> QED
  BY <1>1, <1>2, <1>3 DEF EditInv

LEMMA EditInvariance == Spec => []EditInv
<1>1. InstallInv /\ EditInv /\ [Next]_vars => EditInv'
  BY TextStep, SeenStep, OriginalStep, OwedStep DEF EditInv
<1> QED
  BY EditInit, Invariance, <1>1, PTL DEF Spec

-----------------------------------------------------------------------------
(* Types: the state of the file, the records, the script and the helper.     *)
THEOREM TypeCorrect == Spec => []TypeOK
<1>1. InstallInv => TypeOK
  BY DEF InstallInv
<1> QED
  BY Invariance, <1>1, PTL

(* No clean-up, pruning, rollback or edit leaves config.toml naming a        *)
(* generation that is gone, however the runs before ended.                   *)
THEOREM RegistrationExists == Spec => []RegisteredGenerationExists
<1>1. InstallInv => RegisteredGenerationExists
  BY DEF InstallInv, SoundInv, Sound, RegisteredGenerationExists, Registered
<1> QED
  BY Invariance, <1>1, PTL

(* While the change of an unsuccessful run is in config.toml, its manifest   *)
(* and the backup it speaks of are kept.                                     *)
THEOREM RecoveryKept == Spec => []RecoveryIsKept
<1>1. InstallInv => RecoveryIsKept
  BY DEF InstallInv, SoundInv, Sound, Carries, KeptFor, RecoveryIsKept, ChangedBy
<1> QED
  BY Invariance, <1>1, PTL

(* Whatever fails or is killed, each text the user saved and did not replace *)
(* himself is still somewhere: what the helper drops from its private name   *)
(* is its own text or the original's, which is kept elsewhere.               *)
THEOREM EditsKept == Spec => []NoEditLost
<1>1. EditInv => NoEditLost
  <2> SUFFICES ASSUME EditInv, NEW e \in Owed PROVE e \in Stored
    BY DEF NoEditLost, Owed
  <2>1. CASE helper \in Displacing /\ temp # NoFile /\ temp.text = e
    BY <2>1 DEF Stored
  <2>2. CASE KeptElsewhere(e)
    BY <2>2 DEF KeptElsewhere, Stored
  <2> QED
    BY <2>1, <2>2 DEF EditInv, OwedInv
<1> QED
  BY EditInvariance, <1>1, PTL
=============================================================================
