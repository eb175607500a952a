-------------------------- MODULE PosixCommit_proofs --------------------------
(***************************************************************************)
(* Proofs about PosixCommit for every number of files and edits.            *)
(***************************************************************************)
EXTENDS PosixCommit, TLAPS

(* The replacement's inode is known to nobody but the tool.                  *)
Private == entry["target"] # Ours /\ held # Ours /\ data[Ours] \notin Edits \cup {Original}

(* Where the three names point at each stage of the call.                    *)
PlaceInv ==
  /\ baseline \in {Missing, [inode |-> FirstFile, version |-> Original]}
  /\ \A m, n \in Names : entry[m] = entry[n] /\ entry[m] # NoFile => m = n
  /\ \A n \in Names : entry[n] # NoFile => data[entry[n]] # NoVersion
  /\ pc \in {"check", "create"} => Private /\ entry["temp"] = NoFile
  /\ pc \in {"write", "intent", "revalidate", "publish", "unlink_temp"} =>
       Private /\ entry["temp"] = Ours
  /\ pc \in {"check", "create", "write", "intent", "revalidate", "publish", "unlink_temp",
              "park", "unpark"} => entry["recovery"] = NoFile
  /\ pc \in {"park", "unpark"} => entry["temp"] \notin {Ours, NoFile}
  /\ pc \in {"audit", "unlink_recovery", "restore"} => entry["recovery"] \notin {Ours, NoFile}
  /\ pc \in {"reclaim", "reclaim_unlink"} => entry["recovery"] # NoFile
  /\ pc = "discard_unlink" => entry["temp"] # NoFile

(* What the next unlink removes is the original, the replacement, or too     *)
(* late to be seen.                                                          *)
AuditInv ==
  /\ saved \cap late = {}
  /\ pc = "unlink_recovery" => data[entry["recovery"]] \in late \cup {Original}
  /\ pc = "reclaim_unlink" => data[entry["recovery"]] \in late \cup {Replacement}
  /\ pc = "discard_unlink" => data[entry["temp"]] \in late \cup {Replacement}

(* Saved versions are under one of the names.                                *)
At(v, n) == entry[n] # NoFile /\ data[entry[n]] = v
KeptInv == \A v \in Owed : At(v, "target") \/ At(v, "temp") \/ At(v, "recovery")

(* What was displaced, and how the outcome follows the stage.                *)
Gone == {"reclaim", "reclaim_unlink", "sync", "unblock_failed", "discard", "discard_unlink"}

DisplacedInv ==
  /\ pc \in {"check", "create", "write", "intent", "revalidate", "publish"} =>
       displaced = Missing /\ outcome = "none"
  /\ pc \in {"park", "audit", "unlink_recovery"} => outcome = "none" /\ baseline # Missing
  /\ pc = "park" => displaced.inode = entry["temp"]
  /\ pc = "audit" => displaced.inode = entry["recovery"]
  /\ pc \in {"park", "audit"} =>
       (data[displaced.inode] = Original => displaced.version = Original)
  /\ pc = "unpark" => outcome = "failed"
  /\ pc = "restore" => outcome \in {"failed", "conflict"}
  /\ pc = "warn" => outcome \in {"none", "failed", "conflict"}
  /\ pc = "finish" => outcome \in {"none", "warning"}
  /\ pc = "unlink_recovery" \/ (pc = "finish" /\ outcome = "none") \/ outcome = "ok" =>
       displaced = baseline
  /\ pc = "unblock_committed" => outcome \in {"ok", "warning"} \/ warned
  /\ pc \in Gone => entry["target"] # Ours \/ warned
  /\ pc \in Gone \cup {"unlink_temp"} => outcome \in {"failed", "conflict", "terminated"}
  /\ pc = "unlink_temp" => outcome \in {"failed", "terminated"}
  /\ pc = "done" /\ outcome \in {"conflict", "failed"} => entry["target"] # Ours \/ warned

(* No saved version is left under a hidden name that the message is silent   *)
(* about.                                                                    *)
Clean ==
  /\ entry["recovery"] = NoFile
  /\ entry["temp"] = NoFile \/ (entry["temp"] = Ours /\ Private)

HiddenInv ==
  /\ pc \in {"audit", "unlink_recovery", "restore", "reclaim", "reclaim_unlink", "sync"} =>
       entry["temp"] = NoFile
  /\ pc = "warn" => named
  /\ pc \in {"finish", "unblock_committed"} /\ ~named =>
       entry["temp"] = NoFile /\ entry["recovery"] = NoFile
  /\ pc = "sync" /\ ~named => entry["recovery"] = NoFile
  /\ pc \in {"unblock_failed", "discard", "discard_unlink"} /\ outcome = "conflict" /\ ~named =>
       Clean
  /\ pc = "done" /\ outcome \in {"ok", "warning", "conflict"} /\ ~named => Clean

-----------------------------------------------------------------------------
(* Type correctness, step by step.                                          *)
LEMMA TypeStep == TypeOK /\ [Next]_vars => TypeOK'
<1> USE CommitAssumption DEF CommitAssumption, TypeOK, Names, Version, Blocked, Labels, Outcomes, Missing, Identities,
        Step, Raise, Quiet, user, message, UserStep
<1> SUFFICES ASSUME TypeOK, [Next]_vars PROVE TypeOK'
  OBVIOUS
<1>1. CASE Tool
  <2>1. CASE CheckBaseline  BY <2>1 DEF CheckBaseline, SameVersion, Identity
  <2>2. CASE CreateTemp  BY <2>2 DEF CreateTemp
  <2>3. CASE WriteTemp  BY <2>3 DEF WriteTemp
  <2>4. CASE PersistIntent  BY <2>4 DEF PersistIntent
  <2>5. CASE Revalidate  BY <2>5 DEF Revalidate, SameVersion, Identity
  <2>6. CASE PublishMissing  BY <2>6 DEF PublishMissing, Moved
  <2>7. CASE PublishExchange  BY <2>7 DEF PublishExchange, Exchange, Identity
  <2>8. CASE ParkDisplaced  BY <2>8 DEF ParkDisplaced, Moved
  <2>9. CASE Unpark  BY <2>9 DEF Unpark, Exchange
  <2>10. CASE AuditDisplaced  BY <2>10 DEF AuditDisplaced, SameVersion, Identity
  <2>11. CASE UnlinkRecovery  BY <2>11 DEF UnlinkRecovery, Unlinked
  <2>12. CASE Restore  BY <2>12 DEF Restore, Exchange
  <2>13. CASE CheckOwnedRecovery  BY <2>13 DEF CheckOwnedRecovery, SameVersion, Identity
  <2>14. CASE RemoveOwnedRecovery  BY <2>14 DEF RemoveOwnedRecovery, Unlinked
  <2>15. CASE SyncRestored  BY <2>15 DEF SyncRestored
  <2>16. CASE ReportWarning  BY <2>16 DEF ReportWarning
  <2>17. CASE FinishCommit  BY <2>17 DEF FinishCommit
  <2>18. CASE Unblock
    <3>1. pc' \in Labels /\ sigterm' \in BOOLEAN  BY <2>18 DEF Unblock
    <3>2. outcome' \in Outcomes  BY <2>18 DEF Unblock
    <3> QED  BY <2>18, <3>1, <3>2 DEF Unblock
  <2>19. CASE UnlinkTemp  BY <2>19 DEF UnlinkTemp, Unlinked
  <2>20. CASE CheckOwnedTemp  BY <2>20 DEF CheckOwnedTemp, SameVersion, Identity
  <2>21. CASE DiscardTemp  BY <2>21 DEF DiscardTemp, Unlinked
  <2> QED  BY <1>1, <2>1, <2>2, <2>3, <2>4, <2>5, <2>6, <2>7, <2>8,
              <2>9, <2>10, <2>11, <2>12, <2>13, <2>14, <2>15, <2>16,
              <2>17, <2>18, <2>19, <2>20, <2>21 DEF Tool
<1>2. CASE Editor
  <2>1. ASSUME NEW i \in File, NEW v \in Edits, EditorSaves(i, v) PROVE TypeOK'
    BY <2>1 DEF EditorSaves, Unwritten, Replaced
  <2>2. CASE EditorDeletes  BY <2>2 DEF EditorDeletes, Unlinked, Replaced
  <2>3. CASE EditorOpens    BY <2>3 DEF EditorOpens
  <2>4. ASSUME NEW v \in Edits, EditorWrites(v) PROVE TypeOK'
    BY <2>4 DEF EditorWrites, Unwritten, Audited, Linked
  <2> QED  BY <1>2, <2>1, <2>2, <2>3, <2>4 DEF Editor
<1>3. CASE Sigterm
  <2>1. pc' \in Labels
    <3>1. \A label \in Labels : AfterRaise(label) \subseteq Labels  BY DEF AfterRaise
    <3> QED  BY <1>3, <3>1 DEF Sigterm
  <2>2. outcome' \in Outcomes  BY <1>3 DEF Sigterm
  <2>3. sigterm' \in BOOLEAN  BY <1>3 DEF Sigterm
  <2> QED  BY <1>3, <2>1, <2>2, <2>3 DEF Sigterm
<1>4. CASE Kill     BY <1>4 DEF Kill
<1>5. CASE UNCHANGED vars  BY <1>5 DEF vars
<1> QED  BY <1>1, <1>2, <1>3, <1>4, <1>5 DEF Next

(* The names point where the stage of the call says.                         *)
LEMMA PlaceStep == TypeOK /\ PlaceInv /\ [Next]_vars => PlaceInv'
<1> USE CommitAssumption DEF CommitAssumption, TypeOK, PlaceInv, Private, Names, Version, Blocked, Labels, Missing, Identities,
        Step, Raise, Quiet, user, message, UserStep
<1> SUFFICES ASSUME TypeOK, PlaceInv, [Next]_vars PROVE PlaceInv'
  OBVIOUS
<1>1. CASE Tool
  <2>1. CASE CheckBaseline  BY <2>1 DEF CheckBaseline, SameVersion, Identity
  <2>2. CASE CreateTemp  BY <2>2 DEF CreateTemp
  <2>3. CASE WriteTemp  BY <2>3 DEF WriteTemp
  <2>4. CASE PersistIntent  BY <2>4 DEF PersistIntent
  <2>5. CASE Revalidate  BY <2>5 DEF Revalidate, SameVersion, Identity
  <2>6. CASE PublishMissing  BY <2>6 DEF PublishMissing, Moved
  <2>7. CASE PublishExchange  BY <2>7 DEF PublishExchange, Exchange, Identity
  <2>8. CASE ParkDisplaced  BY <2>8 DEF ParkDisplaced, Moved
  <2>9. CASE Unpark  BY <2>9 DEF Unpark, Exchange
  <2>10. CASE AuditDisplaced  BY <2>10 DEF AuditDisplaced, SameVersion, Identity
  <2>11. CASE UnlinkRecovery  BY <2>11 DEF UnlinkRecovery, Unlinked
  <2>12. CASE Restore  BY <2>12 DEF Restore, Exchange
  <2>13. CASE CheckOwnedRecovery  BY <2>13 DEF CheckOwnedRecovery, SameVersion, Identity
  <2>14. CASE RemoveOwnedRecovery  BY <2>14 DEF RemoveOwnedRecovery, Unlinked
  <2>15. CASE SyncRestored  BY <2>15 DEF SyncRestored
  <2>16. CASE ReportWarning  BY <2>16 DEF ReportWarning
  <2>17. CASE FinishCommit  BY <2>17 DEF FinishCommit
  <2>18. CASE Unblock  BY <2>18 DEF Unblock
  <2>19. CASE UnlinkTemp  BY <2>19 DEF UnlinkTemp, Unlinked
  <2>20. CASE CheckOwnedTemp  BY <2>20 DEF CheckOwnedTemp, SameVersion, Identity
  <2>21. CASE DiscardTemp  BY <2>21 DEF DiscardTemp, Unlinked
  <2> QED  BY <1>1, <2>1, <2>2, <2>3, <2>4, <2>5, <2>6, <2>7, <2>8,
              <2>9, <2>10, <2>11, <2>12, <2>13, <2>14, <2>15, <2>16,
              <2>17, <2>18, <2>19, <2>20, <2>21 DEF Tool
<1>2. CASE Editor
  <2>1. ASSUME NEW i \in File, NEW v \in Edits, EditorSaves(i, v) PROVE PlaceInv'
    BY <2>1 DEF EditorSaves, Unwritten, Replaced
  <2>2. CASE EditorDeletes  BY <2>2 DEF EditorDeletes, Unlinked, Replaced
  <2>3. CASE EditorOpens    BY <2>3 DEF EditorOpens
  <2>4. ASSUME NEW v \in Edits, EditorWrites(v) PROVE PlaceInv'
    BY <2>4 DEF EditorWrites, Unwritten, Audited, Linked
  <2> QED  BY <1>2, <2>1, <2>2, <2>3, <2>4 DEF Editor
<1>3. CASE Sigterm  BY <1>3 DEF Sigterm, AfterRaise
<1>4. CASE Kill     BY <1>4 DEF Kill
<1>5. CASE UNCHANGED vars  BY <1>5 DEF vars
<1> QED  BY <1>1, <1>2, <1>3, <1>4, <1>5 DEF Next

(* An audited file holds what the audit saw, or a late write.                *)
LEMMA AuditStep == TypeOK /\ PlaceInv /\ AuditInv /\ [Next]_vars => AuditInv'
<1> USE CommitAssumption DEF CommitAssumption, TypeOK, PlaceInv, AuditInv, Private, Names, Version, Blocked, Labels, Missing, Identities,
        Step, Raise, Quiet, user, message, UserStep
<1> SUFFICES ASSUME TypeOK, PlaceInv, AuditInv, [Next]_vars PROVE AuditInv'
  OBVIOUS
<1>1. CASE Tool
  <2>1. CASE CheckBaseline  BY <2>1 DEF CheckBaseline, SameVersion, Identity
  <2>2. CASE CreateTemp  BY <2>2 DEF CreateTemp
  <2>3. CASE WriteTemp  BY <2>3 DEF WriteTemp
  <2>4. CASE PersistIntent  BY <2>4 DEF PersistIntent
  <2>5. CASE Revalidate  BY <2>5 DEF Revalidate, SameVersion, Identity
  <2>6. CASE PublishMissing  BY <2>6 DEF PublishMissing, Moved
  <2>7. CASE PublishExchange  BY <2>7 DEF PublishExchange, Exchange, Identity
  <2>8. CASE ParkDisplaced  BY <2>8 DEF ParkDisplaced, Moved
  <2>9. CASE Unpark  BY <2>9 DEF Unpark, Exchange
  <2>10. CASE AuditDisplaced  BY <2>10 DEF AuditDisplaced, SameVersion, Identity
  <2>11. CASE UnlinkRecovery  BY <2>11 DEF UnlinkRecovery, Unlinked
  <2>12. CASE Restore  BY <2>12 DEF Restore, Exchange
  <2>13. CASE CheckOwnedRecovery  BY <2>13 DEF CheckOwnedRecovery, SameVersion, Identity
  <2>14. CASE RemoveOwnedRecovery  BY <2>14 DEF RemoveOwnedRecovery, Unlinked
  <2>15. CASE SyncRestored  BY <2>15 DEF SyncRestored
  <2>16. CASE ReportWarning  BY <2>16 DEF ReportWarning
  <2>17. CASE FinishCommit  BY <2>17 DEF FinishCommit
  <2>18. CASE Unblock  BY <2>18 DEF Unblock
  <2>19. CASE UnlinkTemp  BY <2>19 DEF UnlinkTemp, Unlinked
  <2>20. CASE CheckOwnedTemp  BY <2>20 DEF CheckOwnedTemp, SameVersion, Identity
  <2>21. CASE DiscardTemp  BY <2>21 DEF DiscardTemp, Unlinked
  <2> QED  BY <1>1, <2>1, <2>2, <2>3, <2>4, <2>5, <2>6, <2>7, <2>8,
              <2>9, <2>10, <2>11, <2>12, <2>13, <2>14, <2>15, <2>16,
              <2>17, <2>18, <2>19, <2>20, <2>21 DEF Tool
<1>2. CASE Editor
  <2>1. ASSUME NEW i \in File, NEW v \in Edits, EditorSaves(i, v) PROVE AuditInv'
    BY <2>1 DEF EditorSaves, Unwritten, Replaced
  <2>2. CASE EditorDeletes  BY <2>2 DEF EditorDeletes, Unlinked, Replaced
  <2>3. CASE EditorOpens    BY <2>3 DEF EditorOpens
  <2>4. ASSUME NEW v \in Edits, EditorWrites(v) PROVE AuditInv'
    BY <2>4 DEF EditorWrites, Unwritten, Audited, Linked
  <2> QED  BY <1>2, <2>1, <2>2, <2>3, <2>4 DEF Editor
<1>3. CASE Sigterm  BY <1>3 DEF Sigterm, AfterRaise
<1>4. CASE Kill     BY <1>4 DEF Kill
<1>5. CASE UNCHANGED vars  BY <1>5 DEF vars
<1> QED  BY <1>1, <1>2, <1>3, <1>4, <1>5 DEF Next

(* No step drops a saved version.                                            *)
LEMMA KeptStep == TypeOK /\ PlaceInv /\ AuditInv /\ KeptInv /\ [Next]_vars => KeptInv'
<1> USE CommitAssumption DEF CommitAssumption, TypeOK, PlaceInv, AuditInv, KeptInv, At, Owed, Private, Names, Version,
        Step, Raise, Quiet, user, message, UserStep
<1> SUFFICES ASSUME TypeOK, PlaceInv, AuditInv, KeptInv, [Next]_vars PROVE KeptInv'
  OBVIOUS
<1>1. CASE Tool
  <2>1. CASE CheckBaseline  BY <2>1 DEF CheckBaseline, SameVersion, Identity
  <2>2. CASE CreateTemp  BY <2>2 DEF CreateTemp
  <2>3. CASE WriteTemp  BY <2>3 DEF WriteTemp
  <2>4. CASE PersistIntent  BY <2>4 DEF PersistIntent
  <2>5. CASE Revalidate  BY <2>5 DEF Revalidate, SameVersion, Identity
  <2>6. CASE PublishMissing  BY <2>6 DEF PublishMissing, Moved
  <2>7. CASE PublishExchange  BY <2>7 DEF PublishExchange, Exchange, Identity
  <2>8. CASE ParkDisplaced  BY <2>8 DEF ParkDisplaced, Moved
  <2>9. CASE Unpark  BY <2>9 DEF Unpark, Exchange
  <2>10. CASE AuditDisplaced  BY <2>10 DEF AuditDisplaced, SameVersion, Identity
  <2>11. CASE UnlinkRecovery  BY <2>11 DEF UnlinkRecovery, Unlinked
  <2>12. CASE Restore  BY <2>12 DEF Restore, Exchange
  <2>13. CASE CheckOwnedRecovery  BY <2>13 DEF CheckOwnedRecovery, SameVersion, Identity
  <2>14. CASE RemoveOwnedRecovery  BY <2>14 DEF RemoveOwnedRecovery, Unlinked
  <2>15. CASE SyncRestored  BY <2>15 DEF SyncRestored
  <2>16. CASE ReportWarning  BY <2>16 DEF ReportWarning
  <2>17. CASE FinishCommit  BY <2>17 DEF FinishCommit
  <2>18. CASE Unblock  BY <2>18 DEF Unblock
  <2>19. CASE UnlinkTemp  BY <2>19 DEF UnlinkTemp, Unlinked
  <2>20. CASE CheckOwnedTemp  BY <2>20 DEF CheckOwnedTemp, SameVersion, Identity
  <2>21. CASE DiscardTemp  BY <2>21 DEF DiscardTemp, Unlinked
  <2> QED  BY <1>1, <2>1, <2>2, <2>3, <2>4, <2>5, <2>6, <2>7, <2>8,
              <2>9, <2>10, <2>11, <2>12, <2>13, <2>14, <2>15, <2>16,
              <2>17, <2>18, <2>19, <2>20, <2>21 DEF Tool
<1>2. CASE Editor
  <2>1. ASSUME NEW i \in File, NEW v \in Edits, EditorSaves(i, v) PROVE KeptInv'
    BY <2>1 DEF EditorSaves, Unwritten, Replaced
  <2>2. CASE EditorDeletes  BY <2>2 DEF EditorDeletes, Unlinked, Replaced
  <2>3. CASE EditorOpens    BY <2>3 DEF EditorOpens
  <2>4. ASSUME NEW v \in Edits, EditorWrites(v) PROVE KeptInv'
    BY <2>4 DEF EditorWrites, Unwritten, Audited, Linked
  <2> QED  BY <1>2, <2>1, <2>2, <2>3, <2>4 DEF Editor
<1>3. CASE Sigterm  BY <1>3 DEF Sigterm, AfterRaise
<1>4. CASE Kill     BY <1>4 DEF Kill
<1>5. CASE UNCHANGED vars  BY <1>5 DEF vars
<1> QED  BY <1>1, <1>2, <1>3, <1>4, <1>5 DEF Next

(* The outcome follows what the publication displaced.                       *)
LEMMA DisplacedStep == TypeOK /\ PlaceInv /\ DisplacedInv /\ [Next]_vars => DisplacedInv'
<1> USE CommitAssumption DEF CommitAssumption, TypeOK, PlaceInv, DisplacedInv, Gone, Private, Names, Version, Blocked, Labels, Outcomes, Missing, Identities,
        Step, Raise, Quiet, user, message, UserStep
<1> SUFFICES ASSUME TypeOK, PlaceInv, DisplacedInv, [Next]_vars PROVE DisplacedInv'
  OBVIOUS
<1>1. CASE Tool
  <2>1. CASE CheckBaseline  BY <2>1 DEF CheckBaseline, SameVersion, Identity
  <2>2. CASE CreateTemp  BY <2>2 DEF CreateTemp
  <2>3. CASE WriteTemp  BY <2>3 DEF WriteTemp
  <2>4. CASE PersistIntent  BY <2>4 DEF PersistIntent
  <2>5. CASE Revalidate  BY <2>5 DEF Revalidate, SameVersion, Identity
  <2>6. CASE PublishMissing  BY <2>6 DEF PublishMissing, Moved
  <2>7. CASE PublishExchange  BY <2>7 DEF PublishExchange, Exchange, Identity
  <2>8. CASE ParkDisplaced  BY <2>8 DEF ParkDisplaced, Moved
  <2>9. CASE Unpark  BY <2>9 DEF Unpark, Exchange
  <2>10. CASE AuditDisplaced  BY <2>10 DEF AuditDisplaced, SameVersion, Identity
  <2>11. CASE UnlinkRecovery  BY <2>11 DEF UnlinkRecovery, Unlinked
  <2>12. CASE Restore  BY <2>12 DEF Restore, Exchange
  <2>13. CASE CheckOwnedRecovery  BY <2>13 DEF CheckOwnedRecovery, SameVersion, Identity
  <2>14. CASE RemoveOwnedRecovery  BY <2>14 DEF RemoveOwnedRecovery, Unlinked
  <2>15. CASE SyncRestored  BY <2>15 DEF SyncRestored
  <2>16. CASE ReportWarning  BY <2>16 DEF ReportWarning
  <2>17. CASE FinishCommit  BY <2>17 DEF FinishCommit
  <2>18. CASE Unblock  BY <2>18 DEF Unblock
  <2>19. CASE UnlinkTemp  BY <2>19 DEF UnlinkTemp, Unlinked
  <2>20. CASE CheckOwnedTemp  BY <2>20 DEF CheckOwnedTemp, SameVersion, Identity
  <2>21. CASE DiscardTemp  BY <2>21 DEF DiscardTemp, Unlinked
  <2> QED  BY <1>1, <2>1, <2>2, <2>3, <2>4, <2>5, <2>6, <2>7, <2>8,
              <2>9, <2>10, <2>11, <2>12, <2>13, <2>14, <2>15, <2>16,
              <2>17, <2>18, <2>19, <2>20, <2>21 DEF Tool
<1>2. CASE Editor
  <2>1. ASSUME NEW i \in File, NEW v \in Edits, EditorSaves(i, v) PROVE DisplacedInv'
    BY <2>1 DEF EditorSaves, Unwritten, Replaced
  <2>2. CASE EditorDeletes  BY <2>2 DEF EditorDeletes, Unlinked, Replaced
  <2>3. CASE EditorOpens    BY <2>3 DEF EditorOpens
  <2>4. ASSUME NEW v \in Edits, EditorWrites(v) PROVE DisplacedInv'
    BY <2>4 DEF EditorWrites, Unwritten, Audited, Linked
  <2> QED  BY <1>2, <2>1, <2>2, <2>3, <2>4 DEF Editor
<1>3. CASE Sigterm  BY <1>3 DEF Sigterm, AfterRaise
<1>4. CASE Kill     BY <1>4 DEF Kill
<1>5. CASE UNCHANGED vars  BY <1>5 DEF vars
<1> QED  BY <1>1, <1>2, <1>3, <1>4, <1>5 DEF Next

(* The message names what is left behind.                                     *)
LEMMA HiddenStep == TypeOK /\ PlaceInv /\ DisplacedInv /\ HiddenInv /\ [Next]_vars => HiddenInv'
<1> USE CommitAssumption DEF CommitAssumption, TypeOK, PlaceInv, DisplacedInv, HiddenInv, Clean, Gone, Private, Names, Version, Blocked, Labels, Outcomes, Missing, Identities,
        Step, Raise, Quiet, user, message, UserStep
<1> SUFFICES ASSUME TypeOK, PlaceInv, DisplacedInv, HiddenInv, [Next]_vars PROVE HiddenInv'
  OBVIOUS
<1>1. CASE Tool
  <2>1. CASE CheckBaseline  BY <2>1 DEF CheckBaseline, SameVersion, Identity
  <2>2. CASE CreateTemp  BY <2>2 DEF CreateTemp
  <2>3. CASE WriteTemp  BY <2>3 DEF WriteTemp
  <2>4. CASE PersistIntent  BY <2>4 DEF PersistIntent
  <2>5. CASE Revalidate  BY <2>5 DEF Revalidate, SameVersion, Identity
  <2>6. CASE PublishMissing  BY <2>6 DEF PublishMissing, Moved
  <2>7. CASE PublishExchange  BY <2>7 DEF PublishExchange, Exchange, Identity
  <2>8. CASE ParkDisplaced  BY <2>8 DEF ParkDisplaced, Moved
  <2>9. CASE Unpark  BY <2>9 DEF Unpark, Exchange
  <2>10. CASE AuditDisplaced  BY <2>10 DEF AuditDisplaced, SameVersion, Identity
  <2>11. CASE UnlinkRecovery  BY <2>11 DEF UnlinkRecovery, Unlinked
  <2>12. CASE Restore  BY <2>12 DEF Restore, Exchange
  <2>13. CASE CheckOwnedRecovery  BY <2>13 DEF CheckOwnedRecovery, SameVersion, Identity
  <2>14. CASE RemoveOwnedRecovery  BY <2>14 DEF RemoveOwnedRecovery, Unlinked
  <2>15. CASE SyncRestored  BY <2>15 DEF SyncRestored
  <2>16. CASE ReportWarning  BY <2>16 DEF ReportWarning
  <2>17. CASE FinishCommit  BY <2>17 DEF FinishCommit
  <2>18. CASE Unblock  BY <2>18 DEF Unblock
  <2>19. CASE UnlinkTemp  BY <2>19 DEF UnlinkTemp, Unlinked
  <2>20. CASE CheckOwnedTemp  BY <2>20 DEF CheckOwnedTemp, SameVersion, Identity
  <2>21. CASE DiscardTemp  BY <2>21 DEF DiscardTemp, Unlinked
  <2> QED  BY <1>1, <2>1, <2>2, <2>3, <2>4, <2>5, <2>6, <2>7, <2>8,
              <2>9, <2>10, <2>11, <2>12, <2>13, <2>14, <2>15, <2>16,
              <2>17, <2>18, <2>19, <2>20, <2>21 DEF Tool
<1>2. CASE Editor
  <2>1. ASSUME NEW i \in File, NEW v \in Edits, EditorSaves(i, v) PROVE HiddenInv'
    BY <2>1 DEF EditorSaves, Unwritten, Replaced
  <2>2. CASE EditorDeletes  BY <2>2 DEF EditorDeletes, Unlinked, Replaced
  <2>3. CASE EditorOpens    BY <2>3 DEF EditorOpens
  <2>4. ASSUME NEW v \in Edits, EditorWrites(v) PROVE HiddenInv'
    BY <2>4 DEF EditorWrites, Unwritten, Audited, Linked
  <2> QED  BY <1>2, <2>1, <2>2, <2>3, <2>4 DEF Editor
<1>3. CASE Sigterm  BY <1>3 DEF Sigterm, AfterRaise
<1>4. CASE Kill     BY <1>4 DEF Kill
<1>5. CASE UNCHANGED vars  BY <1>5 DEF vars
<1> QED  BY <1>1, <1>2, <1>3, <1>4, <1>5 DEF Next

-----------------------------------------------------------------------------
CommitInv == TypeOK /\ PlaceInv /\ AuditInv /\ KeptInv /\ DisplacedInv
             /\ HiddenInv

(* The inductive invariant the theorems below follow from.                   *)
LEMMA CommitInvariant == Spec => []CommitInv
<1>1. Init => CommitInv
  <2> USE CommitAssumption DEF CommitAssumption, Init, Names, Missing
  <2> SUFFICES ASSUME Init PROVE CommitInv
    OBVIOUS
  <2>1. TypeOK
    <3>1. baseline \in Identities /\ displaced \in Identities
      BY DEF Identities, Version
    <3>2. saved \in SUBSET Version
      BY DEF Version
    <3> QED  BY <3>1, <3>2 DEF TypeOK, Version, Labels, Outcomes
  <2>2. PlaceInv      BY DEF PlaceInv, Private
  <2>3. AuditInv      BY DEF AuditInv
  <2>4. KeptInv       BY DEF KeptInv, Owed, At
  <2>5. DisplacedInv  BY DEF DisplacedInv, Gone
  <2>6. HiddenInv     BY DEF HiddenInv
  <2> QED  BY <2>1, <2>2, <2>3, <2>4, <2>5, <2>6 DEF CommitInv
<1>2. CommitInv /\ [Next]_vars => CommitInv'
  BY TypeStep, PlaceStep, AuditStep, KeptStep, DisplacedStep, HiddenStep DEF CommitInv
<1> QED  BY <1>1, <1>2, PTL DEF Spec

(* Type correctness.                                                        *)
THEOREM TypeCorrect == Spec => []TypeOK
BY CommitInvariant, PTL DEF CommitInv

(* Whatever the editor does, whichever calls fail, and wherever the tool is  *)
(* killed: what the user saved stays in the directory.                       *)
THEOREM SavedDataIsKept == Spec => []NoSavedDataLost
<1>1. CommitInv => NoSavedDataLost
  <2> SUFFICES ASSUME CommitInv, NEW v \in Owed PROVE v \in Found
    BY DEF NoSavedDataLost
  <2> QED  BY DEF CommitInv, KeptInv, At, Found, Names
<1> QED  BY <1>1, CommitInvariant, PTL

(* A failure that sends no warning leaves no replacement in place.           *)
THEOREM FailureIsRestored == Spec => []FailureRestores
<1>1. CommitInv => FailureRestores
  BY DEF CommitInv, DisplacedInv, FailureRestores
<1> QED  BY <1>1, CommitInvariant, PTL

(* Saved data left under a hidden name is named to the caller.               *)
THEOREM RetainedIsNamed == Spec => []RetainedDataIsNamed
<1>1. CommitInv => RetainedDataIsNamed
  BY DEF CommitInv, HiddenInv, Clean, Private, RetainedDataIsNamed, Hidden
<1> QED  BY <1>1, CommitInvariant, PTL

(* "OK" means that exactly the version the tool read was replaced.           *)
THEOREM SuccessIsExact == Spec => []SuccessReplacedBaseline
<1>1. CommitInv => SuccessReplacedBaseline
  BY DEF CommitInv, DisplacedInv, SuccessReplacedBaseline
<1> QED  BY <1>1, CommitInvariant, PTL

=============================================================================
