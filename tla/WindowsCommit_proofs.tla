------------------------- MODULE WindowsCommit_proofs -------------------------
(***************************************************************************)
(* Proofs about WindowsCommit, for any number of files and edits.           *)
(*                                                                          *)
(* Where the four names lead at each stage (PlaceInv) decides what the next *)
(* delete removes (AuditInv), and with it that each version owed is under   *)
(* one of them (KeptInv).  ResultInv and NamedInv follow what the call will *)
(* say about what it leaves.                                                *)
(***************************************************************************)
EXTENDS WindowsCommit, TLAPS

(* The replacement's file is known to nobody but the tool.                   *)
Private == entry["target"] # Ours /\ held # Ours /\ data[Ours] \notin Edits \cup {Original}

(* Where the four names lead at each stage of the call.                      *)
Before  == {"check", "create"}
Written == {"write", "intent", "revalidate", "publish", "publishPartial"}
Ending  == {"cleanup", "cleanupDelete", "done", "dead"}

PlaceInv ==
  /\ baseline \in {Missing, [file |-> FirstFile, version |-> Original]}
  /\ \A m, n \in Names : entry[m] = entry[n] /\ entry[m] # NoFile => m = n
  /\ \A n \in Names : entry[n] # NoFile => data[entry[n]] # NoVersion
  /\ pc \in Before => Private /\ entry["temp"] = NoFile
  /\ pc \in Written => Private /\ entry["temp"] = Ours
  /\ pc \notin Written \cup Ending => entry["temp"] = NoFile
  /\ pc \in Ending /\ entry["temp"] # NoFile => Private /\ entry["temp"] = Ours
  /\ pc = "cleanupDelete" => entry["temp"] = Ours
  /\ pc \in Before \cup (Written \ {"publishPartial"}) => entry["displaced"] = NoFile
  /\ pc \in {"publishPartial", "parentAudit", "audit", "delete", "rollbackPartial"} =>
       entry["displaced"] \notin {Ours, NoFile}
  /\ pc = "rollback" => entry["displaced"] # Ours
  /\ pc \in {"rollbackAudit", "reclaim", "reclaimDelete"} => entry["displaced"] = NoFile
  /\ pc \in Before \cup Written \cup {"parentAudit", "audit", "delete", "rollback", "warn"}
       => entry["recovery"] = NoFile
  /\ pc \in {"rollbackPartial", "rollbackAudit", "reclaim", "reclaimDelete"} =>
       entry["recovery"] # NoFile

(* What the next delete removes is the original, the replacement, or a       *)
(* version written too late to be seen.                                      *)
AuditInv ==
  /\ saved \cap late = {} /\ saved \subseteq Edits \cup {Original}
  /\ pc = "write" => data[Ours] = Partial
  /\ pc = "delete" => data[entry["displaced"]] \in late \cup {Original}
  /\ pc = "reclaimDelete" => data[entry["recovery"]] \in late \cup {Replacement}
  /\ pc = "cleanupDelete" => data[entry["temp"]] = Replacement

(* Each version owed is under one of the names.                              *)
KeptInv == \A v \in Owed : \E n \in Names : entry[n] # NoFile /\ data[entry[n]] = v

(* What publication displaced, and what the call will say of it.             *)
Unpublished == {"check", "create", "write", "intent", "revalidate", "publish"}
Silent(outcomes) == outcome \in outcomes /\ ~warned /\ "escape" \notin gaps
ResultInv ==
  /\ pc \in Unpublished => published = Missing /\ outcome = "none"
  /\ pc \in {"publishPartial", "parentAudit", "audit", "delete"} => outcome = "none"
  /\ pc \in {"parentAudit", "audit"} =>
       /\ baseline # Missing /\ published.file = entry["displaced"]
       /\ data[published.file] = Original => published.version = Original
  /\ pc = "delete" \/ outcome = "ok" => published = baseline
  /\ outcome = "ok" => pc = "done"
  /\ pc = "warn" => outcome = "warning"
  /\ pc \in {"rollbackPartial", "rollbackAudit", "reclaim", "reclaimDelete"} =>
       entry["target"] # Ours
  /\ pc \in {"cleanup", "cleanupDelete", "done"} /\ Silent({"conflict", "failed"}) =>
       entry["target"] # Ours \/ "displaced" \in named

(* What the call leaves under a private name is named.                       *)
Retains(n) == entry[n] # NoFile => n \in named
NamedInv ==
  /\ pc = "warn" /\ gaps = {} => Retains("displaced")
  /\ /\ pc \in {"cleanup", "cleanupDelete", "done"} /\ gaps = {}
     /\ ~(warned /\ outcome = "failed")
     => Retains("displaced") /\ Retains("recovery")

CommitInv == TypeOK /\ PlaceInv /\ AuditInv /\ KeptInv /\ ResultInv /\ NamedInv

-----------------------------------------------------------------------------
(* Types, step by step.                                                     *)
LEMMA TypeStep == TypeOK /\ [Next]_vars => TypeOK'
<1> SUFFICES ASSUME TypeOK, [Next]_vars PROVE TypeOK'
  OBVIOUS
<1> USE WindowsAssumption DEF WindowsAssumption, Step, Quiet, Goes, Raise,
   RaiseNaming, RaiseWithGap, Escape, Links, Retained, UserStep, user, message, TypeOK,
   Names, Version, Labels, Outcomes, Gaps, Identities, Missing
<1>1. CASE Tool
  <2>1. CASE CheckBaseline
    BY <2>1 DEF CheckBaseline, SameVersion, Identity
  <2>2. CASE CreateTemp
    <3>1. entry' \in [Names -> File \cup {Ours, NoFile}]
      BY <2>2 DEF CreateTemp
    <3>2. data' \in [File \cup {Ours} -> Version]
      BY <2>2 DEF CreateTemp
    <3>3. baseline' \in Identities /\ published' \in Identities
      BY <2>2 DEF CreateTemp
    <3>4. pc' \in Labels /\ outcome' \in Outcomes
      BY <2>2 DEF CreateTemp
    <3>5. warned' \in BOOLEAN /\ named' \subseteq Names /\ gaps' \subseteq Gaps
      BY <2>2 DEF CreateTemp
    <3>6. /\ held' \in File \cup {Ours, NoFile}
          /\ saved' \subseteq Version /\ late' \subseteq Edits
      BY <2>2 DEF CreateTemp
    <3> QED
      BY <3>1, <3>2, <3>3, <3>4, <3>5, <3>6
  <2>3. CASE WriteTemp
    <3>1. entry' \in [Names -> File \cup {Ours, NoFile}]
      BY <2>3 DEF WriteTemp, Unlinked
    <3>2. data' \in [File \cup {Ours} -> Version]
      BY <2>3 DEF WriteTemp, Unlinked
    <3>3. baseline' \in Identities /\ published' \in Identities
      BY <2>3 DEF WriteTemp, Unlinked
    <3>4. pc' \in Labels /\ outcome' \in Outcomes
      BY <2>3 DEF WriteTemp, Unlinked
    <3>5. warned' \in BOOLEAN /\ named' \subseteq Names /\ gaps' \subseteq Gaps
      BY <2>3 DEF WriteTemp, Unlinked
    <3>6. /\ held' \in File \cup {Ours, NoFile}
          /\ saved' \subseteq Version /\ late' \subseteq Edits
      BY <2>3 DEF WriteTemp, Unlinked
    <3> QED
      BY <3>1, <3>2, <3>3, <3>4, <3>5, <3>6
  <2>4. CASE PersistIntent
    BY <2>4 DEF PersistIntent
  <2>5. CASE Revalidate
    BY <2>5 DEF Revalidate, SameVersion, Identity
  <2>6. CASE PublishMissing
    <3>1. entry' \in [Names -> File \cup {Ours, NoFile}]
      BY <2>6 DEF PublishMissing, Renamed
    <3>2. data' \in [File \cup {Ours} -> Version]
      BY <2>6 DEF PublishMissing, Renamed
    <3>3. baseline' \in Identities /\ published' \in Identities
      BY <2>6 DEF PublishMissing, Renamed
    <3>4. pc' \in Labels /\ outcome' \in Outcomes
      BY <2>6 DEF PublishMissing, Renamed
    <3>5. warned' \in BOOLEAN /\ named' \subseteq Names /\ gaps' \subseteq Gaps
      BY <2>6 DEF PublishMissing, Renamed
    <3>6. /\ held' \in File \cup {Ours, NoFile}
          /\ saved' \subseteq Version /\ late' \subseteq Edits
      BY <2>6 DEF PublishMissing, Renamed
    <3> QED
      BY <3>1, <3>2, <3>3, <3>4, <3>5, <3>6
  <2>7. CASE PublishReplace
    <3>1. entry' \in [Names -> File \cup {Ours, NoFile}]
      BY <2>7 DEF PublishReplace, SameVersion, Identity, ReplaceFile, PartialReplace,
         Renamed
    <3>2. data' \in [File \cup {Ours} -> Version]
      BY <2>7 DEF PublishReplace, SameVersion, Identity, ReplaceFile, PartialReplace,
         Renamed
    <3>3. baseline' \in Identities /\ published' \in Identities
      BY <2>7 DEF PublishReplace, SameVersion, Identity, ReplaceFile, PartialReplace,
         Renamed
    <3>4. pc' \in Labels /\ outcome' \in Outcomes
      BY <2>7 DEF PublishReplace, SameVersion, Identity, ReplaceFile, PartialReplace,
         Renamed
    <3>5. warned' \in BOOLEAN /\ named' \subseteq Names /\ gaps' \subseteq Gaps
      BY <2>7 DEF PublishReplace, SameVersion, Identity, ReplaceFile, PartialReplace,
         Renamed
    <3>6. /\ held' \in File \cup {Ours, NoFile}
          /\ saved' \subseteq Version /\ late' \subseteq Edits
      BY <2>7 DEF PublishReplace, SameVersion, Identity, ReplaceFile, PartialReplace,
         Renamed
    <3> QED
      BY <3>1, <3>2, <3>3, <3>4, <3>5, <3>6
  <2>8. CASE RecoverPartial
    <3>1. entry' \in [Names -> File \cup {Ours, NoFile}]
      BY <2>8 DEF RecoverPartial, Renamed
    <3>2. data' \in [File \cup {Ours} -> Version]
      BY <2>8 DEF RecoverPartial, Renamed
    <3>3. baseline' \in Identities /\ published' \in Identities
      BY <2>8 DEF RecoverPartial, Renamed
    <3>4. pc' \in Labels /\ outcome' \in Outcomes
      BY <2>8 DEF RecoverPartial, Renamed
    <3>5. warned' \in BOOLEAN /\ named' \subseteq Names /\ gaps' \subseteq Gaps
      BY <2>8 DEF RecoverPartial, Renamed
    <3>6. /\ held' \in File \cup {Ours, NoFile}
          /\ saved' \subseteq Version /\ late' \subseteq Edits
      BY <2>8 DEF RecoverPartial, Renamed
    <3> QED
      BY <3>1, <3>2, <3>3, <3>4, <3>5, <3>6
  <2>9. CASE AuditParent
    BY <2>9 DEF AuditParent
  <2>10. CASE AuditDisplaced
    BY <2>10 DEF AuditDisplaced, SameVersion, Identity, Unreadable
  <2>11. CASE DeleteDisplaced
    <3>1. entry' \in [Names -> File \cup {Ours, NoFile}]
      BY <2>11 DEF DeleteDisplaced, Unlinked
    <3>2. data' \in [File \cup {Ours} -> Version]
      BY <2>11 DEF DeleteDisplaced, Unlinked
    <3>3. baseline' \in Identities /\ published' \in Identities
      BY <2>11 DEF DeleteDisplaced, Unlinked
    <3>4. pc' \in Labels /\ outcome' \in Outcomes
      BY <2>11 DEF DeleteDisplaced, Unlinked
    <3>5. warned' \in BOOLEAN /\ named' \subseteq Names /\ gaps' \subseteq Gaps
      BY <2>11 DEF DeleteDisplaced, Unlinked
    <3>6. /\ held' \in File \cup {Ours, NoFile}
          /\ saved' \subseteq Version /\ late' \subseteq Edits
      BY <2>11 DEF DeleteDisplaced, Unlinked
    <3> QED
      BY <3>1, <3>2, <3>3, <3>4, <3>5, <3>6
  <2>12. CASE Rollback
    <3>1. entry' \in [Names -> File \cup {Ours, NoFile}]
      BY <2>12 DEF Rollback, ReplaceFile, PartialReplace, Renamed
    <3>2. data' \in [File \cup {Ours} -> Version]
      BY <2>12 DEF Rollback, ReplaceFile, PartialReplace, Renamed
    <3>3. baseline' \in Identities /\ published' \in Identities
      BY <2>12 DEF Rollback, ReplaceFile, PartialReplace, Renamed
    <3>4. pc' \in Labels /\ outcome' \in Outcomes
      BY <2>12 DEF Rollback, ReplaceFile, PartialReplace, Renamed
    <3>5. warned' \in BOOLEAN /\ named' \subseteq Names /\ gaps' \subseteq Gaps
      BY <2>12 DEF Rollback, ReplaceFile, PartialReplace, Renamed
    <3>6. /\ held' \in File \cup {Ours, NoFile}
          /\ saved' \subseteq Version /\ late' \subseteq Edits
      BY <2>12 DEF Rollback, ReplaceFile, PartialReplace, Renamed
    <3> QED
      BY <3>1, <3>2, <3>3, <3>4, <3>5, <3>6
  <2>13. CASE RecoverPartialRollback
    <3>1. entry' \in [Names -> File \cup {Ours, NoFile}]
      BY <2>13 DEF RecoverPartialRollback, Renamed
    <3>2. data' \in [File \cup {Ours} -> Version]
      BY <2>13 DEF RecoverPartialRollback, Renamed
    <3>3. baseline' \in Identities /\ published' \in Identities
      BY <2>13 DEF RecoverPartialRollback, Renamed
    <3>4. pc' \in Labels /\ outcome' \in Outcomes
      BY <2>13 DEF RecoverPartialRollback, Renamed
    <3>5. warned' \in BOOLEAN /\ named' \subseteq Names /\ gaps' \subseteq Gaps
      BY <2>13 DEF RecoverPartialRollback, Renamed
    <3>6. /\ held' \in File \cup {Ours, NoFile}
          /\ saved' \subseteq Version /\ late' \subseteq Edits
      BY <2>13 DEF RecoverPartialRollback, Renamed
    <3> QED
      BY <3>1, <3>2, <3>3, <3>4, <3>5, <3>6
  <2>14. CASE AuditParentAgain
    BY <2>14 DEF AuditParentAgain
  <2>15. CASE Reclaim
    BY <2>15 DEF Reclaim, SameVersion, Identity, Unreadable, Replaces
  <2>16. CASE DeleteReclaimed
    <3>1. entry' \in [Names -> File \cup {Ours, NoFile}]
      BY <2>16 DEF DeleteReclaimed, Unlinked
    <3>2. data' \in [File \cup {Ours} -> Version]
      BY <2>16 DEF DeleteReclaimed, Unlinked
    <3>3. baseline' \in Identities /\ published' \in Identities
      BY <2>16 DEF DeleteReclaimed, Unlinked
    <3>4. pc' \in Labels /\ outcome' \in Outcomes
      BY <2>16 DEF DeleteReclaimed, Unlinked
    <3>5. warned' \in BOOLEAN /\ named' \subseteq Names /\ gaps' \subseteq Gaps
      BY <2>16 DEF DeleteReclaimed, Unlinked
    <3>6. /\ held' \in File \cup {Ours, NoFile}
          /\ saved' \subseteq Version /\ late' \subseteq Edits
      BY <2>16 DEF DeleteReclaimed, Unlinked
    <3> QED
      BY <3>1, <3>2, <3>3, <3>4, <3>5, <3>6
  <2>17. CASE ReportWarning
    <3>1. entry' \in [Names -> File \cup {Ours, NoFile}]
      BY <2>17 DEF ReportWarning
    <3>2. data' \in [File \cup {Ours} -> Version]
      BY <2>17 DEF ReportWarning
    <3>3. baseline' \in Identities /\ published' \in Identities
      BY <2>17 DEF ReportWarning
    <3>4. pc' \in Labels /\ outcome' \in Outcomes
      BY <2>17 DEF ReportWarning
    <3>5. warned' \in BOOLEAN /\ named' \subseteq Names /\ gaps' \subseteq Gaps
      BY <2>17 DEF ReportWarning
    <3>6. /\ held' \in File \cup {Ours, NoFile}
          /\ saved' \subseteq Version /\ late' \subseteq Edits
      BY <2>17 DEF ReportWarning
    <3> QED
      BY <3>1, <3>2, <3>3, <3>4, <3>5, <3>6
  <2>18. CASE CheckOwnedTemp
    BY <2>18 DEF CheckOwnedTemp, SameVersion, Identity, Replaces
  <2>19. CASE DiscardTemp
    BY <2>19 DEF DiscardTemp, Unlinked
  <2> QED
    BY <1>1, <2>1, <2>2, <2>3, <2>4, <2>5, <2>6, <2>7, <2>8, <2>9, <2>10, <2>11,
       <2>12, <2>13, <2>14, <2>15, <2>16, <2>17, <2>18, <2>19 DEF Tool
<1>2. CASE Kill
  BY <1>2 DEF Kill
<1>3. CASE Editor
  <2>1. ASSUME NEW f \in File, NEW v \in Edits, EditorSaves(f, v) PROVE TypeOK'
    BY <2>1 DEF EditorSaves, Unwritten, Replaced
  <2>2. CASE EditorDeletes
    BY <2>2 DEF EditorDeletes, Unlinked, Replaced
  <2>3. CASE EditorOpens
    BY <2>3 DEF EditorOpens
  <2>4. ASSUME NEW v \in Edits, EditorWrites(v) PROVE TypeOK'
    BY <2>4 DEF EditorWrites, Unwritten, Audited, Linked
  <2> QED
    BY <1>3, <2>1, <2>2, <2>3, <2>4 DEF Editor
<1>4. CASE UNCHANGED vars
  BY <1>4 DEF vars
<1> QED
  BY <1>1, <1>2, <1>3, <1>4 DEF Next

(* Where the names lead.                                                    *)
LEMMA PlaceStep == TypeOK /\ PlaceInv /\ AuditInv /\ [Next]_vars => PlaceInv'
<1> SUFFICES ASSUME TypeOK, PlaceInv, AuditInv, [Next]_vars PROVE PlaceInv'
  OBVIOUS
<1> USE WindowsAssumption DEF WindowsAssumption, Step, Quiet, Goes, Raise,
   RaiseNaming, RaiseWithGap, Escape, Links, Retained, UserStep, user, message, TypeOK,
   Names, Missing, AuditInv, PlaceInv, Before, Written, Ending, Private
<1>1. CASE Tool
  <2>1. CASE CheckBaseline
    BY <2>1 DEF CheckBaseline, SameVersion, Identity
  <2>2. CASE CreateTemp
    BY <2>2 DEF CreateTemp
  <2>3. CASE WriteTemp
    BY <2>3 DEF WriteTemp, Unlinked
  <2>4. CASE PersistIntent
    BY <2>4 DEF PersistIntent
  <2>5. CASE Revalidate
    BY <2>5 DEF Revalidate, SameVersion, Identity
  <2>6. CASE PublishMissing
    BY <2>6 DEF PublishMissing, Renamed
  <2>7. CASE PublishReplace
    BY <2>7 DEF PublishReplace, SameVersion, Identity, ReplaceFile, PartialReplace,
       Renamed
  <2>8. CASE RecoverPartial
    BY <2>8 DEF RecoverPartial, Renamed
  <2>9. CASE AuditParent
    BY <2>9 DEF AuditParent
  <2>10. CASE AuditDisplaced
    BY <2>10 DEF AuditDisplaced, SameVersion, Identity, Unreadable
  <2>11. CASE DeleteDisplaced
    BY <2>11 DEF DeleteDisplaced, Unlinked
  <2>12. CASE Rollback
    BY <2>12 DEF Rollback, ReplaceFile, PartialReplace, Renamed
  <2>13. CASE RecoverPartialRollback
    BY <2>13 DEF RecoverPartialRollback, Renamed
  <2>14. CASE AuditParentAgain
    BY <2>14 DEF AuditParentAgain
  <2>15. CASE Reclaim
    BY <2>15 DEF Reclaim, SameVersion, Identity, Unreadable, Replaces
  <2>16. CASE DeleteReclaimed
    BY <2>16 DEF DeleteReclaimed, Unlinked
  <2>17. CASE ReportWarning
    BY <2>17 DEF ReportWarning
  <2>18. CASE CheckOwnedTemp
    BY <2>18 DEF CheckOwnedTemp, SameVersion, Identity, Replaces
  <2>19. CASE DiscardTemp
    BY <2>19 DEF DiscardTemp, Unlinked
  <2> QED
    BY <1>1, <2>1, <2>2, <2>3, <2>4, <2>5, <2>6, <2>7, <2>8, <2>9, <2>10, <2>11,
       <2>12, <2>13, <2>14, <2>15, <2>16, <2>17, <2>18, <2>19 DEF Tool
<1>2. CASE Kill
  BY <1>2 DEF Kill
<1>3. CASE Editor
  <2>1. ASSUME NEW f \in File, NEW v \in Edits, EditorSaves(f, v) PROVE PlaceInv'
    BY <2>1 DEF EditorSaves, Unwritten, Replaced
  <2>2. CASE EditorDeletes
    BY <2>2 DEF EditorDeletes, Unlinked, Replaced
  <2>3. CASE EditorOpens
    BY <2>3 DEF EditorOpens
  <2>4. ASSUME NEW v \in Edits, EditorWrites(v) PROVE PlaceInv'
    BY <2>4 DEF EditorWrites, Unwritten, Audited, Linked
  <2> QED
    BY <1>3, <2>1, <2>2, <2>3, <2>4 DEF Editor
<1>4. CASE UNCHANGED vars
  BY <1>4 DEF vars
<1> QED
  BY <1>1, <1>2, <1>3, <1>4 DEF Next

(* What the next delete removes.                                            *)
LEMMA AuditStep == TypeOK /\ PlaceInv /\ AuditInv /\ [Next]_vars => AuditInv'
<1> SUFFICES ASSUME TypeOK, PlaceInv, AuditInv, [Next]_vars PROVE AuditInv'
  OBVIOUS
<1> USE WindowsAssumption DEF WindowsAssumption, Step, Quiet, Goes, Raise,
   RaiseNaming, RaiseWithGap, Escape, Links, Retained, UserStep, user, message, TypeOK,
   Names, Missing, AuditInv, PlaceInv, Before, Written, Ending, Private
<1>1. CASE Tool
  <2>1. CASE CheckBaseline
    BY <2>1 DEF CheckBaseline, SameVersion, Identity
  <2>2. CASE CreateTemp
    BY <2>2 DEF CreateTemp
  <2>3. CASE WriteTemp
    BY <2>3 DEF WriteTemp, Unlinked
  <2>4. CASE PersistIntent
    BY <2>4 DEF PersistIntent
  <2>5. CASE Revalidate
    BY <2>5 DEF Revalidate, SameVersion, Identity
  <2>6. CASE PublishMissing
    BY <2>6 DEF PublishMissing, Renamed
  <2>7. CASE PublishReplace
    BY <2>7 DEF PublishReplace, SameVersion, Identity, ReplaceFile, PartialReplace,
       Renamed
  <2>8. CASE RecoverPartial
    BY <2>8 DEF RecoverPartial, Renamed
  <2>9. CASE AuditParent
    BY <2>9 DEF AuditParent
  <2>10. CASE AuditDisplaced
    BY <2>10 DEF AuditDisplaced, SameVersion, Identity, Unreadable
  <2>11. CASE DeleteDisplaced
    BY <2>11 DEF DeleteDisplaced, Unlinked
  <2>12. CASE Rollback
    BY <2>12 DEF Rollback, ReplaceFile, PartialReplace, Renamed
  <2>13. CASE RecoverPartialRollback
    BY <2>13 DEF RecoverPartialRollback, Renamed
  <2>14. CASE AuditParentAgain
    BY <2>14 DEF AuditParentAgain
  <2>15. CASE Reclaim
    BY <2>15 DEF Reclaim, SameVersion, Identity, Unreadable, Replaces
  <2>16. CASE DeleteReclaimed
    BY <2>16 DEF DeleteReclaimed, Unlinked
  <2>17. CASE ReportWarning
    BY <2>17 DEF ReportWarning
  <2>18. CASE CheckOwnedTemp
    BY <2>18 DEF CheckOwnedTemp, SameVersion, Identity, Replaces
  <2>19. CASE DiscardTemp
    BY <2>19 DEF DiscardTemp, Unlinked
  <2> QED
    BY <1>1, <2>1, <2>2, <2>3, <2>4, <2>5, <2>6, <2>7, <2>8, <2>9, <2>10, <2>11,
       <2>12, <2>13, <2>14, <2>15, <2>16, <2>17, <2>18, <2>19 DEF Tool
<1>2. CASE Kill
  BY <1>2 DEF Kill
<1>3. CASE Editor
  <2>1. ASSUME NEW f \in File, NEW v \in Edits, EditorSaves(f, v) PROVE AuditInv'
    BY <2>1 DEF EditorSaves, Unwritten, Replaced
  <2>2. CASE EditorDeletes
    BY <2>2 DEF EditorDeletes, Unlinked, Replaced
  <2>3. CASE EditorOpens
    BY <2>3 DEF EditorOpens
  <2>4. ASSUME NEW v \in Edits, EditorWrites(v) PROVE AuditInv'
    BY <2>4 DEF EditorWrites, Unwritten, Audited, Linked
  <2> QED
    BY <1>3, <2>1, <2>2, <2>3, <2>4 DEF Editor
<1>4. CASE UNCHANGED vars
  BY <1>4 DEF vars
<1> QED
  BY <1>1, <1>2, <1>3, <1>4 DEF Next

(* No step takes the last name of a version owed.                           *)
LEMMA KeptStep == TypeOK /\ PlaceInv /\ AuditInv /\ KeptInv /\ [Next]_vars => KeptInv'
<1> SUFFICES ASSUME TypeOK, PlaceInv, AuditInv, KeptInv, [Next]_vars PROVE KeptInv'
  OBVIOUS
<1> USE WindowsAssumption DEF WindowsAssumption, Step, Quiet, Goes, Raise,
   RaiseNaming, RaiseWithGap, Escape, Links, Retained, UserStep, user, message, TypeOK,
   Names, Missing, AuditInv, KeptInv, Owed, PlaceInv, Before, Written, Ending, Private
<1>1. CASE Tool
  <2>1. CASE CheckBaseline
    BY <2>1 DEF CheckBaseline, SameVersion, Identity
  <2>2. CASE CreateTemp
    BY <2>2 DEF CreateTemp
  <2>3. CASE WriteTemp
    BY <2>3 DEF WriteTemp, Unlinked
  <2>4. CASE PersistIntent
    BY <2>4 DEF PersistIntent
  <2>5. CASE Revalidate
    BY <2>5 DEF Revalidate, SameVersion, Identity
  <2>6. CASE PublishMissing
    BY <2>6 DEF PublishMissing, Renamed
  <2>7. CASE PublishReplace
    BY <2>7 DEF PublishReplace, SameVersion, Identity, ReplaceFile, PartialReplace,
       Renamed
  <2>8. CASE RecoverPartial
    BY <2>8 DEF RecoverPartial, Renamed
  <2>9. CASE AuditParent
    BY <2>9 DEF AuditParent
  <2>10. CASE AuditDisplaced
    BY <2>10 DEF AuditDisplaced, SameVersion, Identity, Unreadable
  <2>11. CASE DeleteDisplaced
    BY <2>11 DEF DeleteDisplaced, Unlinked
  <2>12. CASE Rollback
    BY <2>12 DEF Rollback, ReplaceFile, PartialReplace, Renamed
  <2>13. CASE RecoverPartialRollback
    BY <2>13 DEF RecoverPartialRollback, Renamed
  <2>14. CASE AuditParentAgain
    BY <2>14 DEF AuditParentAgain
  <2>15. CASE Reclaim
    BY <2>15 DEF Reclaim, SameVersion, Identity, Unreadable, Replaces
  <2>16. CASE DeleteReclaimed
    BY <2>16 DEF DeleteReclaimed, Unlinked
  <2>17. CASE ReportWarning
    BY <2>17 DEF ReportWarning
  <2>18. CASE CheckOwnedTemp
    BY <2>18 DEF CheckOwnedTemp, SameVersion, Identity, Replaces
  <2>19. CASE DiscardTemp
    BY <2>19 DEF DiscardTemp, Unlinked
  <2> QED
    BY <1>1, <2>1, <2>2, <2>3, <2>4, <2>5, <2>6, <2>7, <2>8, <2>9, <2>10, <2>11,
       <2>12, <2>13, <2>14, <2>15, <2>16, <2>17, <2>18, <2>19 DEF Tool
<1>2. CASE Kill
  BY <1>2 DEF Kill
<1>3. CASE Editor
  <2>1. ASSUME NEW f \in File, NEW v \in Edits, EditorSaves(f, v) PROVE KeptInv'
    BY <2>1 DEF EditorSaves, Unwritten, Replaced
  <2>2. CASE EditorDeletes
    BY <2>2 DEF EditorDeletes, Unlinked, Replaced
  <2>3. CASE EditorOpens
    BY <2>3 DEF EditorOpens
  <2>4. ASSUME NEW v \in Edits, EditorWrites(v) PROVE KeptInv'
    BY <2>4 DEF EditorWrites, Unwritten, Audited, Linked
  <2> QED
    BY <1>3, <2>1, <2>2, <2>3, <2>4 DEF Editor
<1>4. CASE UNCHANGED vars
  BY <1>4 DEF vars
<1> QED
  BY <1>1, <1>2, <1>3, <1>4 DEF Next

(* What was displaced, and what the outcome says of it.                     *)
LEMMA ResultStep == TypeOK /\ PlaceInv /\ AuditInv /\ ResultInv /\ [Next]_vars =>
   ResultInv'
<1> SUFFICES ASSUME TypeOK, PlaceInv, AuditInv, ResultInv, [Next]_vars PROVE ResultInv'
  OBVIOUS
<1> USE WindowsAssumption DEF WindowsAssumption, Step, Quiet, Goes, Raise,
   RaiseNaming, RaiseWithGap, Escape, Links, Retained, UserStep, user, message, TypeOK,
   Names, Missing, AuditInv, ResultInv, Unpublished, Silent, PlaceInv, Before, Written,
   Ending, Private
<1>1. CASE Tool
  <2>1. CASE CheckBaseline
    BY <2>1 DEF CheckBaseline, SameVersion, Identity
  <2>2. CASE CreateTemp
    BY <2>2 DEF CreateTemp
  <2>3. CASE WriteTemp
    BY <2>3 DEF WriteTemp, Unlinked
  <2>4. CASE PersistIntent
    BY <2>4 DEF PersistIntent
  <2>5. CASE Revalidate
    BY <2>5 DEF Revalidate, SameVersion, Identity
  <2>6. CASE PublishMissing
    BY <2>6 DEF PublishMissing, Renamed
  <2>7. CASE PublishReplace
    BY <2>7 DEF PublishReplace, SameVersion, Identity, ReplaceFile, PartialReplace,
       Renamed
  <2>8. CASE RecoverPartial
    BY <2>8 DEF RecoverPartial, Renamed
  <2>9. CASE AuditParent
    BY <2>9 DEF AuditParent
  <2>10. CASE AuditDisplaced
    <3>1. ASSUME SameVersion("displaced", baseline) PROVE published = baseline
      <4>1. /\ published.file = baseline.file /\ published.version = baseline.version
            /\ published \in Identities
        BY <2>10, <3>1 DEF AuditDisplaced, SameVersion, Identity
      <4> QED
        BY <4>1 DEF Identities
    <3> QED
      BY <2>10, <3>1 DEF AuditDisplaced, Unreadable
  <2>11. CASE DeleteDisplaced
    BY <2>11 DEF DeleteDisplaced, Unlinked
  <2>12. CASE Rollback
    BY <2>12 DEF Rollback, ReplaceFile, PartialReplace, Renamed
  <2>13. CASE RecoverPartialRollback
    BY <2>13 DEF RecoverPartialRollback, Renamed
  <2>14. CASE AuditParentAgain
    BY <2>14 DEF AuditParentAgain
  <2>15. CASE Reclaim
    BY <2>15 DEF Reclaim, SameVersion, Identity, Unreadable, Replaces
  <2>16. CASE DeleteReclaimed
    BY <2>16 DEF DeleteReclaimed, Unlinked
  <2>17. CASE ReportWarning
    BY <2>17 DEF ReportWarning
  <2>18. CASE CheckOwnedTemp
    BY <2>18 DEF CheckOwnedTemp, SameVersion, Identity, Replaces
  <2>19. CASE DiscardTemp
    BY <2>19 DEF DiscardTemp, Unlinked
  <2> QED
    BY <1>1, <2>1, <2>2, <2>3, <2>4, <2>5, <2>6, <2>7, <2>8, <2>9, <2>10, <2>11,
       <2>12, <2>13, <2>14, <2>15, <2>16, <2>17, <2>18, <2>19 DEF Tool
<1>2. CASE Kill
  BY <1>2 DEF Kill
<1>3. CASE Editor
  <2>1. ASSUME NEW f \in File, NEW v \in Edits, EditorSaves(f, v) PROVE ResultInv'
    BY <2>1 DEF EditorSaves, Unwritten, Replaced
  <2>2. CASE EditorDeletes
    BY <2>2 DEF EditorDeletes, Unlinked, Replaced
  <2>3. CASE EditorOpens
    BY <2>3 DEF EditorOpens
  <2>4. ASSUME NEW v \in Edits, EditorWrites(v) PROVE ResultInv'
    BY <2>4 DEF EditorWrites, Unwritten, Audited, Linked
  <2> QED
    BY <1>3, <2>1, <2>2, <2>3, <2>4 DEF Editor
<1>4. CASE UNCHANGED vars
  BY <1>4 DEF vars
<1> QED
  BY <1>1, <1>2, <1>3, <1>4 DEF Next

(* What the message names.                                                  *)
LEMMA NamedStep == TypeOK /\ PlaceInv /\ ResultInv /\ NamedInv /\ [Next]_vars => NamedInv'
<1> SUFFICES ASSUME TypeOK, PlaceInv, ResultInv, NamedInv, [Next]_vars PROVE NamedInv'
  OBVIOUS
<1> USE WindowsAssumption DEF WindowsAssumption, Step, Quiet, Goes, Raise,
   RaiseNaming, RaiseWithGap, Escape, Links, Retained, UserStep, user, message, TypeOK,
   Names, NamedInv, Retains, ResultInv, Silent, PlaceInv, Before, Written, Ending,
   Private
<1>1. CASE Tool
  <2>1. CASE CheckBaseline
    BY <2>1 DEF CheckBaseline, SameVersion, Identity
  <2>2. CASE CreateTemp
    BY <2>2 DEF CreateTemp
  <2>3. CASE WriteTemp
    BY <2>3 DEF WriteTemp, Unlinked
  <2>4. CASE PersistIntent
    BY <2>4 DEF PersistIntent
  <2>5. CASE Revalidate
    BY <2>5 DEF Revalidate, SameVersion, Identity
  <2>6. CASE PublishMissing
    BY <2>6 DEF PublishMissing, Renamed
  <2>7. CASE PublishReplace
    BY <2>7 DEF PublishReplace, SameVersion, Identity, ReplaceFile, PartialReplace,
       Renamed
  <2>8. CASE RecoverPartial
    BY <2>8 DEF RecoverPartial, Renamed
  <2>9. CASE AuditParent
    BY <2>9 DEF AuditParent
  <2>10. CASE AuditDisplaced
    BY <2>10 DEF AuditDisplaced, SameVersion, Identity, Unreadable
  <2>11. CASE DeleteDisplaced
    BY <2>11 DEF DeleteDisplaced, Unlinked
  <2>12. CASE Rollback
    BY <2>12 DEF Rollback, ReplaceFile, PartialReplace, Renamed
  <2>13. CASE RecoverPartialRollback
    BY <2>13 DEF RecoverPartialRollback, Renamed
  <2>14. CASE AuditParentAgain
    BY <2>14 DEF AuditParentAgain
  <2>15. CASE Reclaim
    BY <2>15 DEF Reclaim, SameVersion, Identity, Unreadable, Replaces
  <2>16. CASE DeleteReclaimed
    BY <2>16 DEF DeleteReclaimed, Unlinked
  <2>17. CASE ReportWarning
    BY <2>17 DEF ReportWarning
  <2>18. CASE CheckOwnedTemp
    BY <2>18 DEF CheckOwnedTemp, SameVersion, Identity, Replaces
  <2>19. CASE DiscardTemp
    BY <2>19 DEF DiscardTemp, Unlinked
  <2> QED
    BY <1>1, <2>1, <2>2, <2>3, <2>4, <2>5, <2>6, <2>7, <2>8, <2>9, <2>10, <2>11,
       <2>12, <2>13, <2>14, <2>15, <2>16, <2>17, <2>18, <2>19 DEF Tool
<1>2. CASE Kill
  BY <1>2 DEF Kill
<1>3. CASE Editor
  <2>1. ASSUME NEW f \in File, NEW v \in Edits, EditorSaves(f, v) PROVE NamedInv'
    BY <2>1 DEF EditorSaves, Unwritten, Replaced
  <2>2. CASE EditorDeletes
    BY <2>2 DEF EditorDeletes, Unlinked, Replaced
  <2>3. CASE EditorOpens
    BY <2>3 DEF EditorOpens
  <2>4. ASSUME NEW v \in Edits, EditorWrites(v) PROVE NamedInv'
    BY <2>4 DEF EditorWrites, Unwritten, Audited, Linked
  <2> QED
    BY <1>3, <2>1, <2>2, <2>3, <2>4 DEF Editor
<1>4. CASE UNCHANGED vars
  BY <1>4 DEF vars
<1> QED
  BY <1>1, <1>2, <1>3, <1>4 DEF Next

LEMMA InitInv == Init => CommitInv
<1> SUFFICES ASSUME Init PROVE CommitInv
  OBVIOUS
<1> USE WindowsAssumption DEF WindowsAssumption, Init, Missing, Names
<1>1. TypeOK
  <2>1. /\ entry \in [Names -> File \cup {Ours, NoFile}]
        /\ data \in [File \cup {Ours} -> Version]
    BY DEF Version
  <2>2. baseline \in Identities /\ published \in Identities
    BY DEF Identities, Version
  <2>3. saved \subseteq Version /\ late \subseteq Edits
    BY DEF Version
  <2> QED
    BY <2>1, <2>2, <2>3 DEF TypeOK, Version, Labels, Outcomes, Gaps, Identities
<1>2. PlaceInv
  BY DEF PlaceInv, Before, Written, Ending, Private
<1>3. AuditInv
  BY DEF AuditInv
<1>4. KeptInv
  BY DEF KeptInv, Owed
<1>5. ResultInv /\ NamedInv
  BY DEF ResultInv, NamedInv, Unpublished, Silent
<1> QED
  BY <1>1, <1>2, <1>3, <1>4, <1>5 DEF CommitInv

LEMMA Invariance == Spec => []CommitInv
<1>1. CommitInv /\ [Next]_vars => CommitInv'
  BY TypeStep, PlaceStep, AuditStep, KeptStep, ResultStep, NamedStep DEF CommitInv
<1> QED
  BY InitInv, <1>1, PTL DEF Spec

-----------------------------------------------------------------------------
(* Types: the directory, the call and the editor.                            *)
THEOREM TypeCorrect == Spec => []TypeOK
<1>1. CommitInv => TypeOK
  BY DEF CommitInv
<1> QED
  BY Invariance, <1>1, PTL

(* However ReplaceFileW, an audit or a rollback ends, and after a kill, each *)
(* version the user saved is under one of the four names.                    *)
THEOREM SavedDataIsKept == Spec => []NoSavedDataLost
<1>1. CommitInv => NoSavedDataLost
  BY DEF CommitInv, KeptInv, NoSavedDataLost, Found
<1> QED
  BY Invariance, <1>1, PTL

(* A call that raises without a warning, past any audit that ended normally, *)
(* has taken its replacement back or says where the original is.             *)
THEOREM FailureIsRestored == Spec => []FailureRestores
<1>1. CommitInv => FailureRestores
  BY DEF CommitInv, ResultInv, FailureRestores, Refused, Silent
<1> QED
  BY Invariance, <1>1, PTL

(* "OK" is only said when exactly the version the tool had read was taken    *)
(* from the target.                                                          *)
THEOREM SuccessIsExact == Spec => []SuccessReplacedBaseline
<1>1. CommitInv => SuccessReplacedBaseline
  BY DEF CommitInv, ResultInv, SuccessReplacedBaseline
<1> QED
  BY Invariance, <1>1, PTL

(* What a finished call leaves under a private name for the user is named.   *)
THEOREM RetainedIsNamed == Spec => []RetainedDataIsNamed
<1>1. CommitInv => RetainedDataIsNamed
  BY DEF CommitInv, TypeOK, PlaceInv, Ending, Private, NamedInv, Retains,
     RetainedDataIsNamed,
         Owed, Names
<1> QED
  BY Invariance, <1>1, PTL
=============================================================================
