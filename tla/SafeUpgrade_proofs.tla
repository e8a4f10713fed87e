------------------------- MODULE SafeUpgrade_proofs -------------------------
(***************************************************************************)
(* What the automatic upgrade promises for every number of migrations,     *)
(* dumps and entries: proofs of the invariants of SafeUpgrade.             *)
(***************************************************************************)
EXTENDS SafeUpgrade, TLAPS, FiniteSetTheorems

USE MaxSchemaAssumption, RetentionAssumption, MaxBackupsAssumption,
    QualityAssumption

-----------------------------------------------------------------------------
(* What the operations of an upgrade leave of a database.                  *)

\* Every operation on the database yields database contents, and
\* dropping schemas invents no data.
LEMMA DroppedContents ==
    ASSUME NEW d \in Contents, NEW x \in PartlyDropped(d)
    PROVE  x \in Contents /\ x.data \subseteq d.data
<1>1. PICK kept \in SUBSET d.data : x = [d EXCEPT !.whole = FALSE, !.data = kept]
  BY DEF PartlyDropped
<1>2. x = [applied |-> d.applied, whole |-> FALSE, data |-> kept]
  BY <1>1 DEF Contents
<1>3. QED
  BY <1>2 DEF Contents

\* Restoring part of an archive yields contents with some of its data.
LEMMA RestoredContents ==
    ASSUME NEW d \in Contents, NEW x \in PartlyRestored(d)
    PROVE  x \in Contents /\ x.data \subseteq d.data
<1>1. CASE x = EmptyDatabase
  BY <1>1 DEF EmptyDatabase, Contents
<1>2. CASE x # EmptyDatabase
  <2>1. PICK v \in {0, d.applied}, kept \in SUBSET d.data :
            x = [applied |-> v, whole |-> FALSE, data |-> kept]
    BY <1>2 DEF PartlyRestored
  <2>2. QED
    BY <2>1 DEF Contents
<1>3. QED
  BY <1>1, <1>2

\* A database that was reset to its end holds nothing.
LEMMA EmptyContents == EmptyDatabase \in Contents /\ EmptyDatabase.data = {}
  BY DEF EmptyDatabase, Contents

\* One more migration raises the recorded version and changes nothing else.
LEMMA MigratedContents ==
    ASSUME NEW d \in Contents, d.applied < MaxSchema
    PROVE  /\ MigratedOnce(d) \in Contents
           /\ MigratedOnce(d).data = d.data
           /\ MigratedOnce(d).whole = d.whole
           /\ MigratedOnce(d).applied = d.applied + 1
  BY DEF Contents, MigratedOnce

-----------------------------------------------------------------------------
(* The operators on dump files.                                            *)

\* quarantine_backup changes where a dump lies and nothing else of it.
LEMMA QuarantineKeeps ==
    ASSUME NEW f \in Files, NEW g \in Quarantined(f)
    PROVE  /\ g \in Files
           /\ g.name = f.name
           /\ g.content = f.content
           /\ g.quality = f.quality
  BY DEF Quarantined, Files

\* When the dump of the attempt is in place, CurrentFile is that dump.
LEMMA CurrentFileIsBackup ==
    ASSUME NEW Q, BackupInPlace(Q), NamesAreFresh, files \subseteq Files
    PROVE  /\ CurrentFile \in files
           /\ CurrentFile \in Files
           /\ CurrentFile.name = lastName
           /\ CurrentFile.place = "backups"
           /\ CurrentFile.content = before
           /\ CurrentFile.quality \in Q
  BY DEF BackupInPlace, NamesAreFresh, CurrentFile

-----------------------------------------------------------------------------
(* The inductive invariant.                                                *)

\* A freshly installed, quiescent application satisfies the invariant.
LEMMA InitUpgradeInv == Init => UpgradeInv
<1> SUFFICES ASSUME Init PROVE UpgradeInv
  OBVIOUS
<1> USE DEF Init
<1>1. PICK v \in 1..MaxSchema : db = [applied |-> v, whole |-> TRUE, data |-> {}]
  OBVIOUS
<1>2. db \in Contents
  BY <1>1 DEF Contents
<1>3. TypeOK
  BY <1>2 DEF TypeOK, Resting, Outcomes
<1>4. QED
  BY <1>3 DEF UpgradeInv, NamesAreFresh, BackupFollowsPc, DatabaseFollowsPc, OutcomeFollowsPc,
      OutcomeIsTrue, ReportedBackupExists, Changing

\* Every step of the upgrade and of the application around it keeps the
\* database, the dump files and the process state within their types.
LEMMA NextUpgradeInv == UpgradeInv /\ [Next]_vars => UpgradeInv'
<1> SUFFICES ASSUME UpgradeInv, [Next]_vars PROVE UpgradeInv'
  OBVIOUS
<1> USE DEF UpgradeInv
<1>1. CASE OpenApp
  <2>1. TypeOK'
    BY <1>1 DEF OpenApp, TypeOK, Working, Resting, Changing, Outcomes
  <2>2. QED
    BY <1>1, <2>1 DEF OpenApp, NamesAreFresh, BackupFollowsPc, BackupInPlace, DatabaseFollowsPc,
        OutcomeFollowsPc, OutcomeIsTrue, ReportedBackupExists, Changing
<1>2. CASE Stop
  <2>1. TypeOK'
    BY <1>2 DEF Stop, TypeOK, Working, Resting, Changing, Outcomes
  <2>2. QED
    BY <1>2, <2>1 DEF Stop, NamesAreFresh, BackupFollowsPc, BackupInPlace, DatabaseFollowsPc,
        OutcomeFollowsPc, OutcomeIsTrue, ReportedBackupExists, Changing
<1>3. ASSUME NEW e \in Entries, Trade(e) PROVE UpgradeInv'
  <2>1. TypeOK'
    BY <1>3 DEF Trade, attempt, TypeOK, Contents
  <2>2. outcome = "none"
    BY <1>3 DEF Trade, OutcomeFollowsPc
  <2>3. QED
    BY <1>3, <2>1, <2>2 DEF Trade, attempt, NamesAreFresh, BackupFollowsPc, BackupInPlace,
        DatabaseFollowsPc, OutcomeFollowsPc, OutcomeIsTrue, ReportedBackupExists, Changing
<1>4. ASSUME NEW b \in 1..MaxSchema, Install(b) PROVE UpgradeInv'
  <2>1. TypeOK'
    BY <1>4 DEF Install, attempt, TypeOK
  <2>2. outcome = "none"
    BY <1>4 DEF Install, OutcomeFollowsPc
  <2>3. QED
    BY <1>4, <2>1, <2>2 DEF Install, attempt, NamesAreFresh, BackupFollowsPc, BackupInPlace,
        DatabaseFollowsPc, OutcomeFollowsPc, OutcomeIsTrue, ReportedBackupExists, Changing
<1>5. CASE Gate
  <2>1. TypeOK'
    BY <1>5 DEF Gate, EndsWith, TypeOK, Working, Resting, Outcomes
  <2>2. outcome = "none"
    BY <1>5 DEF Gate, OutcomeFollowsPc
  <2>3. QED
    BY <1>5, <2>1, <2>2 DEF Gate, EndsWith, NamesAreFresh, BackupFollowsPc, BackupInPlace,
        DatabaseFollowsPc, OutcomeFollowsPc, OutcomeIsTrue, ReportedBackupExists, Changing
<1>6. CASE Preflight
  <2>1. TypeOK'
    BY <1>6 DEF Preflight, EndsWith, TypeOK, Working, Resting, Outcomes
  <2>2. outcome = "none" /\ db = before
    BY <1>6 DEF Preflight, OutcomeFollowsPc, DatabaseFollowsPc
  <2>3. QED
    BY <1>6, <2>1, <2>2 DEF Preflight, EndsWith, NamesAreFresh, BackupFollowsPc, BackupInPlace,
        DatabaseFollowsPc, OutcomeFollowsPc, OutcomeIsTrue, ReportedBackupExists, Changing
<1>7. CASE Backup
  <2> USE DEF Backup
  <2>1. db = before /\ outcome = "none" /\ lastName \in Nat /\ lastName' = lastName + 1
    BY <1>7 DEF OutcomeFollowsPc, DatabaseFollowsPc, TypeOK
  <2>2. \A q \in {"torn", "listable", "sound"} :
          /\ Dump(q) \in Files
          /\ Dump(q).name = lastName'
          /\ Dump(q).place = "backups"
          /\ Dump(q).content = before
          /\ Dump(q).quality = q
    BY <1>7, <2>1 DEF Dump, Files, TypeOK
  <2>3. \/ files' = files
        \/ \E f \in Files : f.name = lastName' /\ files' = files \cup {f}
    BY <1>7, <2>2, QuarantineKeeps
  <2>4. TypeOK'
    BY <1>7, <2>3 DEF TypeOK, EndsWith, Working, Resting, Outcomes
  <2>5. NamesAreFresh'
    BY <2>1, <2>3 DEF NamesAreFresh, TypeOK, Files
  <2>6. BackupFollowsPc'
    BY <1>7, <2>2 DEF BackupFollowsPc, BackupInPlace, EndsWith, Changing, Readable
  <2>7. QED
    BY <1>7, <2>1, <2>4, <2>5, <2>6 DEF EndsWith, DatabaseFollowsPc, OutcomeFollowsPc,
        OutcomeIsTrue, ReportedBackupExists, Changing
<1>8. CASE VerifyBackup
  <2> USE DEF VerifyBackup
  <2>1. db = before /\ outcome = "none" /\ BackupInPlace(Readable \cup {"torn"})
    BY <1>8 DEF OutcomeFollowsPc, DatabaseFollowsPc, BackupFollowsPc
  <2>2. /\ CurrentFile \in files /\ CurrentFile \in Files
        /\ CurrentFile.name = lastName
        /\ CurrentFile.place = "backups"
        /\ CurrentFile.content = before
        /\ CurrentFile.quality \in Readable \cup {"torn"}
    BY <2>1, CurrentFileIsBackup DEF TypeOK
  <2>3. \/ files' = files
        \/ \E f \in Files : f.name = lastName /\ files' = OtherFiles \cup {f}
    BY <1>8, <2>2, QuarantineKeeps
  <2>4. TypeOK'
    BY <1>8, <2>3 DEF TypeOK, EndsWith, OtherFiles, Working, Resting, Changing, Outcomes
  <2>5. NamesAreFresh'
    BY <1>8, <2>3 DEF NamesAreFresh, OtherFiles, TypeOK, Files
  <2>6. BackupFollowsPc'
    BY <1>8, <2>2 DEF BackupFollowsPc, BackupInPlace, EndsWith, Changing, Readable
  <2>7. DatabaseFollowsPc'
    BY <1>8, <2>1 DEF EndsWith, DatabaseFollowsPc, TypeOK, Contents, Changing
  <2>8. QED
    BY <1>8, <2>1, <2>4, <2>5, <2>6, <2>7 DEF EndsWith, OutcomeFollowsPc,
        OutcomeIsTrue, ReportedBackupExists
<1>9. CASE Migrate
  <2> USE DEF Migrate, attempt
  <2>1. /\ outcome = "none" /\ BackupInPlace(Readable)
        /\ db = [before EXCEPT !.applied = db.applied] /\ db.data \subseteq before.data
    BY <1>9 DEF OutcomeFollowsPc, DatabaseFollowsPc, BackupFollowsPc, Changing
  <2>2. \/ db' = db
        \/ /\ db' = MigratedOnce(db) /\ db' \in Contents
           /\ db'.data = db.data /\ db'.whole = db.whole
    BY <1>9, MigratedContents DEF TypeOK, Contents
  <2>3. db' \in Contents /\ db' = [before EXCEPT !.applied = db'.applied]
    BY <2>1, <2>2 DEF TypeOK, Contents
  <2>4. TypeOK'
    BY <1>9, <2>3 DEF TypeOK, Working, Changing
  <2>5. BackupFollowsPc'
    BY <1>9, <2>1 DEF BackupFollowsPc, BackupInPlace
  <2>6. DatabaseFollowsPc'
    BY <1>9, <2>1, <2>2, <2>3 DEF DatabaseFollowsPc
  <2>7. QED
    BY <1>9, <2>1, <2>4, <2>5, <2>6 DEF NamesAreFresh, OutcomeFollowsPc,
        OutcomeIsTrue, ReportedBackupExists
<1>10. CASE VerifySchema
  <2> USE DEF VerifySchema, attempt
  <2>1. outcome = "none" /\ BackupInPlace(Readable)
    BY <1>10 DEF OutcomeFollowsPc, BackupFollowsPc, Changing
  <2>2. pc' = "retention" => db.applied = binary
    BY <1>10 DEF Compare
  <2>3. TypeOK'
    BY <1>10 DEF TypeOK, Working, Changing
  <2>4. BackupFollowsPc'
    BY <1>10, <2>1 DEF BackupFollowsPc, BackupInPlace
  <2>5. DatabaseFollowsPc'
    BY <1>10, <2>2 DEF DatabaseFollowsPc, Changing
  <2>6. QED
    BY <1>10, <2>1, <2>3, <2>4, <2>5 DEF NamesAreFresh, OutcomeFollowsPc,
        OutcomeIsTrue, ReportedBackupExists
<1>11. CASE Reset
  <2> USE DEF Reset
  <2>1. outcome = "none" /\ BackupInPlace(Readable) /\ db.data \subseteq before.data
    BY <1>11 DEF OutcomeFollowsPc, BackupFollowsPc, DatabaseFollowsPc, Changing
  <2>2. db' \in Contents /\ db'.data \subseteq before.data
    BY <1>11, <2>1, DroppedContents, EmptyContents DEF TypeOK
  <2> lastName \in 1..MaxBackups
    BY <2>1 DEF BackupInPlace, TypeOK, Files
  <2>3. TypeOK'
    BY <1>11, <2>2 DEF TypeOK, RollbackFails, EndsWith, Working, Changing, Resting, Outcomes
  <2>4. BackupFollowsPc' /\ NamesAreFresh' /\ ReportedBackupExists'
    BY <1>11, <2>1 DEF BackupFollowsPc, BackupInPlace, NamesAreFresh, ReportedBackupExists,
        RollbackFails, EndsWith, Changing
  <2>5. DatabaseFollowsPc' /\ OutcomeFollowsPc' /\ OutcomeIsTrue'
    BY <1>11, <2>1, <2>2 DEF DatabaseFollowsPc, OutcomeFollowsPc, OutcomeIsTrue,
        RollbackFails, EndsWith
  <2>6. QED
    BY <2>3, <2>4, <2>5
<1>12. CASE Restore
  <2> USE DEF Restore
  <2>1. outcome = "none" /\ BackupInPlace(Readable)
    BY <1>12 DEF OutcomeFollowsPc, BackupFollowsPc, Changing
  <2>2. /\ CurrentFile \in files /\ CurrentFile \in Files
        /\ CurrentFile.name = lastName
        /\ CurrentFile.content = before
    BY <2>1, CurrentFileIsBackup DEF TypeOK
  <2>3. \/ files' = files
        \/ \E f \in Files : f.name = lastName /\ files' = OtherFiles \cup {f}
    BY <1>12, <2>2, QuarantineKeeps
  <2>4. db' \in Contents
    BY <1>12, <2>2, RestoredContents DEF TypeOK
  <2> lastName \in 1..MaxBackups
    BY <2>2 DEF Files
  <2>5. TypeOK'
    BY <1>12, <2>3, <2>4 DEF TypeOK, RollbackFails, EndsWith, OtherFiles, Working, Resting, Outcomes
  <2>6. NamesAreFresh'
    BY <1>12, <2>3 DEF NamesAreFresh, OtherFiles, TypeOK, Files
  <2>7. pc' = "outcome_screen" /\ before' = before
        /\ ((outcome' = "RolledBack" /\ db' = before) \/ outcome' = "RollbackFailed")
    BY <1>12, <2>2 DEF RollbackFails, EndsWith
  <2>8. ReportedBackupExists'
    BY <1>12, <2>1 DEF ReportedBackupExists, BackupInPlace, RollbackFails, EndsWith
  <2>9. QED
    BY <2>5, <2>6, <2>7, <2>8 DEF BackupFollowsPc, DatabaseFollowsPc, OutcomeFollowsPc,
        OutcomeIsTrue, Changing
<1>13. CASE Retention
  <2> USE DEF Retention
  <2>1. /\ outcome = "none" /\ BackupInPlace(Readable)
        /\ db = [before EXCEPT !.applied = binary]
    BY <1>13 DEF OutcomeFollowsPc, BackupFollowsPc, DatabaseFollowsPc, Changing
  <2>2. \A f \in files : f.name = lastName => f \notin Excess
    <3>1. SUFFICES ASSUME NEW f \in files, f.name = lastName PROVE f \notin Excess
      OBVIOUS
    <3>2. NewerKept(f) = {}
      BY <3>1 DEF NewerKept, NamesAreFresh, TypeOK, Files
    <3>3. Cardinality(NewerKept(f)) = 0
      BY <3>2, FS_EmptySet
    <3>4. QED
      BY <3>3 DEF Excess
  <2>3. files' \subseteq files /\ pruned' \subseteq pruned \cup files
        /\ \A f \in files : f.name = lastName => f \in files'
    BY <1>13, <2>2 DEF Excess
  <2>4. TypeOK'
    BY <1>13, <2>3 DEF TypeOK, Resting, Outcomes
  <2>5. NamesAreFresh'
    BY <1>13, <2>3 DEF NamesAreFresh
  <2>6. ReportedBackupExists'
    BY <1>13, <2>1, <2>3 DEF ReportedBackupExists, BackupInPlace
  <2>7. QED
    BY <1>13, <2>1, <2>4, <2>5, <2>6 DEF BackupFollowsPc, DatabaseFollowsPc,
        OutcomeFollowsPc, OutcomeIsTrue, Changing
<1>14. CASE UNCHANGED vars
  BY <1>14 DEF vars, TypeOK, NamesAreFresh, BackupFollowsPc, BackupInPlace, DatabaseFollowsPc,
        OutcomeFollowsPc, OutcomeIsTrue, ReportedBackupExists
<1>15. QED
  BY <1>1, <1>2, <1>3, <1>4, <1>5, <1>6, <1>7, <1>8, <1>9, <1>10, <1>11, <1>12, <1>13, <1>14
     DEF Next, Upgrade

\* UpgradeInv holds of every state the upgrade and the application reach.
THEOREM UpgradeInvariant == Spec => []UpgradeInv
<1>1. Init => UpgradeInv
  BY InitUpgradeInv
<1>2. UpgradeInv /\ [Next]_vars => UpgradeInv'
  BY NextUpgradeInv
<1>3. QED
  BY <1>1, <1>2, PTL DEF Spec

-----------------------------------------------------------------------------
(* The promises of the upgrade.                                            *)

\* The database, the dump files and the attempt keep their types.
THEOREM TypeCorrect == Spec => []TypeOK
<1>1. UpgradeInv => TypeOK
  BY DEF UpgradeInv
<1>2. QED
  BY <1>1, UpgradeInvariant, PTL

\* run_safe_upgrade never migrates, resets or restores without a verified
\* dump of the database it found in place.
THEOREM NeverUnprotected == Spec => []NeverChangedUnprotected
<1>1. UpgradeInv => NeverChangedUnprotected
  BY DEF UpgradeInv, NeverChangedUnprotected, BackupFollowsPc, BackupInPlace, Readable, Changing
<1>2. QED
  BY <1>1, UpgradeInvariant, PTL

\* The outcome event of run_safe_database_upgrade tells the truth.
THEOREM OutcomesAreTrue == Spec => []OutcomeIsTrue
<1>1. UpgradeInv => OutcomeIsTrue
  BY DEF UpgradeInv
<1>2. QED
  BY <1>1, UpgradeInvariant, PTL

\* The backup path an outcome names is that of the dump of the attempt.
THEOREM ReportedBackupsExist == Spec => []ReportedBackupExists
<1>1. UpgradeInv => ReportedBackupExists
  BY DEF UpgradeInv
<1>2. QED
  BY <1>1, UpgradeInvariant, PTL

-----------------------------------------------------------------------------
(* Nothing the shop committed is lost.                                     *)

\* DataSurvives, entry by entry.
LEMMA SurvivesEntrywise ==
    DataSurvives <=>
        \A e \in committed :
            \/ e \in db.data
            \/ \E f \in files \cup pruned : f.quality = "sound" /\ e \in f.content.data
  BY DEF DataSurvives, Held

\* If pg_dump writes complete or unreadable dumps, no step loses an entry.
LEMMA NextDataSurvives ==
    ASSUME DumpQualities \subseteq {"torn", "sound"},
           UpgradeInv, DumpsAsPresumed, DataSurvives, [Next]_vars
    PROVE  DumpsAsPresumed' /\ DataSurvives'
<1> DEFINE Safe(e) == \/ e \in db.data
                      \/ \E f \in files \cup pruned : f.quality = "sound" /\ e \in f.content.data
<1>a. \A e \in committed : Safe(e)
  BY SurvivesEntrywise
<1> SUFFICES DumpsAsPresumed' /\ (\A e \in committed' : Safe(e)')
  <2>1. DataSurvives' <=> \A e \in committed' : Safe(e)'
    BY DEF DataSurvives, Held
  <2>2. QED
    BY <2>1
<1>b. /\ TypeOK /\ NamesAreFresh
      /\ \A Q : BackupInPlace(Q) => /\ CurrentFile \in files
                                    /\ CurrentFile \in Files
                                    /\ CurrentFile.content = before
                                    /\ CurrentFile.quality \in Q
  BY CurrentFileIsBackup DEF UpgradeInv, TypeOK
<1>c. pc \in Changing => /\ CurrentFile \in files
                         /\ CurrentFile.quality = "sound"
                         /\ db.data \subseteq CurrentFile.content.data
  <2>1. SUFFICES ASSUME pc \in Changing
                 PROVE  /\ CurrentFile \in files
                        /\ CurrentFile.quality = "sound"
                        /\ db.data \subseteq CurrentFile.content.data
    OBVIOUS
  <2>2. BackupInPlace(Readable) /\ db.data \subseteq before.data
    BY <2>1 DEF UpgradeInv, BackupFollowsPc, DatabaseFollowsPc
  <2>3. QED
    BY <1>b, <2>2 DEF Readable, DumpsAsPresumed
<1>d. ASSUME files' = files, pruned' = pruned PROVE DumpsAsPresumed'
  BY <1>d DEF DumpsAsPresumed
<1>1. CASE OpenApp \/ Stop \/ (\E b \in 1..MaxSchema : Install(b)) \/ Gate \/ Preflight
              \/ VerifySchema \/ UNCHANGED vars
  BY <1>1, <1>a, <1>d DEF OpenApp, Stop, Install, Gate, Preflight, VerifySchema, EndsWith,
      attempt, vars
<1>2. ASSUME NEW e \in Entries, Trade(e)
      PROVE  DumpsAsPresumed' /\ (\A x \in committed' : Safe(x)')
  <2>1. db'.data = db.data \cup {e}
    BY <1>2, <1>b DEF Trade, TypeOK, Contents
  <2>2. QED
    BY <1>2, <1>a, <1>d, <2>1 DEF Trade, attempt
<1>3. CASE Backup
  <2>1. /\ files \subseteq files'
        /\ \A f \in files' \ files : f.quality # "listable"
    BY <1>3 DEF Backup, Dump, Quarantined
  <2>2. QED
    BY <1>3, <1>a, <2>1 DEF Backup, DumpsAsPresumed
<1>4. ASSUME NEW f \in Quarantined(CurrentFile), files' = OtherFiles \cup {f}, pruned' = pruned,
             CurrentFile \in files, CurrentFile \in Files, CurrentFile.name = lastName
      PROVE  /\ DumpsAsPresumed'
             /\ \A g \in files \cup pruned : \E h \in files' \cup pruned' :
                    h.quality = g.quality /\ h.content = g.content
  <2>1. f.quality = CurrentFile.quality /\ f.content = CurrentFile.content
    BY <1>4, QuarantineKeeps
  <2>2. \A g \in files : g = CurrentFile \/ g \in OtherFiles
    BY <1>4, <1>b DEF OtherFiles, NamesAreFresh
  <2>3. QED
    BY <1>4, <2>1, <2>2 DEF DumpsAsPresumed, OtherFiles
<1>5. CASE VerifyBackup
  <2>1. BackupInPlace(Readable \cup {"torn"})
    BY <1>5 DEF VerifyBackup, UpgradeInv, BackupFollowsPc
  <2>2. CurrentFile \in files /\ CurrentFile \in Files /\ CurrentFile.name = lastName
    BY <2>1, CurrentFileIsBackup DEF UpgradeInv, TypeOK
  <2>3. \/ files' = files
        \/ \E f \in Quarantined(CurrentFile) : files' = OtherFiles \cup {f}
    BY <1>5 DEF VerifyBackup
  <2>4. db' = db /\ committed' = committed /\ pruned' = pruned
    BY <1>5 DEF VerifyBackup
  <2>5. CASE files' = files
    BY <1>a, <1>d, <2>4, <2>5
  <2>6. CASE \E f \in Quarantined(CurrentFile) : files' = OtherFiles \cup {f}
    BY <1>a, <1>4, <2>2, <2>4, <2>6
  <2>7. QED
    BY <2>3, <2>5, <2>6
<1>6. CASE Migrate
  <2>1. db'.data = db.data
    BY <1>6, <1>b DEF Migrate, MigratedOnce, TypeOK, Contents
  <2>2. QED
    BY <1>6, <1>a, <1>d, <2>1 DEF Migrate, attempt
<1>7. CASE Reset
  <2>1. pc \in Changing /\ files' = files /\ pruned' = pruned /\ committed' = committed
    BY <1>7 DEF Reset, Changing
  <2>2. QED
    BY <1>a, <1>c, <1>d, <2>1
<1>8. CASE Restore
  <2>1. pc \in Changing /\ pruned' = pruned /\ committed' = committed
    BY <1>8 DEF Restore, Changing
  <2>2. BackupInPlace(Readable)
    BY <2>1 DEF UpgradeInv, BackupFollowsPc
  <2>3. CurrentFile \in files /\ CurrentFile \in Files /\ CurrentFile.name = lastName
    BY <2>2, CurrentFileIsBackup DEF UpgradeInv, TypeOK
  <2>4. \/ files' = files
        \/ \E f \in Quarantined(CurrentFile) : files' = OtherFiles \cup {f}
    BY <1>8 DEF Restore
  <2>5. CASE files' = files
    BY <1>a, <1>c, <1>d, <2>1, <2>5
  <2>6. CASE \E f \in Quarantined(CurrentFile) : files' = OtherFiles \cup {f}
    BY <1>a, <1>c, <1>4, <2>1, <2>3, <2>6
  <2>7. QED
    BY <2>4, <2>5, <2>6
<1>9. CASE Retention
  <2>1. files' \cup pruned' = files \cup pruned
    BY <1>9 DEF Retention, Excess
  <2>2. QED
    BY <1>9, <1>a, <2>1 DEF Retention, DumpsAsPresumed
<1>10. QED
  BY <1>1, <1>2, <1>3, <1>5, <1>6, <1>7, <1>8, <1>9 DEF Next, Upgrade

\* Through every sequence of upgrades, failures, power cuts and restarts the
\* shop's entries are in the database or in a dump that restores (or were in
\* one that retention deleted), provided pg_restore --list rejects every dump
\* whose rows would not replay.
THEOREM DataIsKept ==
    ASSUME DumpQualities \subseteq {"torn", "sound"}
    PROVE  Spec => []DataSurvives
<1>1. Init => DumpsAsPresumed /\ DataSurvives
  BY DEF Init, DumpsAsPresumed, DataSurvives
<1>2. UpgradeInv /\ DumpsAsPresumed /\ DataSurvives /\ [Next]_vars
        => DumpsAsPresumed' /\ DataSurvives'
  BY NextDataSurvives
<1>3. QED
  BY <1>1, <1>2, UpgradeInvariant, PTL DEF Spec
=============================================================================
