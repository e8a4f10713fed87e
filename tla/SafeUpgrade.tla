----------------------------- MODULE SafeUpgrade -----------------------------
(***************************************************************************)
(* The automatic database upgrade of an installed Stockiha: run_safe_upgrade *)
(* (gate, preflight, backup, verify, migrate, verify schema, rollback,     *)
(* retention), the command that starts it from the upgrade screen, and the *)
(* start-up routing that decides whether that screen is shown.  The process *)
(* may be killed between any two of its effects on disk or in the database. *)
(***************************************************************************)
EXTENDS ShopDatabase

CONSTANTS
    RetentionCount,   \* BACKUP_RETENTION_COUNT
    MaxBackups,       \* bound: how many dump files the history may create
    DumpQualities     \* what a pg_dump that reports success may have written

ASSUME RetentionAssumption == RetentionCount \in Nat \ {0}
ASSUME MaxBackupsAssumption == MaxBackups \in Nat
\* "torn": pg_restore --list cannot read it; "listable": its contents table
\* reads but its rows do not replay; "sound": it restores.
ASSUME QualityAssumption == DumpQualities \subseteq {"torn", "listable", "sound"}

VARIABLES
    binary,     \* the latest migration the installed build embeds
    db,         \* the database
    committed,  \* history: every entry ever committed to the database
    files,      \* the dump files under backups/ and backups/failed/
    lastName,   \* the newest dump file name used (names are timestamps)
    pc,         \* where the process is
    before,     \* the database when the current attempt passed the gate
    outcome,    \* what the last attempt reported
    pruned,     \* history: the files retention deleted
    abandoned   \* history: backups of attempts that ended RollbackFailed

vars == <<binary, db, committed, files, lastName, pc, before, outcome,
          pruned, abandoned>>

attempt == <<files, lastName, before, outcome, pruned, abandoned>>

Files == [name: 1..MaxBackups, place: {"backups", "failed"},
          content: Contents, quality: {"torn", "listable", "sound"}]

\* Places in run_safe_upgrade at which the database may already be changed.
Changing == {"migrate", "verify_schema", "reset", "restore"}
Working  == {"gate", "preflight", "backup", "verify_backup", "retention"}
                \cup Changing
Resting  == {"closed", "restarting", "in_service", "unavailable", "outcome_screen"}

Outcomes == {"none", "Upgraded", "NoActionNeeded", "AbortedBeforeMigration",
             "RolledBack", "RollbackFailed"}

TypeOK ==
    /\ binary \in 1..MaxSchema
    /\ db \in Contents
    /\ committed \subseteq Entries
    /\ files \subseteq Files
    /\ lastName \in 0..MaxBackups
    /\ pc \in Working \cup Resting
    /\ before \in Contents
    /\ outcome \in Outcomes
    /\ pruned \subseteq Files
    /\ abandoned \subseteq 1..MaxBackups

Init ==
    /\ binary \in 1..MaxSchema
    /\ db \in {[applied |-> v, whole |-> TRUE, data |-> {}] : v \in 1..MaxSchema}
    /\ db.applied <= binary
    /\ committed = {}
    /\ files = {}
    /\ lastName = 0
    /\ pc = "closed"
    /\ before = db
    /\ outcome = "none"
    /\ pruned = {}
    /\ abandoned = {}

-----------------------------------------------------------------------------
(* The application around the upgrade.                                     *)

\* Start-up: a positive mismatch blocks, OlderThanBinary on an embedded
\* install mounts the upgrade screen, which invokes the upgrade at once;
\* Unknown fails open.  With schemas missing the first status query fails.
OpenApp ==
    /\ pc \in {"closed", "restarting"}
    /\ \E verdict \in CheckedVerdicts(binary, db) :
         pc' = CASE verdict = "OlderThanBinary" -> "gate"
                 [] verdict = "NewerThanBinary" -> "unavailable"
                 [] OTHER -> IF db.whole THEN "in_service" ELSE "unavailable"
    /\ outcome' = "none"
    /\ UNCHANGED <<binary, db, committed, files, lastName, before, pruned, abandoned>>

\* A sale, a receipt, a payment: something the shop must not lose.
Trade(e) ==
    /\ pc = "in_service"
    /\ e \notin committed
    /\ db' = [db EXCEPT !.data = @ \cup {e}]
    /\ committed' = committed \cup {e}
    /\ UNCHANGED <<binary, pc, attempt>>

\* The operator closes the window, or the machine loses power.
Stop ==
    /\ pc # "closed"
    /\ pc' = "closed"
    /\ outcome' = "none"
    /\ UNCHANGED <<binary, db, committed, files, lastName, before, pruned, abandoned>>

\* The updater, or an older installer run by hand.
Install(b) ==
    /\ pc = "closed"
    /\ b # binary
    /\ binary' = b
    /\ UNCHANGED <<db, committed, pc, attempt>>

-----------------------------------------------------------------------------
(* run_safe_upgrade.                                                       *)

\* The attempt ends on the upgrade screen, without a restart.
EndsWith(o) ==
    /\ pc' = "outcome_screen"
    /\ outcome' = o

\* The fast read-only gate.  A verdict other than OlderThanBinary restarts.
Gate ==
    /\ pc = "gate"
    /\ before' = db
    /\ \/ EndsWith("AbortedBeforeMigration")
       \/ \E verdict \in CheckedVerdicts(binary, db) :
            IF verdict = "OlderThanBinary"
            THEN pc' = "preflight" /\ outcome' = outcome
            ELSE pc' = "restarting" /\ outcome' = "NoActionNeeded"
    /\ UNCHANGED <<binary, db, committed, files, lastName, pruned, abandoned>>

\* Binaries, backups folder, size estimate and free space.
Preflight ==
    /\ pc = "preflight"
    /\ \/ pc' = "backup" /\ outcome' = outcome
       \/ EndsWith("AbortedBeforeMigration")
    /\ UNCHANGED <<binary, db, committed, files, lastName, before, pruned, abandoned>>

\* quarantine_backup: move to failed/, or leave in place when that fails.
Quarantined(f) == {f, [f EXCEPT !.place = "failed"]}

CurrentFile == CHOOSE f \in files : f.name = lastName /\ f.place = "backups"

OtherFiles == {f \in files : f.name # lastName}

Dump(q) == [name |-> lastName + 1, place |-> "backups", content |-> db, quality |-> q]

Backup ==
    /\ pc = "backup"
    /\ lastName < MaxBackups
    /\ lastName' = lastName + 1
    /\ \/ /\ \E q \in DumpQualities : files' = files \cup {Dump(q)}
          /\ pc' = "verify_backup"
          /\ outcome' = outcome
       \/ /\ \/ files' = files      \* pg_dump wrote nothing
             \/ \E f \in Quarantined(Dump("torn")) : files' = files \cup {f}
          /\ EndsWith("AbortedBeforeMigration")
    /\ UNCHANGED <<binary, db, committed, before, pruned, abandoned>>

\* Mutant of VerifyBackup: the exit status of pg_restore --list is ignored.
VerifyBackupUnread ==
    /\ pc = "verify_backup"
    /\ pc' = "migrate"
    /\ UNCHANGED <<binary, db, committed, attempt>>

\* pg_restore --list reads the table of contents and nothing else.
VerifyBackup ==
    /\ pc = "verify_backup"
    /\ \/ /\ CurrentFile.quality # "torn"
          /\ pc' = "migrate"
          /\ UNCHANGED <<files, outcome>>
       \/ /\ \E f \in Quarantined(CurrentFile) : files' = OtherFiles \cup {f}
          /\ EndsWith("AbortedBeforeMigration")
    /\ UNCHANGED <<binary, db, committed, lastName, before, pruned, abandoned>>

\* Mutant of Migrate: the filter on versions already applied is dropped.
MigrateUnfiltered ==
    /\ pc = "migrate"
    /\ \/ db' = MigratedOnce(db) /\ pc' = "migrate"
       \/ db.applied = binary /\ pc' = "verify_schema" /\ db' = db
       \/ pc' = "reset" /\ db' = db
    /\ UNCHANGED <<binary, committed, attempt>>

\* apply_pending_migrations: one file, one transaction; an error in any file
\* or a lost connection goes to the rollback.  Its own check of the verdict
\* may come back Unknown, and then it applies nothing and reports success.
Migrate ==
    /\ pc = "migrate"
    /\ \/ /\ db.applied < binary
          /\ db' = MigratedOnce(db)
          /\ pc' = "migrate"
       \/ /\ db.applied = binary \/ db = before
          /\ pc' = "verify_schema"
          /\ db' = db
       \/ pc' = "reset" /\ db' = db
    /\ UNCHANGED <<binary, committed, attempt>>

\* Mutant of VerifySchema: Unknown passes, as it does at start-up.
VerifySchemaFailingOpen ==
    /\ pc = "verify_schema"
    /\ \/ "Unknown" \in CheckedVerdicts(binary, db) /\ pc' = "retention"
       \/ pc' = "reset"
    /\ UNCHANGED <<binary, db, committed, attempt>>

VerifySchema ==
    /\ pc = "verify_schema"
    /\ \/ Compare(binary, db) = "UpToDate" /\ pc' = "retention"
       \/ pc' = "reset"     \* no connection, Unknown, or still older
    /\ UNCHANGED <<binary, db, committed, attempt>>

RollbackFails ==
    /\ EndsWith("RollbackFailed")
    /\ abandoned' = abandoned \cup {lastName}

\* reset_all_schemas: DROP SCHEMA one at a time, public last.
Reset ==
    /\ pc = "reset"
    /\ \/ db' \in PartlyDropped(db) /\ UNCHANGED <<pc, outcome, abandoned>>
       \/ db' = EmptyDatabase /\ pc' = "restore" /\ UNCHANGED <<outcome, abandoned>>
       \/ db' = db /\ RollbackFails
    /\ UNCHANGED <<binary, committed, files, lastName, before, pruned>>

\* pg_restore, which reports an error unless every row came back; only a
\* completed rollback moves the backup to failed/.
Restore ==
    /\ pc = "restore"
    /\ \/ /\ CurrentFile.quality = "sound"
          /\ db' = CurrentFile.content
          /\ \E f \in Quarantined(CurrentFile) : files' = OtherFiles \cup {f}
          /\ EndsWith("RolledBack")
          /\ UNCHANGED abandoned
       \/ /\ db' \in PartlyRestored(CurrentFile.content)
          /\ RollbackFails
          /\ UNCHANGED files
    /\ UNCHANGED <<binary, committed, lastName, before, pruned>>

NewerKept(f) == {g \in files : g.place = "backups" /\ g.name > f.name}

\* Mutant of Excess: one file too many.
ExcessByOne ==
    {f \in files : f.place = "backups" /\ Cardinality(NewerKept(f)) + 1 >= RetentionCount}

\* The files in backups/ beyond the newest RetentionCount.
Excess == {f \in files : f.place = "backups" /\ Cardinality(NewerKept(f)) >= RetentionCount}

\* enforce_backup_retention: listing may fail, each deletion may fail; the
\* upgrade is reported successful either way, and the application restarts.
Retention ==
    /\ pc = "retention"
    /\ \E gone \in SUBSET Excess :
         /\ files' = files \ gone
         /\ pruned' = pruned \cup gone
    /\ pc' = "restarting"
    /\ outcome' = "Upgraded"
    /\ UNCHANGED <<binary, db, committed, lastName, before, abandoned>>

Upgrade ==
    \/ Gate \/ Preflight \/ Backup \/ VerifyBackup \/ Migrate \/ VerifySchema
    \/ Reset \/ Restore \/ Retention

Next ==
    \/ OpenApp
    \/ Stop
    \/ \E e \in Entries : Trade(e)
    \/ \E b \in 1..MaxSchema : Install(b)
    \/ Upgrade

Spec == Init /\ [][Next]_vars

-----------------------------------------------------------------------------
(* Correctness.                                                            *)

\* Whenever the upgrade may already have changed the database (migrating,
\* verifying, resetting, restoring), the dump it took is in backups/, passed
\* verification, and holds exactly the database it found at the gate.
NeverChangedUnprotected ==
    pc \in Changing =>
        \E f \in files : /\ f.name = lastName
                         /\ f.place = "backups"
                         /\ f.content = before
                         /\ f.quality # "torn"

\* What the upgrade screen tells the operator is true of the database: after
\* AbortedBeforeMigration, NoActionNeeded and RolledBack it is exactly the one
\* the attempt found; after Upgraded it is that one at the binary's schema.
OutcomeIsTrue ==
    /\ outcome \in {"AbortedBeforeMigration", "NoActionNeeded", "RolledBack"} =>
         db = before
    /\ outcome = "Upgraded" => db = [before EXCEPT !.applied = binary]

\* The path RollbackFailed shows is a file that is there, unmoved, with the
\* database as it was; the path Upgraded reports survives its own retention.
ReportedBackupExists ==
    outcome \in {"RollbackFailed", "Upgraded"} =>
        \E f \in files : f.name = lastName /\ f.place = "backups" /\ f.content = before

Held(f) == IF f.quality = "sound" THEN f.content.data ELSE {}

\* Through any sequence of upgrades, failures and power cuts, every entry the
\* shop committed is in the database or in a dump that restores, unless only
\* dumps that retention deleted held it.
DataSurvives ==
    committed \subseteq db.data \cup UNION {Held(f) : f \in files \cup pruned}

\* The module's own retention rule: a backup that was ever part of a failed
\* upgrade, a migration that had to be rolled back included, is never a
\* deletion candidate, however many later upgrades succeed. The code does not
\* keep it: the backup of a rollback that failed stays in backups/.
FailedUpgradeBackupIsKept == \A f \in pruned : f.name \notin abandoned

-----------------------------------------------------------------------------
(* The strengthening that makes the invariants above inductive.            *)

\* The dump of the current attempt, in place and holding the gate's database.
BackupInPlace(qualities) ==
    \E f \in files : /\ f.name = lastName
                     /\ f.place = "backups"
                     /\ f.content = before
                     /\ f.quality \in qualities

Readable == {"listable", "sound"}

\* Dump names never repeat, so "the dump of this attempt" is one file.
NamesAreFresh ==
    /\ \A f \in files : f.name <= lastName
    /\ \A f, g \in files : f.name = g.name => f = g

BackupFollowsPc ==
    /\ pc = "verify_backup" => BackupInPlace(Readable \cup {"torn"})
    /\ pc \in Changing \cup {"retention"} => BackupInPlace(Readable)

\* How far each stage may have moved the database from what the gate found.
DatabaseFollowsPc ==
    /\ pc \in {"preflight", "backup", "verify_backup"} => db = before
    /\ pc \in {"migrate", "verify_schema", "retention"} =>
         db = [before EXCEPT !.applied = db.applied]
    /\ pc = "retention" => db.applied = binary
    /\ pc \in Changing => db.data \subseteq before.data

\* An outcome is shown only once the attempt is over.
OutcomeFollowsPc == outcome # "none" => pc \in {"outcome_screen", "restarting"}

UpgradeInv ==
    /\ TypeOK
    /\ NamesAreFresh
    /\ BackupFollowsPc
    /\ DatabaseFollowsPc
    /\ OutcomeFollowsPc
    /\ OutcomeIsTrue
    /\ ReportedBackupExists

\* With dumps that are either unreadable or complete, which is what
\* verify_backup_restorable presumes, nothing is lost either.
DumpsAsPresumed == \A f \in files \cup pruned : f.quality # "listable"
=============================================================================
