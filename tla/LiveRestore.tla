----------------------------- MODULE LiveRestore -----------------------------
(***************************************************************************)
(* The in-place restore of an embedded Stockiha: run_restore (validate,    *)
(* preflight, isolated test, safety backup, stop connections, replace,     *)
(* bring the schema forward, verify, swap the files, record) with its      *)
(* rollback, the backups it starts from and their retention, and the       *)
(* first-run restore of a new PC.  The process may be killed between any   *)
(* two of its effects.                                                     *)
(***************************************************************************)
EXTENDS ShopDatabase

CONSTANTS
    InFlight,       \* entries of calls under way when a restore takes over
    Dirs,           \* the last of the asset directories 1, 2, ... (ASSET_TARGETS)
    KeepAutomatic,  \* keep_count of the daily and pre-update backups
    KeepPreRestore, \* keep_count of the safety backups
    DumpQualities,  \* what a pg_dump that reports success may have written
    MaxStamp        \* bound: how many backups and restores the history has

ASSUME InFlightAssumption == InFlight \subseteq Entries
ASSUME DirsAssumption == Dirs \in Nat \ {0}
ASSUME KeepAssumption == KeepAutomatic \in Nat \ {0} /\ KeepPreRestore \in Nat \ {0}
ASSUME MaxStampAssumption == MaxStamp \in Nat \ {0}
\* As in SafeUpgrade; a bundle's checksums hold whatever its dump is worth.
ASSUME QualityAssumption == DumpQualities \subseteq {"torn", "listable", "sound"}

VARIABLES
    db,        \* the database
    live,      \* the asset directories that exist, with the files in them
    aside,     \* directories that a restore moved aside
    bundles,   \* the bundles in the backup destination
    stamp,     \* the last second in which a bundle was named or a restore begun
    pc,        \* where the process is
    task,      \* the running restore: its kind and the bundle it restores
    dir,       \* the asset directory the swap has come to
    before,    \* database and directories as this restore found them
    outcome,   \* what the last restore reported
    committed, \* history: every entry ever committed
    pruned     \* history: the bundles retention deleted

vars == <<db, live, aside, bundles, stamp, pc, task, dir, before, outcome,
          committed, pruned>>

history == <<committed, pruned>>
files   == <<live, aside>>
run     == <<task, dir, before>>

\* AUTOMATIC is DAILY or PRE_UPDATE: two kinds of one rule, told apart only by
\* their counts.
Kinds == {"MANUAL", "AUTOMATIC", "PRE_RESTORE"}

Directories == UNION {[D -> SUBSET Entries] : D \in SUBSET (1..Dirs)}

Bundles == [name: 1..MaxStamp, kind: Kinds, content: Contents,
            assets: [1..Dirs -> SUBSET Entries],
            quality: {"torn", "listable", "sound"}]

BeforeStop == {"validate", "test", "safety_backup", "stop_connections"}
Changing   == {"reset", "restore", "forward", "verify", "move_aside", "copy",
               "revert", "record", "undo_reset", "undo_restore"}
Resting    == {"closed", "in_service", "setup", "upgrade", "unavailable", "ended"}

Outcomes == {"none", "Succeeded", "AbortedBeforeChange", "RolledBack", "RollbackFailed"}

TypeOK ==
    /\ db \in Contents
    /\ live \in Directories
    /\ aside \subseteq [of: 1..MaxStamp, dir: 1..Dirs, files: SUBSET Entries]
    /\ bundles \subseteq Bundles
    /\ stamp \in 1..MaxStamp
    /\ pc \in BeforeStop \cup Changing \cup Resting
    /\ task \in [kind: {"LIVE", "FRESH_INSTALL"}, target: Bundles]
    /\ dir \in 1..Dirs
    /\ before \in [db: Contents, live: Directories]
    /\ outcome \in Outcomes
    /\ committed \subseteq Entries
    /\ pruned \subseteq Bundles

\* A bundle of the database and the directories; a missing one is empty.
NewBundle(name, kind, q) ==
    [name |-> name, kind |-> kind, content |-> db, quality |-> q,
     assets |-> [d \in 1..Dirs |-> IF d \in DOMAIN live THEN live[d] ELSE {}]]

\* A shop that has been trading and made a backup, by a build of the same or
\* an earlier schema; or a new PC, with that backup on a drive.
Init ==
    /\ \E e \in Entries \ InFlight, v \in 1..MaxSchema :
         LET old == [applied |-> v, whole |-> TRUE, data |-> {e}]
         IN  /\ bundles = {[name |-> 1, kind |-> "MANUAL", content |-> old,
                            assets |-> [d \in 1..Dirs |-> IF d = 1 THEN {e} ELSE {}],
                            quality |-> "sound"]}
             /\ \/ /\ db = [old EXCEPT !.applied = MaxSchema]
                   /\ live = [d \in {1} |-> {e}]
                \/ /\ db = [old EXCEPT !.applied = MaxSchema, !.data = {}]
                   /\ live = [d \in {} |-> {}]
             /\ committed = {e}
    /\ aside = {}
    /\ stamp = 1
    /\ pc = "closed"
    /\ task = [kind |-> "LIVE", target |-> CHOOSE b \in bundles : TRUE]
    /\ dir = 1
    /\ before = [db |-> db, live |-> live]
    /\ outcome = "none"
    /\ pruned = {}

-----------------------------------------------------------------------------
(* The application around the restore.                                     *)

\* count_users: no table, no users; a shop's first entry is its first user.
NoUsers == db.data = {}

\* Start-up (an unreadable verdict is module SafeUpgrade's subject): an older
\* schema, a missing _sqlx_migrations included, mounts the upgrade screen; the
\* schema of the binary opens the shop, or first-run setup when there are no
\* users; with schemas missing (core, the oldest, is the first to be dropped)
\* core.get_setup_status() fails.
OpenApp ==
    /\ pc = "closed"
    /\ pc' = IF Compare(MaxSchema, db) # "UpToDate" THEN "upgrade"
             ELSE IF ~db.whole THEN "unavailable"
             ELSE IF NoUsers THEN "setup" ELSE "in_service"
    /\ outcome' = "none"
    /\ UNCHANGED <<db, files, bundles, stamp, run, history>>

\* run_safe_upgrade as SafeUpgrade shows it: all migrations, or no change.
\* Migrations on a database with schemas missing do not apply.
UpgradeAtStart ==
    /\ pc = "upgrade"
    /\ \/ db.whole /\ db' = [db EXCEPT !.applied = MaxSchema]
       \/ db' = db
    /\ pc' = "closed"
    /\ UNCHANGED <<files, bundles, stamp, run, outcome, history>>

\* A posting, or the first account of a new shop, with a file it attaches.
Trade(e, d) ==
    /\ pc \in {"in_service", "setup"}
    /\ e \notin committed \cup InFlight
    /\ db' = [db EXCEPT !.data = @ \cup {e}]
    /\ live' = [c \in DOMAIN live \cup {d} |->
                   (IF c \in DOMAIN live THEN live[c] ELSE {})
                       \cup (IF c = d THEN {e} ELSE {})]
    /\ pc' = "in_service"
    /\ committed' = committed \cup {e}
    /\ UNCHANGED <<aside, bundles, stamp, run, outcome, pruned>>

\* A call that was under way when the restore took the window over commits
\* before its pool is closed.
CommitInFlight(e) ==
    /\ pc \in BeforeStop
    /\ e \in InFlight \ committed
    /\ db' = [db EXCEPT !.data = @ \cup {e}]
    /\ before' = [before EXCEPT !.db.data = @ \cup {e}]
    /\ committed' = committed \cup {e}
    /\ UNCHANGED <<files, bundles, stamp, pc, task, dir, outcome, pruned>>

\* The operator closes the window or restarts, or the machine loses power.
Stop ==
    /\ pc # "closed"
    /\ pc' = "closed"
    /\ outcome' = "none"
    /\ UNCHANGED <<db, files, bundles, stamp, run, history>>

-----------------------------------------------------------------------------
(* Backups and retention.                                                  *)

Keep(kind) == IF kind = "PRE_RESTORE" THEN KeepPreRestore ELSE KeepAutomatic

Newer(b, all) == {c \in all : c.kind = b.kind /\ c.name > b.name}

\* select_for_deletion: of the kind of the bundle just made, those beyond the
\* newest keep_count, the new one counted among them and never returned.  Of
\* the bundles made by hand there is no limit.
Excess(own, all) ==
    {b \in all \ {own} : /\ b.kind = own.kind
                          /\ own.kind # "MANUAL"
                          /\ Cardinality(Newer(b, all)) >= Keep(own.kind)}

\* retention::apply: each deletion may fail, and so may the scan.
Retain(own, all) ==
    \E gone \in SUBSET Excess(own, all) :
        /\ bundles' = all \ gone
        /\ pruned' = pruned \cup gone

\* create_bundle by hand, or by the daily and pre-update timers: staged and
\* renamed, so that a failure before the rename leaves nothing.
BackUp(kind) ==
    /\ pc = "in_service"
    /\ stamp < MaxStamp
    /\ stamp' = stamp + 1
    /\ \E q \in DumpQualities :
         LET own == NewBundle(stamp + 1, kind, q) IN Retain(own, bundles \cup {own})
    /\ UNCHANGED <<db, files, pc, run, outcome, committed>>

-----------------------------------------------------------------------------
(* run_restore, up to the last step that changes nothing.                  *)

EndsWith(o) ==
    /\ pc' = "ended"
    /\ outcome' = o

IsLive == task.kind = "LIVE"

\* restore_backup_live from Settings, or restore_backup_fresh_install from the
\* setup screen, which counts the users first.  The screen is taken over: no
\* call starts from here on.
Begin(kind, b) ==
    /\ pc = IF kind = "LIVE" THEN "in_service" ELSE "setup"
    /\ kind = "FRESH_INSTALL" => NoUsers
    /\ b \in bundles
    /\ stamp < MaxStamp
    /\ stamp' = stamp + 1
    /\ pc' = "validate"
    /\ task' = [kind |-> kind, target |-> b]
    /\ dir' = 1
    /\ before' = [db |-> db, live |-> live]
    /\ outcome' = "none"
    /\ UNCHANGED <<db, files, bundles, history>>

\* Steps 1 and 2: checksums and schema of the bundle, tools, credential, free
\* space; on a new PC there must be no users.
Validate ==
    /\ pc = "validate"
    /\ \/ /\ IsLive \/ NoUsers
          /\ pc' = "test"
          /\ outcome' = outcome
       \/ EndsWith("AbortedBeforeChange")
    /\ UNCHANGED <<db, files, bundles, stamp, run, history>>

\* Step 3: run_isolated_drill replays the dump in a throwaway cluster, brings
\* it forward and takes its totals; unbalanced journals refuse it.
TestRestore ==
    /\ pc = "test"
    /\ \/ /\ task.target.quality = "sound"
          /\ pc' = "safety_backup"
          /\ outcome' = outcome
       \/ EndsWith("AbortedBeforeChange")
    /\ UNCHANGED <<db, files, bundles, stamp, run, history>>

\* Mutant of SafetyBackup: pg_restore --list is not run on it.
SafetyBackupUnread ==
    /\ pc = "safety_backup"
    /\ \/ /\ \/ ~IsLive /\ UNCHANGED bundles
             \/ IsLive /\ \E q \in DumpQualities :
                   bundles' = bundles \cup {NewBundle(stamp, "PRE_RESTORE", q)}
          /\ pc' = "stop_connections"
          /\ outcome' = outcome
       \/ EndsWith("AbortedBeforeChange") /\ UNCHANGED bundles
    /\ UNCHANGED <<db, files, stamp, run, history>>

\* Step 4, for a live restore: take_safety_backup, whose last check is
\* pg_restore --list.  A bundle that fails it stays where it was published.
SafetyBackup ==
    /\ pc = "safety_backup"
    /\ \/ /\ \/ ~IsLive /\ UNCHANGED bundles
             \/ IsLive /\ \E q \in DumpQualities \ {"torn"} :
                   bundles' = bundles \cup {NewBundle(stamp, "PRE_RESTORE", q)}
          /\ pc' = "stop_connections"
          /\ outcome' = outcome
       \/ /\ \/ UNCHANGED bundles
             \/ IsLive /\ \E q \in DumpQualities :
                   bundles' = bundles \cup {NewBundle(stamp, "PRE_RESTORE", q)}
          /\ EndsWith("AbortedBeforeChange")
    /\ UNCHANGED <<db, files, stamp, run, history>>

\* Mutant of StopConnections: the users are not counted again.
StopConnectionsUncounted ==
    /\ pc = "stop_connections"
    /\ \/ pc' = "reset" /\ outcome' = outcome
       \/ EndsWith("AbortedBeforeChange")
    /\ UNCHANGED <<db, files, bundles, stamp, run, history>>

\* Step 5: the pool is closed, which waits for the calls under way; the users
\* of a new PC are counted again; other sessions must go within 15 s.
StopConnections ==
    /\ pc = "stop_connections"
    /\ \/ /\ IsLive \/ NoUsers
          /\ pc' = "reset"
          /\ outcome' = outcome
       \/ EndsWith("AbortedBeforeChange")
    /\ UNCHANGED <<db, files, bundles, stamp, run, history>>

-----------------------------------------------------------------------------
(* The steps after which only the rollback leads back.                     *)

\* One step of reset_all_schemas: some schemas dropped, public last.
DropsSchemas(then) ==
    \/ db' \in PartlyDropped(db) /\ UNCHANGED pc
    \/ db' = EmptyDatabase /\ pc' = then

RollBack == pc' = "undo_reset" /\ UNCHANGED db

\* Step 6: replace_database; pg_restore runs in a single transaction.
Reset ==
    /\ pc = "reset"
    /\ DropsSchemas("restore") \/ RollBack
    /\ UNCHANGED <<files, bundles, stamp, run, outcome, history>>

Restore ==
    /\ pc = "restore"
    /\ \/ /\ task.target.quality = "sound"
          /\ db' = task.target.content
          /\ pc' = "forward"
       \/ RollBack
    /\ UNCHANGED <<files, bundles, stamp, run, outcome, history>>

\* Mutant of Forward: migrations already applied are not skipped.
ForwardUnfiltered ==
    /\ pc = "forward"
    /\ \/ db' = MigratedOnce(db) /\ pc' = pc
       \/ db.applied = MaxSchema /\ pc' = "verify" /\ db' = db
       \/ RollBack
    /\ UNCHANGED <<files, bundles, stamp, run, outcome, history>>

\* Step 7: bring_schema_forward, one migration a transaction.
Forward ==
    /\ pc = "forward"
    /\ \/ db.applied < MaxSchema /\ db' = MigratedOnce(db) /\ pc' = pc
       \/ db.applied = MaxSchema /\ pc' = "verify" /\ db' = db
       \/ RollBack
    /\ UNCHANGED <<files, bundles, stamp, run, outcome, history>>

\* Step 8: the schema is the binary's, the journals balance, the totals are
\* those of the drill.
Verify ==
    /\ pc = "verify"
    /\ \/ /\ db.applied = MaxSchema
          /\ db.data = task.target.content.data
          /\ pc' = "move_aside"
          /\ db' = db
       \/ RollBack
    /\ UNCHANGED <<files, bundles, stamp, run, outcome, history>>

\* The directory the swap has come to, out of the way of the bundle's.
Saved == [of |-> stamp, dir |-> dir, files |-> live[dir]]

Except(ds) == [d \in DOMAIN live \ ds |-> live[d]]

\* The directories once the swap has put these files where it has come to.
Filled(fs) == [d \in DOMAIN live \cup {dir} |-> IF d = dir THEN fs ELSE live[d]]

\* Step 9, per directory: an existing one is renamed ...
MoveAside ==
    /\ pc = "move_aside"
    /\ \/ /\ dir \in DOMAIN live
          /\ aside' = aside \cup {Saved}
          /\ live' = Except({dir})
          /\ pc' = "copy"
       \/ dir \notin DOMAIN live /\ pc' = "copy" /\ UNCHANGED files
       \/ pc' = "revert" /\ UNCHANGED files
    /\ UNCHANGED <<db, bundles, stamp, run, outcome, history>>

\* Mutant of Copy: the swap stops one directory short.
CopyShort ==
    /\ pc = "copy"
    /\ \/ /\ live' = Filled(task.target.assets[dir])
          /\ IF dir + 1 >= Dirs
             THEN pc' = "record" /\ dir' = dir
             ELSE pc' = "move_aside" /\ dir' = dir + 1
       \/ live' = live /\ pc' = "revert" /\ dir' = dir
    /\ UNCHANGED <<db, aside, bundles, stamp, task, before, outcome, history>>

\* ... and a new one is filled from the bundle, file by file.
Copy ==
    /\ pc = "copy"
    /\ \/ /\ live' = Filled(task.target.assets[dir])
          /\ IF dir = Dirs
             THEN pc' = "record" /\ dir' = dir
             ELSE pc' = "move_aside" /\ dir' = dir + 1
       \/ /\ \/ live' = live
             \/ \E copied \in SUBSET task.target.assets[dir] :
                    live' = Filled(copied)
          /\ pc' = "revert"
          /\ dir' = dir
    /\ UNCHANGED <<db, aside, bundles, stamp, task, before, outcome, history>>

Own == {s \in aside : s.of = stamp}

\* Mutant of Revert: it empties the directories before it looks for the old.
RevertByDiscarding ==
    /\ pc = "revert"
    /\ aside' = aside \ Own
    /\ live' = Except({s.dir : s \in Own})
    /\ pc' = "undo_reset"
    /\ UNCHANGED <<db, bundles, stamp, run, outcome, history>>

\* restore_previous_assets, whose result swap_in_assets drops: what was moved
\* aside replaces what was copied, unless a file of the copy cannot be
\* removed (it stays, the old one stays aside) or the rename fails.  A
\* directory that did not exist before stays as the swap left it.
Revert ==
    /\ pc = "revert"
    /\ \E stuck \in SUBSET Own, gone \in SUBSET (1..Dirs) :
         LET back == Own \ stuck IN
         /\ gone \subseteq {s.dir : s \in stuck}
         /\ aside' = aside \ back
         /\ live' = [d \in (DOMAIN live \cup {s.dir : s \in back}) \ gone |->
                        IF \E s \in back : s.dir = d
                        THEN (CHOOSE s \in back : s.dir = d).files
                        ELSE live[d]]
    /\ pc' = "undo_reset"
    /\ UNCHANGED <<db, bundles, stamp, run, outcome, history>>

SafetyCopy == CHOOSE b \in bundles : b.name = stamp

\* Step 10: the event is recorded (its failure is not fatal), what was moved
\* aside is discarded (or left, wholly or in part), the safety backups beyond
\* the newest are deleted, and the application restarts itself.
Record ==
    /\ pc = "record"
    /\ \E left \in SUBSET Own : aside' = (aside \ Own) \cup left
    /\ IF IsLive THEN Retain(SafetyCopy, bundles) ELSE UNCHANGED <<bundles, pruned>>
    /\ pc' = "closed"
    /\ outcome' = "Succeeded"
    /\ UNCHANGED <<db, live, stamp, run, committed>>

\* rollback: the safety backup replaces what is there; a new PC gets an empty
\* database instead.
UndoReset ==
    /\ pc = "undo_reset"
    /\ \/ DropsSchemas("undo_restore") /\ UNCHANGED outcome
       \/ EndsWith("RollbackFailed") /\ UNCHANGED db
    /\ UNCHANGED <<files, bundles, stamp, run, history>>

\* Mutant of UndoRestore: the exit status of pg_restore is ignored.
UndoRestoreUnread ==
    /\ pc = "undo_restore"
    /\ db' \in {IF IsLive THEN SafetyCopy.content ELSE db, [db EXCEPT !.applied = MaxSchema]}
    /\ EndsWith("RolledBack")
    /\ UNCHANGED <<files, bundles, stamp, run, history>>

\* The schema check after it fails closed: Unknown is a failed rollback.
UndoRestore ==
    /\ pc = "undo_restore"
    /\ IF IsLive
       THEN \/ /\ SafetyCopy.quality = "sound"
               /\ db' = SafetyCopy.content
               /\ \/ db'.applied = MaxSchema /\ EndsWith("RolledBack")
                  \/ EndsWith("RollbackFailed")
            \/ EndsWith("RollbackFailed") /\ db' = db
       ELSE \/ /\ db' = [EmptyDatabase EXCEPT !.applied = MaxSchema]
               /\ EndsWith("RolledBack")
            \/ /\ \E v \in 0..MaxSchema : db' = [EmptyDatabase EXCEPT !.applied = v]
               /\ EndsWith("RollbackFailed")
    /\ UNCHANGED <<files, bundles, stamp, run, history>>

RestoreStep ==
    \/ Validate \/ TestRestore \/ SafetyBackup \/ StopConnections
    \/ Reset \/ Restore \/ Forward \/ Verify
    \/ MoveAside \/ Copy \/ Revert \/ Record
    \/ UndoReset \/ UndoRestore

Next ==
    \/ OpenApp
    \/ UpgradeAtStart
    \/ Stop
    \/ \E e \in Entries, d \in 1..Dirs : Trade(e, d)
    \/ \E e \in InFlight : CommitInFlight(e)
    \/ \E kind \in {"MANUAL", "AUTOMATIC"} : BackUp(kind)
    \/ \E kind \in {"LIVE", "FRESH_INSTALL"}, b \in bundles : Begin(kind, b)
    \/ RestoreStep

Spec == Init /\ [][Next]_vars

-----------------------------------------------------------------------------
(* Correctness.                                                            *)

\* An image of the database this restore found, except that calls which were
\* still under way when the safety backup was taken may be missing from it.
ImageOf(content, found) ==
    /\ content = [found EXCEPT !.data = content.data]
    /\ found.data \ InFlight \subseteq content.data
    /\ content.data \subseteq found.data

\* The safety backup of the running restore: the database and the files it
\* found, in a dump that at least lists.
HasSafetyBackup ==
    \E b \in bundles : /\ b.name = stamp
                       /\ b.kind = "PRE_RESTORE"
                       /\ b.quality # "torn"
                       /\ ImageOf(b.content, before.db)
                       /\ \A d \in DOMAIN before.live : b.assets[d] = before.live[d]

\* Nothing of the database or of the directories is changed by a restore
\* unless a safety backup of both is in place, or there was no shop: an
\* account created meanwhile, by a call already under way, stops it.
NeverReplacesUnprotected ==
    pc \in Changing => IF IsLive THEN HasSafetyBackup ELSE before.db.data = {}

\* What the last screen says is true of the database (before anything changed;
\* put back), and of the files when nothing was changed; RollbackFailed names a
\* safety backup that is there.
OutcomeIsTrue ==
    /\ outcome = "AbortedBeforeChange" => db = before.db /\ live = before.live
    /\ outcome = "RolledBack" => ImageOf(db, before.db)
    /\ outcome = "RollbackFailed" /\ IsLive => HasSafetyBackup

\* Success is both halves of the backup: its data at the schema of the binary
\* and its files in every directory, and nothing else.
SuccessIsTheBackup ==
    outcome = "Succeeded" =>
        /\ db = [task.target.content EXCEPT !.applied = MaxSchema]
        /\ live = task.target.assets

Held(b) == IF b.quality = "sound" THEN b.content.data ELSE {}

\* Through restores, failed restores, rollbacks and power cuts, every entry is
\* in the database or in a bundle that restores, unless only bundles that
\* retention deleted held it; calls under way at a takeover aside.
DataSurvives ==
    committed \ InFlight \subseteq db.data \cup UNION {Held(b) : b \in bundles \cup pruned}

\* Until a restore has succeeded every directory it found is in its place, or
\* what was in it is aside, whatever fails on the way and on the way back.
FilesSurvive ==
    pc \in BeforeStop \cup Changing \cup {"ended"} =>
        \A d \in DOMAIN before.live :
            \/ d \in DOMAIN live /\ live[d] = before.live[d]
            \/ [of |-> stamp, dir |-> d, files |-> before.live[d]] \in aside

-----------------------------------------------------------------------------
(* Why they hold: an inductive invariant.                                  *)

\* Bundles and directories moved aside are told apart by the second they are
\* named by: a restore that has made no bundle yet finds none of its second.
NamesAreFresh ==
    /\ \A b \in bundles : b.name <= stamp
    /\ \A b, c \in bundles : b.name = c.name => b = c
    /\ pc \in {"validate", "test", "safety_backup"} => \A b \in bundles : b.name < stamp
    /\ \A s \in aside : s.of <= stamp

\* A restore begins on the schema of the binary, and finds what it will have to
\* put back.
FoundFollowsPc ==
    /\ pc \in {"in_service", "setup"} => db.applied = MaxSchema /\ db.whole
    /\ pc \in BeforeStop => db = before.db
    /\ pc \in BeforeStop \cup Changing => before.db.applied = MaxSchema /\ before.db.whole

\* The safety backup is there from StopConnections on.
ProtectionFollowsPc ==
    /\ pc \in Changing \cup {"stop_connections"} /\ IsLive => HasSafetyBackup
    /\ NeverReplacesUnprotected

\* From the replay of the dump on, the database is the backup's but for its schema.
DatabaseFollowsPc ==
    /\ pc \in {"forward", "verify", "move_aside", "copy", "record"} =>
         db = [task.target.content EXCEPT !.applied = db.applied]
    /\ pc \in {"move_aside", "copy", "record"} => db.applied = MaxSchema

BeforeSwap == BeforeStop \cup {"reset", "restore", "forward", "verify"}

IsAsFound(d) ==
    /\ d \in DOMAIN live <=> d \in DOMAIN before.live
    /\ d \in DOMAIN live => live[d] = before.live[d]

IsTheBackups(d) == d \in DOMAIN live /\ live[d] = task.target.assets[d]

\* The swap goes from directory to directory; what is aside is what it found.
FilesFollowPc ==
    /\ pc \in BeforeSwap => live = before.live /\ Own = {} /\ dir = 1
    /\ pc \in {"move_aside", "copy"} => \A d \in 1..(dir - 1) : IsTheBackups(d)
    /\ pc = "move_aside" => \A d \in dir..Dirs : IsAsFound(d)
    /\ pc = "copy" => dir \notin DOMAIN live /\ \A d \in (dir + 1)..Dirs : IsAsFound(d)
    /\ pc = "record" => live = task.target.assets
    /\ pc \in Changing =>
         \A s \in Own : s.dir \in DOMAIN before.live /\ s.files = before.live[s.dir]
    /\ FilesSurvive

\* A screen reports an outcome until the operator leaves it.
OutcomeFollowsPc ==
    /\ outcome \in {"AbortedBeforeChange", "RolledBack", "RollbackFailed"} => pc = "ended"
    /\ outcome = "Succeeded" => pc = "closed"
    /\ OutcomeIsTrue
    /\ SuccessIsTheBackup

RestoreInv ==
    /\ TypeOK
    /\ NamesAreFresh
    /\ FoundFollowsPc
    /\ ProtectionFollowsPc
    /\ DatabaseFollowsPc
    /\ FilesFollowPc
    /\ OutcomeFollowsPc

\* What is presumed of pg_dump for the data to survive a rollback: a dump that
\* lists also replays.
DumpsAsPresumed == "listable" \notin DumpQualities

\* Every entry is in the database or, once the restore changes it, in a bundle.
Kept == UNION {Held(b) : b \in bundles \cup pruned}

DataFollowsPc ==
    /\ DataSurvives
    /\ pc \in Changing => committed \ InFlight \subseteq Kept
    /\ \A b \in bundles : b.quality # "listable"

-----------------------------------------------------------------------------
\* What the recovery plan and the restore procedure promise of a power cut
\* while the data is replaced: the application comes up with an upgrade, with
\* first-run setup or with the shop, from where a backup can be restored.
\* The code does not keep it: a power cut between two dropped schemas.
InterruptedRestoreReopens == pc # "unavailable"
=============================================================================
