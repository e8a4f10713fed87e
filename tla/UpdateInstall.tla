---------------------------- MODULE UpdateInstall ----------------------------
(* The internet update of an embedded installation: performUpdate of          *)
(* useAppUpdate.ts (download, PRE_UPDATE backup, stop of the embedded server, *)
(* install, resume after a failure) against signing in and out, the cash      *)
(* session, a live restore, the lock of a foreign program on the bundled      *)
(* files, and the end of the process.                                         *)
EXTENDS Naturals, FiniteSets

CONSTANTS
    Users,      \* accounts that sign in at this workstation
    Nobody,     \* not an account: nobody signed in, no cash session
    Runs,       \* identities of concurrent runs of performUpdate (a bound)
    MaxBuild    \* bound on the installed versions

ASSUME NobodyIsNoUser == Nobody \notin Users
ASSUME MaxBuildIsPositive == MaxBuild \in Nat \ {0}

VARIABLES
    app,        \* the process: "up" or "down"
    build,      \* version of the program that is installed
    server,     \* does the embedded PostgreSQL answer?
    child,      \* does this process hold the server as its child (handle.child)?
    locked,     \* does another program hold the bundled files open?
    user,       \* who is signed in
    drawer,     \* current cashier of the open cash session of this workstation
    answer,     \* answer of inspect_active_cash_session on its way to the window
    shown,      \* activeCashSession is not null, as the window last saw it
    available,  \* the mounted banner offers an update
    run,        \* the runs of performUpdate
    restore,    \* live restore: "no", "running", "over" (its screen stays until a restart)
    outage      \* history: why a server that does not answer stays away

vars == <<app, build, server, child, locked, user, drawer, answer, shown,
          available, run, restore, outage>>
process == <<app, build>>
postgres == <<server, child, locked>>
window == <<user, drawer, answer, shown, available>>

(* A run of performUpdate. own: the banner that started it is still mounted.  *)
(* token: the session it took along is still valid. saved: it has its backup. *)
(* stopped: stoppedDatabase. overtaken: a live restore began after its        *)
(* backup. crossed: it shared its time with another run.                      *)
NoRun == [pc |-> "none", own |-> FALSE, token |-> FALSE, stopped |-> FALSE,
          saved |-> FALSE, overtaken |-> FALSE, crossed |-> FALSE]

RunType ==
    [pc : {"none", "download", "backup", "prepare", "unlock", "install", "resume"},
     own : BOOLEAN, token : BOOLEAN, stopped : BOOLEAN,
     saved : BOOLEAN, overtaken : BOOLEAN, crossed : BOOLEAN]

Active(r) == run[r].pc # "none"

(* phase # 'idle' of the mounted banner: the Install button is not rendered.  *)
Busy == \E r \in Runs : Active(r) /\ run[r].own

Goto(r, pc) == run' = [run EXCEPT ![r].pc = pc]

Init ==
    /\ app = "up" /\ build = 1
    /\ server = TRUE /\ child = TRUE /\ locked = FALSE
    /\ user = Nobody /\ drawer = Nobody
    /\ answer = "none" /\ shown = FALSE /\ available = FALSE
    /\ run = [r \in Runs |-> NoRun]
    /\ restore = "no" /\ outage = "none"

-----------------------------------------------------------------------------
(* The signed-in window.                                                      *)

WindowWorks == app = "up" /\ restore = "no"

Login(u) ==
    /\ WindowWorks /\ server /\ user = Nobody
    /\ user' = u /\ available' = FALSE
    /\ UNCHANGED <<process, postgres, drawer, answer, shown, run, restore, outage>>

(* clearSession, then a best-effort revocation of the token. The banner goes  *)
(* with the authenticated screens, the runs it started do not.                *)
Logout ==
    /\ WindowWorks /\ user # Nobody
    /\ user' = Nobody /\ shown' = FALSE /\ available' = FALSE
    /\ \E revoked \in BOOLEAN :
         run' = [r \in Runs |->
                  [run[r] EXCEPT !.own = FALSE, !.token = IF revoked THEN FALSE ELSE @]]
    /\ UNCHANGED <<process, postgres, drawer, answer, restore, outage>>

OpenSession ==
    /\ WindowWorks /\ server /\ user # Nobody /\ drawer = Nobody
    /\ drawer' = user
    /\ UNCHANGED <<process, postgres, user, answer, shown, available, run, restore, outage>>

CloseSession ==
    /\ WindowWorks /\ server /\ user # Nobody /\ drawer = user
    /\ drawer' = Nobody
    /\ UNCHANGED <<process, postgres, user, answer, shown, available, run, restore, outage>>

(* inspect_active_cash_session finds the open session of the caller only.     *)
Inspect ==
    /\ WindowWorks /\ server /\ user # Nobody /\ answer = "none"
    /\ answer' = IF drawer = user THEN "open" ELSE "closed"
    /\ UNCHANGED <<process, postgres, user, drawer, shown, available, run, restore, outage>>

(* setActiveCashSession(session), whoever is signed in by then.               *)
Inspected ==
    /\ app = "up" /\ answer # "none"
    /\ shown' = (answer = "open") /\ answer' = "none"
    /\ UNCHANGED <<process, postgres, user, drawer, available, run, restore, outage>>

(* runCheck: at the mount of the banner and every six hours; a failed check   *)
(* withdraws the offer.                                                       *)
Check(found) ==
    /\ WindowWorks /\ user # Nobody /\ build < MaxBuild
    /\ available' = found
    /\ UNCHANGED <<process, postgres, user, drawer, answer, shown, run, restore, outage>>

-----------------------------------------------------------------------------
(* performUpdate.                                                             *)

Click(r) ==
    /\ WindowWorks /\ user # Nobody /\ available /\ ~Busy
    /\ ~shown
    /\ ~Active(r)
    /\ LET others == {s \in Runs : Active(s)} IN
       run' = [s \in Runs |->
                IF s = r THEN [NoRun EXCEPT !.pc = "download", !.own = TRUE,
                                            !.token = TRUE, !.crossed = others # {}]
                ELSE [run[s] EXCEPT !.crossed = IF s \in others THEN TRUE ELSE @]]
    /\ UNCHANGED <<process, postgres, window, restore, outage>>

Downloaded(r) ==
    /\ app = "up" /\ run[r].pc = "download"
    /\ Goto(r, "backup")
    /\ UNCHANGED <<process, postgres, window, restore, outage>>

(* Mutated form: the automatic backup does not ask for the recovery lease.    *)
BackedUpUnleased(r) ==
    /\ app = "up" /\ run[r].pc = "backup"
    /\ server /\ run[r].token
    /\ run' = [run EXCEPT ![r] = [@ EXCEPT !.pc = "prepare", !.saved = TRUE]]
    /\ UNCHANGED <<process, postgres, window, restore, outage>>

(* run_automatic_backup: it takes the recovery lease for as long as it runs.  *)
BackedUp(r) ==
    /\ app = "up" /\ run[r].pc = "backup"
    /\ server /\ run[r].token /\ restore # "running"
    /\ run' = [run EXCEPT ![r] = [@ EXCEPT !.pc = "prepare", !.saved = TRUE]]
    /\ UNCHANGED <<process, postgres, window, restore, outage>>

(* A failed download, or a backup that fails, is refused or is not CREATED.   *)
GivenUp(r) ==
    /\ app = "up" /\ run[r].pc \in {"download", "backup"}
    /\ run' = [run EXCEPT ![r] = NoRun]
    /\ UNCHANGED <<process, postgres, window, restore, outage>>

(* The reason is noted if there is no server.                                 *)
Unless(answers, reason) == IF answers THEN outage ELSE reason

(* Mutated form: only the server that this process started is stopped.        *)
StopOwnChild(r) ==
    /\ app = "up" /\ run[r].pc = "prepare"
    /\ child' = FALSE /\ server' = (server /\ ~child)
    /\ Goto(r, "unlock")
    /\ UNCHANGED <<process, locked, window, restore, outage>>

(* stop_embedded_postgres_if_running, in prepare_for_update_install.          *)
StopServer(r) ==
    /\ app = "up" /\ run[r].pc = "prepare"
    /\ child' = FALSE /\ server' = FALSE
    /\ Goto(r, "unlock")
    /\ UNCHANGED <<process, locked, window, restore, outage>>

(* pg_ctl gives up waiting; the server may go down all the same.              *)
StopFails(r) ==
    /\ app = "up" /\ run[r].pc = "prepare" /\ (child \/ server)
    /\ child' = FALSE /\ server' \in {FALSE, server}
    /\ run' = [run EXCEPT ![r] = NoRun]
    /\ outage' = Unless(server', "stop")
    /\ UNCHANGED <<process, locked, window, restore>>

(* wait_until_resources_unlocked: the same command, up to 15 seconds later.   *)
Unlocked(r) ==
    /\ app = "up" /\ run[r].pc = "unlock" /\ ~locked
    /\ run' = [run EXCEPT ![r] = [@ EXCEPT !.pc = "install", !.stopped = TRUE]]
    /\ UNCHANGED <<process, postgres, window, restore, outage>>

(* Mutated form: the wait for the files has no deadline.                      *)
StaysLockedUnbounded(r) == FALSE

(* The command answers with an error, stoppedDatabase was never set.          *)
StaysLocked(r) ==
    /\ app = "up" /\ run[r].pc = "unlock" /\ locked
    /\ run' = [run EXCEPT ![r] = NoRun]
    /\ outage' = Unless(server, "locked")
    /\ UNCHANGED <<process, postgres, window, restore>>

(* What the window, the runs and a restore are after the process is gone.     *)
ProcessGone ==
    /\ app' = "down" /\ child' = FALSE
    /\ user' = Nobody /\ answer' = "none" /\ shown' = FALSE /\ available' = FALSE
    /\ run' = [r \in Runs |-> NoRun]
    /\ restore' = "no"

(* update.install(): on success the plugin ends the process, without the exit *)
(* hook of lib.rs, and the installer overwrites the program.                  *)
Installed(r) ==
    /\ app = "up" /\ run[r].pc = "install" /\ build < MaxBuild
    /\ build' = build + 1
    /\ ProcessGone
    /\ UNCHANGED <<server, locked, drawer, outage>>

(* update.install() comes back without having installed anything: past its    *)
(* catch, performUpdate goes idle and resumes nothing.                        *)
InstallReturns(r) ==
    /\ app = "up" /\ run[r].pc = "install"
    /\ run' = [run EXCEPT ![r] = NoRun]
    /\ outage' = Unless(server, "returned")
    /\ UNCHANGED <<process, postgres, window, restore>>

(* Mutated form: the banner reports the failure and resumes nothing.          *)
InstallFailsUnresumed(r) ==
    /\ app = "up" /\ run[r].pc = "install"
    /\ run' = [run EXCEPT ![r] = NoRun]
    /\ UNCHANGED <<process, postgres, window, restore, outage>>

(* update.install() throws; performUpdate's catch resumes what it stopped.    *)
InstallFails(r) ==
    /\ app = "up" /\ run[r].pc = "install"
    /\ IF run[r].stopped THEN Goto(r, "resume") ELSE run' = [run EXCEPT ![r] = NoRun]
    /\ UNCHANGED <<process, postgres, window, restore, outage>>

(* resume_after_failed_update_install: ensure_running, best effort.           *)
Resumed(r) ==
    /\ app = "up" /\ run[r].pc = "resume"
    /\ server' = TRUE /\ child' = (child \/ ~server)
    /\ run' = [run EXCEPT ![r] = NoRun]
    /\ outage' = "none"
    /\ UNCHANGED <<process, locked, window, restore>>

ResumeFails(r) ==
    /\ app = "up" /\ run[r].pc = "resume"
    /\ run' = [run EXCEPT ![r] = NoRun]
    /\ outage' = Unless(server, "resume")
    /\ UNCHANGED <<process, postgres, window, restore>>

-----------------------------------------------------------------------------
(* A live restore, seen from here: it holds the recovery lease and takes the  *)
(* window over until the program is restarted.                                *)

BeginRestore ==
    /\ WindowWorks /\ server /\ user # Nobody /\ ~shown
    /\ restore' = "running"
    /\ run' = [r \in Runs |->
                [run[r] EXCEPT !.own = FALSE,
                               !.overtaken = IF run[r].saved THEN TRUE ELSE @]]
    /\ available' = FALSE
    /\ UNCHANGED <<process, postgres, user, drawer, answer, shown, outage>>

RestoreFails ==
    /\ app = "up" /\ restore = "running"
    /\ restore' = "over"
    /\ UNCHANGED <<process, postgres, window, run, outage>>

(* The worker stops the server, or fails to, and restarts the program itself; *)
(* the backup has the cash session of its day.                                *)
RestoreSucceeds ==
    /\ app = "up" /\ restore = "running" /\ server
    /\ server' \in BOOLEAN
    /\ drawer' \in Users \cup {Nobody}
    /\ ProcessGone
    /\ UNCHANGED <<build, locked, outage>>

-----------------------------------------------------------------------------
(* The process and its surroundings.                                          *)

(* RunEvent::Exit, or restart_after_recovery, stops the server; if that       *)
(* fails, it is left running.                                                 *)
Exit ==
    /\ app = "up"
    /\ server' \in {FALSE, server}
    /\ ProcessGone
    /\ UNCHANGED <<build, locked, drawer, outage>>

(* A crash of the program may leave the server behind, a power cut does not.  *)
Crash ==
    /\ app = "up"
    /\ server' \in {FALSE, server}
    /\ ProcessGone
    /\ UNCHANGED <<build, locked, drawer, outage>>

(* ensure_embedded_postgres_running at start; a server that was left behind   *)
(* is used as it is and does not become a child of this process.              *)
Start ==
    /\ app = "down"
    /\ app' = "up"
    /\ \/ server' = TRUE /\ child' = ~server /\ outage' = "none"
       \/ server' = server /\ child' = FALSE /\ outage' = Unless(server, "start")
    /\ UNCHANGED <<build, locked, window, run, restore>>

ForeignProgram ==
    /\ locked' = ~locked
    /\ UNCHANGED <<process, server, child, window, run, restore, outage>>

RunStep(r) ==
    \/ Downloaded(r) \/ BackedUp(r) \/ GivenUp(r)
    \/ StopServer(r) \/ StopFails(r) \/ Unlocked(r) \/ StaysLocked(r)
    \/ Installed(r) \/ InstallReturns(r) \/ InstallFails(r) \/ Resumed(r) \/ ResumeFails(r)

Next ==
    \/ \E u \in Users : Login(u)
    \/ Logout \/ OpenSession \/ CloseSession \/ Inspect \/ Inspected
    \/ \E found \in BOOLEAN : Check(found)
    \/ \E r \in Runs : Click(r) \/ RunStep(r)
    \/ BeginRestore \/ RestoreFails \/ RestoreSucceeds
    \/ Exit \/ Crash \/ Start \/ ForeignProgram

(* prepare_for_update_install and resume_after_failed_update_install wait for *)
(* bounded times, and install() answers or ends the process.                  *)
Fairness == \A r \in Runs : WF_vars(RunStep(r))

Spec == Init /\ [][Next]_vars
FairSpec == Spec /\ Fairness

-----------------------------------------------------------------------------
(* Every variable has its type.                                               *)
TypeOK ==
    /\ app \in {"up", "down"} /\ build \in 1..MaxBuild
    /\ server \in BOOLEAN /\ child \in BOOLEAN /\ locked \in BOOLEAN
    /\ user \in Users \cup {Nobody} /\ drawer \in Users \cup {Nobody}
    /\ answer \in {"none", "open", "closed"}
    /\ shown \in BOOLEAN /\ available \in BOOLEAN
    /\ run \in [Runs -> RunType]
    /\ restore \in {"no", "running", "over"}
    /\ outage \in {"none", "stop", "locked", "returned", "resume", "start"}

Outage ==
    /\ app = "up" /\ restore = "no" /\ ~server
    /\ \A r \in Runs : ~Active(r)

(* The shop is without its server, and no update is at work on it, only for a *)
(* reason that arose since the server last answered: a stop that failed half  *)
(* way, files that stayed locked, an install() that came back, a resume or a  *)
(* start that failed. What throws from install(), alone or next to another    *)
(* run, gives the server back (performUpdate's catch).                        *)
OutageIsExcused ==
    /\ Outage => outage # "none"
    /\ server => outage = "none"

(* A run that shared its time with no other starts the installer over a       *)
(* server that is stopped, also when an earlier process left it running.      *)
InstallOverStoppedServer ==
    [][\A r \in Runs :
        (build' # build /\ run[r].pc = "install" /\ ~run[r].crossed) => ~server]_vars

(* An update stops the server under a live restore, or tries to, only if that *)
(* restore began after the backup of the update had given the recovery lease  *)
(* back.                                                                      *)
RestoreKeepsItsServer ==
    [][\A r \in Runs :
        (run[r].pc = "prepare" /\ run'[r].pc # "prepare" /\ restore = "running" /\ app' = "up")
            => run[r].overtaken]_vars

(* Once an update has stopped the server, either the server comes back, or    *)
(* the process ends for the installer, or the reason it stays away is known.  *)
OutagesEnd ==
    (app = "up" /\ ~server) ~> (server \/ app = "down" \/ outage # "none")

(* useAppUpdate.ts:230-233 says: when the files stayed locked after the stop, *)
(* the catch gets the database running again. The code does not do it.        *)
FailedUpdateLeavesADatabase == Outage => outage # "locked"

(* useAppUpdate.ts:221-225 says: an install() that comes back is treated the  *)
(* same as any other failure, and 51-53 that after a failed one the database  *)
(* is restarted. The code does not do it: InstallReturns.                     *)
ReturnedInstallLeavesADatabase == Outage => outage # "returned"

(* useAppUpdate.ts:20-22 says: an update must never begin while a cash        *)
(* session is open. The code does not keep it: the window sees the session of *)
(* the signed-in user only.                                                   *)
UpdatesSpareOthersSessions ==
    [][\A r \in Runs :
        (~Active(r) /\ run'[r].pc = "download") => drawer \in {user, Nobody}]_vars
=============================================================================
