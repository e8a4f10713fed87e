------------------------- MODULE UpdateInstall_proofs -------------------------
(* What UpdateInstall promises for any number of users, runs and versions.    *)
EXTENDS UpdateInstall, TLAPS

(* What the runs rest on: a run that reached the server has its backup, and   *)
(* one that may install knows that it stopped the server.                     *)
RunsKnow ==
    \A r \in Runs :
        /\ run[r].pc \in {"prepare", "unlock", "install", "resume"} => run[r].saved
        /\ run[r].pc = "install" => run[r].stopped

(* The process takes its runs with it.                                        *)
RunsNeedTheProcess == app = "down" => \A r \in Runs : ~Active(r)

(* A server that does not answer is stopped by a run, or its absence has a    *)
(* reason.                                                                    *)
StoppedBySomebody ==
    (app = "up" /\ restore = "no" /\ ~server)
        => \/ outage # "none"
           \/ \E r \in Runs : run[r].pc \in {"unlock", "install", "resume"}

(* A reason does not outlive the server's absence.                            *)
ReasonsAreFresh == server => outage = "none"

(* A run that was never crossed is alone, and its server stays stopped.       *)
UncrossedIsAlone ==
    \A r \in Runs : (Active(r) /\ ~run[r].crossed) =>
        /\ \A s \in Runs : Active(s) => s = r
        /\ run[r].pc \in {"unlock", "install"} => ~server

(* A run that is about to stop the server beside a restore had its backup     *)
(* before that restore.                                                       *)
OvertakenByRestore ==
    \A r \in Runs : (restore = "running" /\ run[r].pc = "prepare") => run[r].overtaken

IInv ==
    /\ TypeOK /\ RunsKnow /\ RunsNeedTheProcess
    /\ StoppedBySomebody /\ ReasonsAreFresh /\ UncrossedIsAlone /\ OvertakenByRestore

LEMMA NoRunIsARun ==
    /\ NoRun \in RunType
    /\ NoRun.pc = "none" /\ ~NoRun.own /\ ~NoRun.stopped /\ ~NoRun.crossed
BY DEF NoRun, RunType

-----------------------------------------------------------------------------
(* Types.                                                                     *)

(* A run with some of its fields set keeps the others.                        *)
LEMMA StartedRun ==
    ASSUME NEW b \in BOOLEAN
    PROVE  LET q == [NoRun EXCEPT !.pc = "download", !.own = TRUE, !.token = TRUE, !.crossed = b]
           IN  /\ q \in RunType
               /\ q.pc = "download" /\ q.crossed = b /\ ~q.stopped
<1>1. ASSUME NEW q \in RunType
      PROVE  LET x == [q EXCEPT !.pc = "download", !.own = TRUE, !.token = TRUE, !.crossed = b]
             IN  x \in RunType /\ x.pc = "download" /\ x.crossed = b /\ x.stopped = q.stopped
  BY DEF RunType
<1> QED
  BY <1>1, NoRunIsARun

LEMMA LeftRun ==
    ASSUME NEW q \in RunType, NEW t \in BOOLEAN
    PROVE  LET x == [q EXCEPT !.own = FALSE, !.token = IF t THEN FALSE ELSE @]
           IN  /\ x \in RunType /\ x.pc = q.pc /\ x.stopped = q.stopped
               /\ x.saved = q.saved /\ x.overtaken = q.overtaken /\ x.crossed = q.crossed
BY DEF RunType

LEMMA OvertakenRun ==
    ASSUME NEW q \in RunType
    PROVE  LET x == [q EXCEPT !.own = FALSE, !.overtaken = IF q.saved THEN TRUE ELSE @]
           IN  /\ x \in RunType /\ x.pc = q.pc /\ x.stopped = q.stopped
               /\ x.saved = q.saved /\ x.crossed = q.crossed
               /\ q.saved => x.overtaken
BY DEF RunType

LEMMA CrossedRun ==
    ASSUME NEW q \in RunType, NEW s, NEW S
    PROVE  LET x == [q EXCEPT !.crossed = IF s \in S THEN TRUE ELSE @]
           IN  /\ x \in RunType /\ x.pc = q.pc /\ x.stopped = q.stopped
               /\ x.saved = q.saved /\ x.overtaken = q.overtaken
               /\ x.crossed = IF s \in S THEN TRUE ELSE q.crossed
BY DEF RunType

LEMMA InitType == Init => TypeOK
<1> SUFFICES ASSUME Init PROVE TypeOK
  OBVIOUS
<1>1. build \in 1..MaxBuild
  BY MaxBuildIsPositive DEF Init
<1>2. run \in [Runs -> RunType]
  BY NoRunIsARun DEF Init
<1> QED
  BY <1>1, <1>2 DEF Init, TypeOK

(* The steps of one run.                                                      *)
LEMMA RunStepTypes ==
    ASSUME TypeOK, NEW r \in Runs, RunStep(r)
    PROVE  TypeOK'
<1> USE NoRunIsARun DEF TypeOK, Goto, process, postgres, window
<1>1. CASE Downloaded(r)
  BY <1>1 DEF Downloaded, RunType
<1>2. CASE BackedUp(r)
  <2>1. run' \in [Runs -> RunType]
    BY <1>2 DEF BackedUp, RunType
  <2> QED
    BY <1>2, <2>1 DEF BackedUp
<1>3. CASE GivenUp(r)
  BY <1>3 DEF GivenUp
<1>4. CASE StopServer(r)
  BY <1>4 DEF StopServer, RunType
<1>5. CASE StopFails(r)
  BY <1>5 DEF StopFails, Unless
<1>6. CASE Unlocked(r)
  <2>1. run' \in [Runs -> RunType]
    BY <1>6 DEF Unlocked, RunType
  <2> QED
    BY <1>6, <2>1 DEF Unlocked
<1>7. CASE StaysLocked(r)
  BY <1>7 DEF StaysLocked, Unless
<1>8. CASE Installed(r)
  <2>1. build' \in 1..MaxBuild
    BY <1>8, MaxBuildIsPositive DEF Installed
  <2>2. run' \in [Runs -> RunType]
    BY <1>8 DEF Installed, ProcessGone
  <2> QED
    BY <1>8, <2>1, <2>2 DEF Installed, ProcessGone
<1>9. CASE InstallFails(r)
  BY <1>9 DEF InstallFails, RunType
<1>10. CASE Resumed(r)
  BY <1>10 DEF Resumed
<1>11. CASE ResumeFails(r)
  BY <1>11 DEF ResumeFails, Unless
<1>12. CASE InstallReturns(r)
  BY <1>12 DEF InstallReturns, Unless
<1> QED
  BY <1>1, <1>2, <1>3, <1>4, <1>5, <1>6, <1>7, <1>8, <1>9, <1>10, <1>11, <1>12 DEF RunStep

LEMMA StepTypes == TypeOK /\ [Next]_vars => TypeOK'
<1> SUFFICES ASSUME TypeOK, [Next]_vars PROVE TypeOK'
  OBVIOUS
<1> USE NoRunIsARun DEF TypeOK, process, postgres, window
<1>1. ASSUME NEW u \in Users, Login(u) PROVE TypeOK'
  BY <1>1 DEF Login
<1>2. CASE Logout
  <2>1. run' \in [Runs -> RunType]
    <3>1. PICK revoked \in BOOLEAN :
            run' = [r \in Runs |->
                     [run[r] EXCEPT !.own = FALSE, !.token = IF revoked THEN FALSE ELSE @]]
      BY <1>2 DEF Logout
    <3> QED
      BY <3>1, LeftRun
  <2> QED
    BY <1>2, <2>1 DEF Logout
<1>3. CASE OpenSession \/ CloseSession
  BY <1>3 DEF OpenSession, CloseSession
<1>4. CASE Inspect \/ Inspected
  BY <1>4 DEF Inspect, Inspected
<1>5. ASSUME NEW found \in BOOLEAN, Check(found) PROVE TypeOK'
  BY <1>5 DEF Check
<1>6. ASSUME NEW r \in Runs, Click(r) PROVE TypeOK'
  <2> DEFINE others == {s \in Runs : Active(s)}
             q == [NoRun EXCEPT !.pc = "download", !.own = TRUE, !.token = TRUE,
                                !.crossed = others # {}]
  <2>1. q \in RunType
    BY StartedRun
  <2>2. run' = [s \in Runs |-> IF s = r THEN q
                  ELSE [run[s] EXCEPT !.crossed = IF s \in others THEN TRUE ELSE @]]
    BY <1>6 DEF Click
  <2>3. \A s \in Runs :
          [run[s] EXCEPT !.crossed = IF s \in others THEN TRUE ELSE @] \in RunType
    <3> TAKE s \in Runs
    <3> HIDE DEF others
    <3> QED
      BY CrossedRun
  <2> HIDE DEF q, others
  <2>4. run' \in [Runs -> RunType]
    BY <2>1, <2>2, <2>3
  <2> QED
    BY <1>6, <2>4 DEF Click
<1>7. ASSUME NEW r \in Runs, RunStep(r) PROVE TypeOK'
  BY <1>7, RunStepTypes
<1>8. CASE BeginRestore
  <2>1. run' \in [Runs -> RunType]
    BY <1>8, OvertakenRun DEF BeginRestore
  <2> QED
    BY <1>8, <2>1 DEF BeginRestore
<1>9. CASE RestoreFails \/ RestoreSucceeds
  <2>1. run' \in [Runs -> RunType]
    BY <1>9 DEF RestoreFails, RestoreSucceeds, ProcessGone
  <2> QED
    BY <1>9, <2>1 DEF RestoreFails, RestoreSucceeds, ProcessGone
<1>10. CASE Exit \/ Crash
  <2>1. run' \in [Runs -> RunType]
    BY <1>10 DEF Exit, Crash, ProcessGone
  <2> QED
    BY <1>10, <2>1 DEF Exit, Crash, ProcessGone
<1>11. CASE Start
  <2>1. outage' \in {"none", "start", outage}
    BY <1>11 DEF Start, Unless
  <2>2. app' = "up" /\ server' \in BOOLEAN /\ child' \in BOOLEAN
    BY <1>11 DEF Start
  <2>3. UNCHANGED <<build, locked, user, drawer, answer, shown, available, run, restore>>
    BY <1>11 DEF Start
  <2> QED
    BY <2>1, <2>2, <2>3
<1>12. CASE ForeignProgram
  BY <1>12 DEF ForeignProgram
<1>13. CASE UNCHANGED vars
  BY <1>13 DEF vars
<1> QED
  BY <1>1, <1>2, <1>3, <1>4, <1>5, <1>6, <1>7, <1>8, <1>9, <1>10, <1>11, <1>12,
     <1>13 DEF Next

(* Every variable has its type, for any number of users, runs and versions.   *)
THEOREM TypeCorrect == Spec => []TypeOK
<1>1. Init => TypeOK
  BY InitType
<1>2. TypeOK /\ [Next]_vars => TypeOK'
  BY StepTypes
<1> QED
  BY <1>1, <1>2, PTL DEF Spec

-----------------------------------------------------------------------------
(* The invariant.                                                             *)

LEMMA InitInvariant == Init => IInv
<1> SUFFICES ASSUME Init PROVE IInv
  OBVIOUS
<1>1. \A r \in Runs : run[r].pc = "none"
  BY NoRunIsARun DEF Init
<1>2. RunsKnow /\ RunsNeedTheProcess /\ UncrossedIsAlone /\ OvertakenByRestore
  BY <1>1 DEF RunsKnow, RunsNeedTheProcess, UncrossedIsAlone, OvertakenByRestore, Active
<1>3. StoppedBySomebody /\ ReasonsAreFresh
  BY DEF Init, StoppedBySomebody, ReasonsAreFresh
<1> QED
  BY <1>2, <1>3, InitType DEF IInv

(* Nothing that the invariant speaks of changes.                              *)
LEMMA QuietKeeps ==
    ASSUME IInv, TypeOK', UNCHANGED <<app, server, run, restore, outage>>
    PROVE  IInv'
BY DEF IInv, RunsKnow, RunsNeedTheProcess, StoppedBySomebody, ReasonsAreFresh,
       UncrossedIsAlone, OvertakenByRestore, Active

(* The process ends, and every run with it.                                   *)
LEMMA EndKeeps ==
    ASSUME IInv, TypeOK', ProcessGone, outage' = outage,
           server' = server \/ server' = FALSE \/ server
    PROVE  IInv'
<1>1. \A r \in Runs : run'[r].pc = "none"
  BY NoRunIsARun DEF ProcessGone
<1>2. app' = "down"
  BY DEF ProcessGone
<1> QED
  BY <1>1, <1>2 DEF IInv, RunsKnow, RunsNeedTheProcess, StoppedBySomebody, ReasonsAreFresh,
                    UncrossedIsAlone, OvertakenByRestore, Active

(* The banner goes, its runs stay.                                            *)
LEMMA LogoutKeeps ==
    ASSUME IInv, TypeOK', Logout
    PROVE  IInv'
<1>1. \A r \in Runs :
         /\ run'[r].pc = run[r].pc /\ run'[r].stopped = run[r].stopped
         /\ run'[r].saved = run[r].saved /\ run'[r].crossed = run[r].crossed
  <2>1. PICK revoked \in BOOLEAN :
          run' = [r \in Runs |->
                   [run[r] EXCEPT !.own = FALSE, !.token = IF revoked THEN FALSE ELSE @]]
    BY DEF Logout
  <2> TAKE r \in Runs
  <2>2. run[r] \in RunType
    BY DEF IInv, TypeOK
  <2>3. run'[r] = [run[r] EXCEPT !.own = FALSE, !.token = IF revoked THEN FALSE ELSE @]
    BY <2>1
  <2> QED
    BY <2>2, <2>3, LeftRun
<1>2. restore = "no" /\ UNCHANGED <<app, server, restore, outage>>
  BY DEF Logout, WindowWorks, process, postgres
<1> QED
  BY <1>1, <1>2 DEF IInv, RunsKnow, RunsNeedTheProcess, StoppedBySomebody, ReasonsAreFresh,
                    UncrossedIsAlone, OvertakenByRestore, Active

(* A new run is alone, or it and the others are crossed from now on.          *)
LEMMA ClickKeeps ==
    ASSUME IInv, TypeOK', NEW r \in Runs, Click(r)
    PROVE  IInv'
<1> DEFINE others == {s \in Runs : Active(s)}
<1>1. /\ run'[r].pc = "download"
      /\ run'[r].crossed = (others # {})
  BY StartedRun DEF Click, IInv, TypeOK
<1>2. ASSUME NEW s \in Runs, s # r
      PROVE  /\ run'[s].pc = run[s].pc /\ run'[s].stopped = run[s].stopped
             /\ run'[s].saved = run[s].saved
             /\ run'[s].crossed = IF s \in others THEN TRUE ELSE run[s].crossed
  <2>1. run'[s] = [run[s] EXCEPT !.crossed = IF s \in others THEN TRUE ELSE @]
    BY <1>2 DEF Click
  <2> HIDE DEF others
  <2> QED
    BY <2>1, CrossedRun DEF IInv, TypeOK
<1>3. ~Active(r) /\ app = "up" /\ restore = "no" /\ UNCHANGED <<app, server, restore, outage>>
  BY DEF Click, WindowWorks, process, postgres
<1>4. RunsKnow' /\ RunsNeedTheProcess' /\ OvertakenByRestore'
  BY <1>1, <1>2, <1>3 DEF IInv, RunsKnow, RunsNeedTheProcess, OvertakenByRestore
<1>5. StoppedBySomebody' /\ ReasonsAreFresh'
  BY <1>2, <1>3 DEF IInv, StoppedBySomebody, ReasonsAreFresh, Active
<1>6. UncrossedIsAlone'
  BY <1>1, <1>2, <1>3 DEF UncrossedIsAlone, Active
<1> QED
  BY <1>4, <1>5, <1>6 DEF IInv

(* The download is over.                                                      *)
LEMMA DownloadedKeeps ==
    ASSUME IInv, TypeOK', NEW r \in Runs, Downloaded(r)
    PROVE  IInv'
<1> USE NoRunIsARun DEF IInv, Active, Goto, WindowWorks, process, postgres, window
<1>1. RunsKnow'
  BY DEF Downloaded, TypeOK, RunType, RunsKnow
<1>2. RunsNeedTheProcess'
  BY DEF Downloaded, TypeOK, RunType, RunsNeedTheProcess
<1>3. StoppedBySomebody'
  BY DEF Downloaded, TypeOK, RunType, StoppedBySomebody
<1>4. UncrossedIsAlone'
  BY DEF Downloaded, TypeOK, RunType, UncrossedIsAlone
<1>5. OvertakenByRestore'
  BY DEF Downloaded, TypeOK, RunType, OvertakenByRestore
<1>6. ReasonsAreFresh'
  BY DEF Downloaded, ReasonsAreFresh
<1> QED
  BY <1>1, <1>2, <1>3, <1>4, <1>5, <1>6

(* A run gets its backup only while no restore holds the lease.               *)
LEMMA BackedUpKeeps ==
    ASSUME IInv, TypeOK', NEW r \in Runs, BackedUp(r)
    PROVE  IInv'
<1> USE NoRunIsARun DEF IInv, Active, Goto, WindowWorks, process, postgres, window
<1>1. RunsKnow'
  BY DEF BackedUp, TypeOK, RunType, RunsKnow
<1>2. RunsNeedTheProcess'
  BY DEF BackedUp, TypeOK, RunType, RunsNeedTheProcess
<1>3. StoppedBySomebody'
  BY DEF BackedUp, TypeOK, RunType, StoppedBySomebody
<1>4. UncrossedIsAlone'
  BY DEF BackedUp, TypeOK, RunType, UncrossedIsAlone
<1>5. OvertakenByRestore'
  BY DEF BackedUp, TypeOK, RunType, OvertakenByRestore
<1>6. ReasonsAreFresh'
  BY DEF BackedUp, ReasonsAreFresh
<1> QED
  BY <1>1, <1>2, <1>3, <1>4, <1>5, <1>6

(* A run ends that had not touched the server.                                *)
LEMMA GivenUpKeeps ==
    ASSUME IInv, TypeOK', NEW r \in Runs, GivenUp(r)
    PROVE  IInv'
<1> USE NoRunIsARun DEF IInv, Active, Goto, WindowWorks, process, postgres, window
<1>1. RunsKnow'
  BY DEF GivenUp, TypeOK, RunType, RunsKnow
<1>2. RunsNeedTheProcess'
  BY DEF GivenUp, TypeOK, RunType, RunsNeedTheProcess
<1>3. StoppedBySomebody'
  BY DEF GivenUp, TypeOK, RunType, StoppedBySomebody
<1>4. UncrossedIsAlone'
  BY DEF GivenUp, TypeOK, RunType, UncrossedIsAlone
<1>5. OvertakenByRestore'
  BY DEF GivenUp, TypeOK, RunType, OvertakenByRestore
<1>6. ReasonsAreFresh'
  BY DEF GivenUp, ReasonsAreFresh
<1> QED
  BY <1>1, <1>2, <1>3, <1>4, <1>5, <1>6

(* From here on the run answers for the server.                               *)
LEMMA StopServerKeeps ==
    ASSUME IInv, TypeOK', NEW r \in Runs, StopServer(r)
    PROVE  IInv'
<1> USE NoRunIsARun DEF IInv, Active, Goto, WindowWorks, process, postgres, window
<1>1. RunsKnow'
  BY DEF StopServer, TypeOK, RunType, RunsKnow
<1>2. RunsNeedTheProcess'
  BY DEF StopServer, TypeOK, RunType, RunsNeedTheProcess
<1>3. StoppedBySomebody'
  BY DEF StopServer, TypeOK, RunType, StoppedBySomebody
<1>4. UncrossedIsAlone'
  BY DEF StopServer, TypeOK, RunType, UncrossedIsAlone
<1>5. OvertakenByRestore'
  BY DEF StopServer, TypeOK, RunType, OvertakenByRestore
<1>6. ReasonsAreFresh'
  BY DEF StopServer, ReasonsAreFresh
<1> QED
  BY <1>1, <1>2, <1>3, <1>4, <1>5, <1>6

(* The server could not be stopped.                                           *)
LEMMA StopFailsKeeps ==
    ASSUME IInv, TypeOK', NEW r \in Runs, StopFails(r)
    PROVE  IInv'
<1> USE NoRunIsARun DEF IInv, Active, Goto, WindowWorks, process, postgres, window
<1>1. RunsKnow'
  BY DEF StopFails, TypeOK, RunType, RunsKnow
<1>2. RunsNeedTheProcess'
  BY DEF StopFails, TypeOK, RunType, RunsNeedTheProcess
<1>3. StoppedBySomebody'
  BY DEF StopFails, Unless, TypeOK, RunType, StoppedBySomebody
<1>4. UncrossedIsAlone'
  BY DEF StopFails, TypeOK, RunType, UncrossedIsAlone
<1>5. OvertakenByRestore'
  BY DEF StopFails, TypeOK, RunType, OvertakenByRestore
<1>6. ReasonsAreFresh'
  BY DEF StopFails, Unless, ReasonsAreFresh
<1> QED
  BY <1>1, <1>2, <1>3, <1>4, <1>5, <1>6

(* The run knows now that it stopped the server.                              *)
LEMMA UnlockedKeeps ==
    ASSUME IInv, TypeOK', NEW r \in Runs, Unlocked(r)
    PROVE  IInv'
<1> USE NoRunIsARun DEF IInv, Active, Goto, WindowWorks, process, postgres, window
<1>1. RunsKnow'
  BY DEF Unlocked, TypeOK, RunType, RunsKnow
<1>2. RunsNeedTheProcess'
  BY DEF Unlocked, TypeOK, RunType, RunsNeedTheProcess
<1>3. StoppedBySomebody'
  BY DEF Unlocked, TypeOK, RunType, StoppedBySomebody
<1>4. UncrossedIsAlone'
  BY DEF Unlocked, TypeOK, RunType, UncrossedIsAlone
<1>5. OvertakenByRestore'
  BY DEF Unlocked, TypeOK, RunType, OvertakenByRestore
<1>6. ReasonsAreFresh'
  BY DEF Unlocked, ReasonsAreFresh
<1> QED
  BY <1>1, <1>2, <1>3, <1>4, <1>5, <1>6

(* The server stays away, with its reason.                                    *)
LEMMA StaysLockedKeeps ==
    ASSUME IInv, TypeOK', NEW r \in Runs, StaysLocked(r)
    PROVE  IInv'
<1> USE NoRunIsARun DEF IInv, Active, Goto, WindowWorks, process, postgres, window
<1>1. RunsKnow'
  BY DEF StaysLocked, TypeOK, RunType, RunsKnow
<1>2. RunsNeedTheProcess'
  BY DEF StaysLocked, TypeOK, RunType, RunsNeedTheProcess
<1>3. StoppedBySomebody'
  BY DEF StaysLocked, Unless, TypeOK, RunType, StoppedBySomebody
<1>4. UncrossedIsAlone'
  BY DEF StaysLocked, TypeOK, RunType, UncrossedIsAlone
<1>5. OvertakenByRestore'
  BY DEF StaysLocked, TypeOK, RunType, OvertakenByRestore
<1>6. ReasonsAreFresh'
  BY DEF StaysLocked, Unless, ReasonsAreFresh
<1> QED
  BY <1>1, <1>2, <1>3, <1>4, <1>5, <1>6

(* Nothing was installed and nothing is resumed.                              *)
LEMMA InstallReturnsKeeps ==
    ASSUME IInv, TypeOK', NEW r \in Runs, InstallReturns(r)
    PROVE  IInv'
<1> USE NoRunIsARun DEF IInv, Active, Goto, WindowWorks, process, postgres, window
<1>1. RunsKnow'
  BY DEF InstallReturns, TypeOK, RunType, RunsKnow
<1>2. RunsNeedTheProcess'
  BY DEF InstallReturns, TypeOK, RunType, RunsNeedTheProcess
<1>3. StoppedBySomebody'
  BY DEF InstallReturns, Unless, TypeOK, RunType, StoppedBySomebody
<1>4. UncrossedIsAlone'
  BY DEF InstallReturns, TypeOK, RunType, UncrossedIsAlone
<1>5. OvertakenByRestore'
  BY DEF InstallReturns, TypeOK, RunType, OvertakenByRestore
<1>6. ReasonsAreFresh'
  BY DEF InstallReturns, Unless, ReasonsAreFresh
<1> QED
  BY <1>1, <1>2, <1>3, <1>4, <1>5, <1>6

(* What stopped the server resumes it.                                        *)
LEMMA InstallFailsKeeps ==
    ASSUME IInv, TypeOK', NEW r \in Runs, InstallFails(r)
    PROVE  IInv'
<1> USE NoRunIsARun DEF IInv, Active, Goto, WindowWorks, process, postgres, window
<1>1. RunsKnow'
  BY DEF InstallFails, TypeOK, RunType, RunsKnow
<1>2. RunsNeedTheProcess'
  BY DEF InstallFails, TypeOK, RunType, RunsNeedTheProcess
<1>3. StoppedBySomebody'
  BY DEF InstallFails, TypeOK, RunType, RunsKnow, StoppedBySomebody
<1>4. UncrossedIsAlone'
  BY DEF InstallFails, TypeOK, RunType, UncrossedIsAlone
<1>5. OvertakenByRestore'
  BY DEF InstallFails, TypeOK, RunType, OvertakenByRestore
<1>6. ReasonsAreFresh'
  BY DEF InstallFails, ReasonsAreFresh
<1> QED
  BY <1>1, <1>2, <1>3, <1>4, <1>5, <1>6

(* The server is back.                                                        *)
LEMMA ResumedKeeps ==
    ASSUME IInv, TypeOK', NEW r \in Runs, Resumed(r)
    PROVE  IInv'
<1> USE NoRunIsARun DEF IInv, Active, Goto, WindowWorks, process, postgres, window
<1>1. RunsKnow'
  BY DEF Resumed, TypeOK, RunType, RunsKnow
<1>2. RunsNeedTheProcess'
  BY DEF Resumed, TypeOK, RunType, RunsNeedTheProcess
<1>3. StoppedBySomebody'
  BY DEF Resumed, TypeOK, RunType, StoppedBySomebody
<1>4. UncrossedIsAlone'
  BY DEF Resumed, TypeOK, RunType, UncrossedIsAlone
<1>5. OvertakenByRestore'
  BY DEF Resumed, TypeOK, RunType, OvertakenByRestore
<1>6. ReasonsAreFresh'
  BY DEF Resumed, ReasonsAreFresh
<1> QED
  BY <1>1, <1>2, <1>3, <1>4, <1>5, <1>6

(* The server stays away, with its reason.                                    *)
LEMMA ResumeFailsKeeps ==
    ASSUME IInv, TypeOK', NEW r \in Runs, ResumeFails(r)
    PROVE  IInv'
<1> USE NoRunIsARun DEF IInv, Active, Goto, WindowWorks, process, postgres, window
<1>1. RunsKnow'
  BY DEF ResumeFails, TypeOK, RunType, RunsKnow
<1>2. RunsNeedTheProcess'
  BY DEF ResumeFails, TypeOK, RunType, RunsNeedTheProcess
<1>3. StoppedBySomebody'
  BY DEF ResumeFails, Unless, TypeOK, RunType, StoppedBySomebody
<1>4. UncrossedIsAlone'
  BY DEF ResumeFails, TypeOK, RunType, UncrossedIsAlone
<1>5. OvertakenByRestore'
  BY DEF ResumeFails, TypeOK, RunType, OvertakenByRestore
<1>6. ReasonsAreFresh'
  BY DEF ResumeFails, Unless, ReasonsAreFresh
<1> QED
  BY <1>1, <1>2, <1>3, <1>4, <1>5, <1>6

(* A restore begins: runs that have their backup are overtaken.               *)
LEMMA BeginRestoreKeeps ==
    ASSUME IInv, TypeOK', BeginRestore
    PROVE  IInv'
<1>1. \A r \in Runs :
         /\ run'[r].pc = run[r].pc /\ run'[r].stopped = run[r].stopped
         /\ run'[r].saved = run[r].saved /\ run'[r].crossed = run[r].crossed
         /\ run[r].saved => run'[r].overtaken
  BY OvertakenRun DEF IInv, TypeOK, BeginRestore
<1>2. restore' = "running" /\ UNCHANGED <<app, server, outage>>
  BY DEF BeginRestore, process, postgres
<1> QED
  BY <1>1, <1>2 DEF IInv, RunsKnow, RunsNeedTheProcess, StoppedBySomebody, ReasonsAreFresh,
                    UncrossedIsAlone, OvertakenByRestore, Active

(* The screen of the restore stays.                                           *)
LEMMA RestoreFailsKeeps ==
    ASSUME IInv, TypeOK', RestoreFails
    PROVE  IInv'
<1> USE NoRunIsARun DEF IInv, Active, Goto, WindowWorks, process, postgres, window
<1>1. RunsKnow'
  BY DEF RestoreFails, TypeOK, RunType, RunsKnow
<1>2. RunsNeedTheProcess'
  BY DEF RestoreFails, TypeOK, RunType, RunsNeedTheProcess
<1>3. StoppedBySomebody'
  BY DEF RestoreFails, TypeOK, RunType, StoppedBySomebody
<1>4. UncrossedIsAlone'
  BY DEF RestoreFails, TypeOK, RunType, UncrossedIsAlone
<1>5. OvertakenByRestore'
  BY DEF RestoreFails, TypeOK, RunType, OvertakenByRestore
<1>6. ReasonsAreFresh'
  BY DEF RestoreFails, ReasonsAreFresh
<1> QED
  BY <1>1, <1>2, <1>3, <1>4, <1>5, <1>6

(* The process starts without runs, and says so if it has no server.          *)
LEMMA StartKeeps ==
    ASSUME IInv, TypeOK', Start
    PROVE  IInv'
<1>1. \A r \in Runs : run'[r].pc = "none"
  BY DEF IInv, RunsNeedTheProcess, Active, Start
<1>2. (server' \/ outage' # "none") /\ ReasonsAreFresh'
  BY DEF Start, Unless, IInv, ReasonsAreFresh
<1> QED
  BY <1>1, <1>2 DEF IInv, RunsKnow, RunsNeedTheProcess, StoppedBySomebody, ReasonsAreFresh,
                    UncrossedIsAlone, OvertakenByRestore, Active, Start

(* Every step keeps the invariant.                                            *)
LEMMA StepInvariant == IInv /\ [Next]_vars => IInv'
<1> SUFFICES ASSUME IInv, [Next]_vars PROVE IInv'
  OBVIOUS
<1>1. TypeOK'
  BY StepTypes DEF IInv
<1>2. ASSUME NEW u \in Users, Login(u) PROVE IInv'
  BY <1>1, <1>2, QuietKeeps DEF Login, process, postgres
<1>3. CASE OpenSession \/ CloseSession \/ Inspect \/ Inspected
  BY <1>1, <1>3, QuietKeeps DEF OpenSession, CloseSession, Inspect, Inspected, process, postgres
<1>4. ASSUME NEW found \in BOOLEAN, Check(found) PROVE IInv'
  BY <1>1, <1>4, QuietKeeps DEF Check, process, postgres
<1>5. CASE ForeignProgram
  BY <1>1, <1>5, QuietKeeps DEF ForeignProgram, process
<1>6. CASE Logout
  BY <1>1, <1>6, LogoutKeeps
<1>7. ASSUME NEW r \in Runs, Click(r) PROVE IInv'
  BY <1>1, <1>7, ClickKeeps
<1>8. ASSUME NEW r \in Runs, RunStep(r) PROVE IInv'
  <2>1. ASSUME Installed(r) PROVE IInv'
    BY <1>1, <2>1, EndKeeps DEF Installed
  <2> QED
    BY <1>1, <1>8, <2>1, DownloadedKeeps, BackedUpKeeps, GivenUpKeeps, StopServerKeeps,
       StopFailsKeeps, UnlockedKeeps, StaysLockedKeeps, InstallReturnsKeeps,
       InstallFailsKeeps, ResumedKeeps, ResumeFailsKeeps DEF RunStep
<1>9. CASE BeginRestore \/ RestoreFails
  BY <1>1, <1>9, BeginRestoreKeeps, RestoreFailsKeeps
<1>10. CASE RestoreSucceeds \/ Exit \/ Crash
  BY <1>1, <1>10, EndKeeps DEF RestoreSucceeds, Exit, Crash
<1>11. CASE Start
  BY <1>1, <1>11, StartKeeps
<1>12. CASE UNCHANGED vars
  BY <1>1, <1>12, QuietKeeps DEF vars
<1> QED
  BY <1>2, <1>3, <1>4, <1>5, <1>6, <1>7, <1>8, <1>9, <1>10, <1>11, <1>12 DEF Next

(* The inductive invariant of the update and of what runs beside it.          *)
THEOREM UpdateInvariant == Spec => []IInv
<1>1. Init => IInv
  BY InitInvariant
<1>2. IInv /\ [Next]_vars => IInv'
  BY StepInvariant
<1> QED
  BY <1>1, <1>2, PTL DEF Spec

(* The shop stays without its server only for a reason that arose since the   *)
(* server last answered: what throws from the installation gives it back.     *)
THEOREM OutagesAreExcused == Spec => []OutageIsExcused
<1>1. IInv => OutageIsExcused
  BY DEF IInv, StoppedBySomebody, ReasonsAreFresh, OutageIsExcused, Outage, Active
<1> QED
  BY <1>1, UpdateInvariant, PTL

(* The installer of a run that no other crossed starts over a stopped server. *)
THEOREM InstallsOverStoppedServer == Spec => InstallOverStoppedServer
<1> DEFINE A == \A r \in Runs :
        (build' # build /\ run[r].pc = "install" /\ ~run[r].crossed) => ~server
<1>1. IInv => A
  BY DEF IInv, UncrossedIsAlone, Active
<1>2. IInv /\ [Next]_vars => [A]_vars
  BY <1>1
<1> QED
  BY <1>2, UpdateInvariant, PTL DEF Spec, InstallOverStoppedServer

(* An update stops the server under a restore, or tries to, only if that      *)
(* restore began after its backup.                                            *)
THEOREM RestoresKeepTheirServer == Spec => RestoreKeepsItsServer
<1> DEFINE A == \A r \in Runs :
        (run[r].pc = "prepare" /\ run'[r].pc # "prepare" /\ restore = "running" /\ app' = "up")
            => run[r].overtaken
<1>1. IInv => A
  BY DEF IInv, OvertakenByRestore
<1>2. IInv /\ [Next]_vars => [A]_vars
  BY <1>1
<1> QED
  BY <1>2, UpdateInvariant, PTL DEF Spec, RestoreKeepsItsServer
=============================================================================
