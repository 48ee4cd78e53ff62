---------------------------- MODULE StagedInstall ----------------------------
(***************************************************************************)
(* The staged install of APEX updates by apexd: a client submits a session,*)
(* marks it ready and reboots; the next boot links the session's APEXes    *)
(* into /data/apex/active and activates them; the client then confirms the *)
(* session, or the session is reverted.                                    *)
(*                                                                         *)
(* The steps of this module are the steps of the code on persistent        *)
(* storage: a state file is truncated and then written, a file is linked   *)
(* or unlinked, a directory renamed.  The device may lose power between    *)
(* any two of them.  One process is the main thread of apexd (OnStart,     *)
(* WaitForBootStatus, BootCompletedCleanup); the others are threads of the *)
(* binder pool, each serving one IApexService call at a time.              *)
(***************************************************************************)
EXTENDS Integers, FiniteSets

CONSTANTS
  SessionIds,             \* ids the package installer allocates, used once each
  Packages,               \* names of the pre-installed packages
  Versions,               \* version codes
  PreVersion,             \* PreVersion[p]: version of p on the built-in partition
  Staged,                 \* Staged[s]: the APEXes in the directories of session s
  InitActive,             \* what /data/apex/active holds at first
  Flaky,                  \* APEXes that may fail to activate
  Main,                   \* the main thread of apexd
  Threads,                \* threads of the binder pool
  Calls,                  \* the IApexService calls the clients make
  SupportsFsCheckpoints,  \* gSupportsFsCheckpoints
  Attempts,               \* boot attempts the client asks vold for
  OneSessionAtATime,      \* clients submit only when every session is final
  Overlap,                \* calls overlap each other and the main thread
  MaxReboots,             \* bound: reboots apexd did not ask for
  MaxFaults               \* bound: failures of a system call or of a check

Apexes == [pkg : Packages, ver : Versions]
Procs == {Main} \cup Threads

ASSUME MainAssumption == Main \notin Threads
ASSUME VersionsAssumption == Versions \subseteq Nat /\ PreVersion \in [Packages -> Nat]
ASSUME StagedAssumption == Staged \in [SessionIds -> SUBSET Apexes]
ASSUME InitActiveAssumption == InitActive \subseteq Apexes /\ Flaky \subseteq Apexes
ASSUME FlagsAssumption ==
  /\ {SupportsFsCheckpoints, OneSessionAtATime, Overlap} \subseteq BOOLEAN
  /\ {MaxReboots, MaxFaults} \subseteq Nat
  /\ Attempts \in Nat

(* SessionState.State; "none" is a session without a directory.  A state    *)
(* file that is missing, or truncated and not yet written, reads as UNKNOWN.*)
States == {"UNKNOWN", "VERIFIED", "STAGED", "ACTIVATED", "ACTIVATION_FAILED",
           "SUCCESS", "REVERT_IN_PROGRESS", "REVERTED", "REVERT_FAILED"}
FinalStates == {"SUCCESS", "ACTIVATION_FAILED", "REVERTED", "REVERT_FAILED"}

VARIABLES
  (* persistent storage *)
  sessionState,   \* the state file of each session, on /metadata
  active,         \* /data/apex/active
  backup,         \* /data/apex/backup
  backupExists,   \* whether /data/apex/backup exists
  (* vold, on /metadata: external *)
  attempts,       \* boot attempts left; -1 without a pending checkpoint
  journaling,     \* a checkpoint is open: /data returns to saved on reboot
  saved,          \* /data/apex/active when the checkpoint was opened
  (* memory of apexd *)
  inFsCheckpointMode, \* gInFsCheckpointMode, read once per boot
  repo,           \* data_store_ of ApexFileRepository
  mounted,        \* data APEXes that are active
  preMounted,     \* packages whose pre-installed APEX is active
  bootCompleted,  \* ApexdLifecycle::boot_completed_
  (* the processes *)
  pc,             \* where each process is; "off" before it runs
  session,        \* the session a process works on
  todo,           \* sessions its loop has still to visit
  reverting,      \* active_sessions of its RevertActiveSessions
  files,          \* files its loop has still to visit
  write,          \* the state file it has truncated and not yet written
  caller,         \* who called RevertActiveSessions
  (* the environment and its bounds *)
  allocated,      \* session ids the package installer has used
  reboots, faults,
  (* history, read by the properties only *)
  original,       \* original[s]: active when s was submitted
  confirming,     \* sessions whose confirmation got as far as DeleteBackup
  reverted,       \* sessions that RevertActiveSessions has taken up
  committed,      \* sessions there were when vold committed /data
  unrecorded      \* sessions whose last commit failed, or a revert they were in

disk == <<sessionState, active, backup, backupExists>>
vold == <<attempts, journaling, saved>>
memory == <<inFsCheckpointMode, repo, mounted, preMounted, bootCompleted>>
locals == <<session, todo, reverting, files, write, caller>>
environment == <<allocated, reboots, faults>>
history == <<original, confirming, reverted, committed, unrecorded>>
vars == <<disk, vold, memory, pc, locals, environment, history>>

NoWrite == [id |-> "none", state |-> "none"]
NoSession == "none"

MainLabels == {"start", "scan", "next", "stage", "unstage", "removeOld",
  "collect", "resume", "activate", "fallback", "publish", "waitCrash",
  "waitBoot", "cleanup", "cleanupFiles", "cleanupSessions", "reboot"}
RevertLabels == {"revert", "mark", "restore", "empty", "rename", "done", "fail"}
CallLabels == {"backup", "link", "discard", "verify", "ready", "confirm", "abort"}
Labels == {"off", "idle"} \cup MainLabels \cup RevertLabels \cup CallLabels

(* Where RevertActiveSessions returns to, by the place that called it.      *)
ReturnOk == [start |-> "scan", resume |-> "activate", activate |-> "reboot",
             waitCrash |-> "reboot", idle |-> "idle"]
(* mutant: nothing makes up for what failed to activate *)
NoFallback == [start |-> "scan", resume |-> "activate", activate |-> "publish",
               waitCrash |-> "waitBoot", idle |-> "idle"]
ReturnError == [start |-> "scan", resume |-> "activate", activate |-> "fallback",
                waitCrash |-> "waitBoot", idle |-> "idle"]
Callers == DOMAIN ReturnOk

TypeOK ==
  /\ sessionState \in [SessionIds -> States \cup {"none"}]
  /\ active \subseteq Apexes /\ backup \subseteq Apexes
  /\ backupExists \in BOOLEAN
  /\ attempts \in Nat \cup {-1} /\ journaling \in BOOLEAN /\ saved \subseteq Apexes
  /\ inFsCheckpointMode \in BOOLEAN
  /\ repo \subseteq Apexes /\ mounted \subseteq Apexes /\ preMounted \subseteq Packages
  /\ bootCompleted \in BOOLEAN
  /\ pc \in [Procs -> Labels]
  /\ session \in [Procs -> SessionIds \cup {NoSession}]
  /\ todo \in [Procs -> SUBSET SessionIds]
  /\ reverting \in [Procs -> SUBSET SessionIds]
  /\ files \in [Procs -> SUBSET Apexes]
  /\ write \in [Procs -> [id : SessionIds, state : States] \cup {NoWrite}]
  /\ caller \in [Procs -> Callers]
  /\ allocated \subseteq SessionIds /\ reboots \in Nat /\ faults \in Nat
  /\ original \in [SessionIds -> SUBSET Apexes]
  /\ confirming \subseteq SessionIds /\ reverted \subseteq SessionIds
  /\ committed \subseteq SessionIds /\ unrecorded \subseteq SessionIds

-----------------------------------------------------------------------------
(* Vocabulary.                                                             *)

At(p, label) == pc[p] = label /\ write[p] = NoWrite
Goto(p, label) == pc' = [pc EXCEPT ![p] = label]
Visit(p, s) == todo' = [todo EXCEPT ![p] = @ \ {s}]

Fault == faults < MaxFaults /\ faults' = faults + 1

SessionsInState(S) == {s \in SessionIds : sessionState[s] \in S}

(* mutants: a final session is reverted again; a revert is not resumed *)
RevertedAgain == SessionsInState(States \ {"SUCCESS", "UNKNOWN"})
NotResumed == SessionsInState({"VERIFIED", "STAGED", "ACTIVATED"})

(* What RevertActiveSessions reverts.                                      *)
ActiveSessions == SessionsInState(States \ (FinalStates \cup {"UNKNOWN"}))

(* No other process is in the middle of anything.  With Overlap FALSE the   *)
(* clients and the main thread take turns.                                 *)
Alone(p) ==
  Overlap \/ \A q \in Procs \ {p} :
    pc[q] \in {"off", "idle", "waitCrash", "waitBoot"} /\ write[q] = NoWrite

(* ApexFileRepository keeps the highest version of each package on /data;   *)
(* SelectApexForActivation prefers it unless the built-in one is higher.    *)
Highest(S) == {f \in S : \A g \in S : g.pkg = f.pkg => g.ver <= f.ver}
Chosen == {f \in repo : f.ver >= PreVersion[f.pkg]}
FilesOf(S) == S                                      \* mutant
PackagesOf(S) == {f.pkg : f \in S}

(* What RemovePreviouslyActiveApexFiles removes.                           *)
Superseded(s) ==
  {f \in active : f.pkg \in PackagesOf(Staged[s]) /\ f \notin Staged[s]}

-----------------------------------------------------------------------------
(* ApexSession::UpdateStateAndCommit: opening the file truncates it, then   *)
(* it is written; in between it reads as UNKNOWN.  When it cannot be opened *)
(* it keeps its state (MarkOpenFails, FinishOpenFails, OpenFails).          *)

UpdateStateAndCommit(p, s, st) ==
  /\ write' = [write EXCEPT ![p] = [id |-> s, state |-> st]]
  /\ sessionState' = [sessionState EXCEPT ![s] = IF @ = "none" THEN @ ELSE "UNKNOWN"]

(* When the directory is gone the file cannot be opened, or what is written *)
(* is not linked anywhere.                                                 *)
CommitSucceeds(p) ==
  /\ write[p] # NoWrite
  /\ sessionState' = [sessionState EXCEPT
                        ![write[p].id] = IF @ = "none" THEN @ ELSE write[p].state]
  /\ write' = [write EXCEPT ![p] = NoWrite]
  /\ unrecorded' = unrecorded \ {write[p].id}
  /\ UNCHANGED <<active, backup, backupExists, vold, memory, pc, session, todo,
                 reverting, files, caller, environment, original, confirming,
                 reverted, committed>>

(* RevertActiveSessions gives up when it is told of a failure to mark a     *)
(* session; everybody else logs it and goes on.                            *)
GiveUpRevert(p) ==
  /\ Goto(p, ReturnError[caller[p]])
  /\ unrecorded' = unrecorded \cup reverting[p]

(* What is written fails to get to the file, which stays truncated.  That   *)
(* may show only when the stream is closed, and is not reported then.       *)
CommitFails(p) ==
  /\ write[p] # NoWrite
  /\ IF sessionState[write[p].id] = "none" THEN UNCHANGED faults ELSE Fault
  /\ write' = [write EXCEPT ![p] = NoWrite]
  /\ \/ write[p].state = "REVERT_IN_PROGRESS" /\ GiveUpRevert(p)
     \/ unrecorded' = unrecorded \cup {write[p].id} /\ UNCHANGED pc
  /\ UNCHANGED <<disk, vold, memory, session, todo, reverting, files, caller,
                 allocated, reboots, original, confirming, reverted, committed>>

-----------------------------------------------------------------------------
(* RevertActiveSessions, with RestoreActivePackages.                       *)

CallRevert(p, from) ==
  /\ Goto(p, "revert")
  /\ caller' = [caller EXCEPT ![p] = from]

(* mutant: reverts, and reboots, with nothing to revert *)
RevertNothing(p) ==
  /\ At(p, "revert")
  /\ reverting' = [reverting EXCEPT ![p] = ActiveSessions]
  /\ todo' = [todo EXCEPT ![p] = ActiveSessions]
  /\ Goto(p, IF ActiveSessions = {} THEN "done" ELSE "mark")
  /\ UNCHANGED <<disk, vold, memory, session, files, write, caller, environment, history>>

FindActiveSessions(p) ==
  /\ At(p, "revert")
  /\ reverting' = [reverting EXCEPT ![p] = ActiveSessions]
  /\ todo' = [todo EXCEPT ![p] = ActiveSessions]
  /\ Goto(p, IF ActiveSessions = {} THEN ReturnError[caller[p]] ELSE "mark")
  /\ UNCHANGED <<disk, vold, memory, session, files, write, caller, environment, history>>

MarkRevertInProgress(p) ==
  /\ At(p, "mark")
  /\ \E s \in todo[p] :
       /\ UpdateStateAndCommit(p, s, "REVERT_IN_PROGRESS")
       /\ Visit(p, s)
       /\ reverted' = reverted \cup {s}
  /\ UNCHANGED <<active, backup, backupExists, vold, memory, pc, session, reverting,
                 files, caller, environment, original, confirming, committed, unrecorded>>

MarkOpenFails(p) ==
  /\ At(p, "mark")
  /\ todo[p] # {} /\ Fault
  /\ GiveUpRevert(p)
  /\ UNCHANGED <<disk, vold, memory, locals, allocated, reboots, original, confirming,
                 reverted, committed>>

(* mutant: /data/apex/active is left as it is *)
AllMarkedOnly(p) ==
  /\ At(p, "mark")
  /\ todo[p] = {}
  /\ todo' = [todo EXCEPT ![p] = reverting[p]]
  /\ Goto(p, "done")
  /\ UNCHANGED <<disk, vold, memory, session, reverting, files, write, caller,
                 environment, history>>

AllMarked(p) ==
  /\ At(p, "mark")
  /\ todo[p] = {}
  /\ todo' = [todo EXCEPT ![p] = reverting[p]]
  /\ Goto(p, IF SupportsFsCheckpoints THEN "done" ELSE "restore")
  /\ UNCHANGED <<disk, vold, memory, session, reverting, files, write, caller,
                 environment, history>>

(* Without a backup directory, or when a call of RestoreActivePackages      *)
(* fails, the sessions become REVERT_FAILED.                               *)
CheckBackup(p) ==
  /\ At(p, "restore")
  /\ Goto(p, IF backupExists THEN "empty" ELSE "fail")
  /\ UNCHANGED <<disk, vold, memory, locals, environment, history>>

DeleteActive(p) ==
  /\ At(p, "empty")
  /\ \E f \in active : active' = active \ {f}
  /\ UNCHANGED <<sessionState, backup, backupExists, vold, memory, pc, locals,
                 environment, history>>

ActiveIsEmpty(p) ==
  /\ At(p, "empty")
  /\ active = {}
  /\ Goto(p, "rename")
  /\ UNCHANGED <<disk, vold, memory, locals, environment, history>>

RenameBackup(p) ==
  /\ At(p, "rename")
  /\ backupExists /\ active = {}
  /\ active' = backup /\ backup' = {} /\ backupExists' = FALSE
  /\ \/ Goto(p, "done") /\ UNCHANGED faults
     \/ Goto(p, "fail") /\ Fault                    \* chmod fails afterwards
  /\ UNCHANGED <<sessionState, vold, memory, locals, allocated, reboots, history>>

(* mutant: a failing restore counts as done *)
RestoreFailsQuietly(p) ==
  /\ pc[p] \in {"restore", "empty", "rename"} /\ write[p] = NoWrite
  /\ Fault
  /\ Goto(p, "done")
  /\ UNCHANGED <<disk, vold, memory, locals, allocated, reboots, history>>

RestoreFails(p) ==
  /\ pc[p] \in {"restore", "empty", "rename"} /\ write[p] = NoWrite
  /\ IF pc[p] = "rename" /\ (~backupExists \/ active # {}) THEN UNCHANGED faults ELSE Fault
  /\ Goto(p, "fail")
  /\ UNCHANGED <<disk, vold, memory, locals, allocated, reboots, history>>

FinishRevert(p) ==
  /\ pc[p] \in {"done", "fail"} /\ write[p] = NoWrite
  /\ \E s \in todo[p] :
       /\ UpdateStateAndCommit(p, s, IF pc[p] = "done" THEN "REVERTED" ELSE "REVERT_FAILED")
       /\ Visit(p, s)
  /\ UNCHANGED <<active, backup, backupExists, vold, memory, pc, session, reverting,
                 files, caller, environment, history>>

(* A warning is logged: the session stays REVERT_IN_PROGRESS.              *)
FinishOpenFails(p) ==
  /\ pc[p] \in {"done", "fail"} /\ write[p] = NoWrite
  /\ Fault
  /\ \E s \in todo[p] : Visit(p, s) /\ unrecorded' = unrecorded \cup {s}
  /\ UNCHANGED <<disk, vold, memory, pc, session, reverting, files, write, caller,
                 allocated, reboots, original, confirming, reverted, committed>>

ReturnFromRevert(p) ==
  /\ pc[p] \in {"done", "fail"} /\ write[p] = NoWrite
  /\ todo[p] = {}
  /\ Goto(p, IF pc[p] = "done" THEN ReturnOk[caller[p]] ELSE ReturnError[caller[p]])
  /\ UNCHANGED <<disk, vold, memory, locals, environment, history>>

Revert(p) ==
  \/ FindActiveSessions(p) \/ MarkRevertInProgress(p) \/ MarkOpenFails(p) \/ AllMarked(p)
  \/ CheckBackup(p) \/ DeleteActive(p) \/ ActiveIsEmpty(p) \/ RenameBackup(p)
  \/ RestoreFails(p) \/ FinishRevert(p) \/ FinishOpenFails(p) \/ ReturnFromRevert(p)

-----------------------------------------------------------------------------
(* The device: power, and vold, whose checkpoint of /data apexd relies on.  *)

(* Memory is gone; vold undoes what an open checkpoint journaled.          *)
PowerOff ==
  /\ pc' = [p \in Procs |-> "off"]
  /\ write' = [p \in Procs |-> NoWrite]
  /\ session' = [p \in Procs |-> NoSession]
  /\ todo' = [p \in Procs |-> {}]
  /\ reverting' = [p \in Procs |-> {}]
  /\ files' = [p \in Procs |-> {}]
  /\ caller' = [p \in Procs |-> "start"]
  /\ repo' = {} /\ mounted' = {} /\ preMounted' = {}
  /\ bootCompleted' = FALSE /\ inFsCheckpointMode' = FALSE
  /\ active' = IF journaling THEN saved ELSE active
  /\ journaling' = FALSE
  /\ unrecorded' = unrecorded \cup {write[p].id : p \in {q \in Procs : write[q] # NoWrite}}
  /\ UNCHANGED <<sessionState, backup, backupExists, saved, allocated, faults, original,
                 confirming, reverted, committed>>

PowerLoss ==
  /\ pc[Main] # "off"
  /\ reboots < MaxReboots /\ reboots' = reboots + 1
  /\ PowerOff
  /\ UNCHANGED attempts

(* RevertActiveSessionsAndReboot: AbortChanges leaves vold no attempt.      *)
Reboot ==
  /\ At(Main, "reboot")
  /\ PowerOff
  /\ attempts' = IF inFsCheckpointMode /\ journaling THEN 0 ELSE attempts
  /\ UNCHANGED reboots

(* vold counts a boot attempt, and opens the checkpoint unless none is left.*)
Boot ==
  /\ pc[Main] = "off"
  /\ attempts' = IF attempts > 0 THEN attempts - 1 ELSE attempts
  /\ journaling' = (SupportsFsCheckpoints /\ attempts' > 0)
  /\ saved' = IF journaling' THEN active ELSE saved
  /\ inFsCheckpointMode' = journaling'
  /\ Goto(Main, "start")
  /\ UNCHANGED <<disk, repo, mounted, preMounted, bootCompleted, locals,
                 environment, history>>

StartCheckpoint ==
  /\ SupportsFsCheckpoints /\ ~journaling
  /\ \E t \in Threads : pc[t] = "idle"
  /\ SessionsInState({"STAGED"}) # {}
  /\ attempts' = Attempts
  /\ UNCHANGED <<disk, journaling, saved, memory, pc, locals, environment, history>>

(* The system server asks vold for it when the boot has completed.          *)
CommitChanges ==
  /\ journaling /\ bootCompleted
  /\ journaling' = FALSE /\ attempts' = -1
  /\ committed' = committed \cup SessionsInState(States)
  /\ UNCHANGED <<disk, saved, memory, pc, locals, environment, original, confirming,
                 reverted, unrecorded>>

-----------------------------------------------------------------------------
(* The main thread: OnStart.                                               *)

(* vold has run out of attempts; its answer may also be an error.          *)
AskNeedsRollback ==
  /\ At(Main, "start")
  /\ \/ /\ SupportsFsCheckpoints /\ attempts = 0
        /\ CallRevert(Main, "start")
        /\ UNCHANGED faults
     \/ /\ Goto(Main, "scan")
        /\ IF SupportsFsCheckpoints /\ attempts = 0 THEN Fault ELSE UNCHANGED faults
        /\ UNCHANGED caller
  /\ UNCHANGED <<disk, vold, memory, session, todo, reverting, files, write,
                 allocated, reboots, history>>

(* ScanStagedSessionsDirAndStage.                                          *)
ActivatedAreSkipped == SessionsInState({"STAGED"})   \* mutant
UnfinishedAreStaged == ActiveSessions                \* mutant

(* vold may have taken an ACTIVATED session's APEXes away again.           *)
SessionsToActivate ==
  SessionsInState(IF SupportsFsCheckpoints THEN {"STAGED", "ACTIVATED"} ELSE {"STAGED"})

ScanStagedSessionsDir ==
  /\ At(Main, "scan")
  /\ todo' = [todo EXCEPT ![Main] = SessionsToActivate]
  /\ Goto(Main, "next")
  /\ UNCHANGED <<disk, vold, memory, session, reverting, files, write, caller,
                 environment, history>>

(* mutant: staged although no checkpoint is open *)
MayInstallUnprotected == TRUE

(* Without a checkpoint the installation could not be undone.              *)
MayInstall == SupportsFsCheckpoints => inFsCheckpointMode

(* The build fingerprint differs, the directories do not hold one APEX each,*)
(* an APEX fails verification, or a checkpoint is needed and not open.      *)
RejectSession ==
  /\ At(Main, "next")
  /\ IF MayInstall THEN Fault ELSE UNCHANGED faults
  /\ \E s \in todo[Main] :
       /\ session' = [session EXCEPT ![Main] = s]
       /\ Visit(Main, s)
  /\ files' = [files EXCEPT ![Main] = {}]
  /\ Goto(Main, "unstage")
  /\ UNCHANGED <<disk, vold, memory, reverting, write, caller, allocated, reboots,
                 history>>

AcceptSession ==
  /\ At(Main, "next")
  /\ MayInstall
  /\ \E s \in todo[Main] :
       /\ session' = [session EXCEPT ![Main] = s]
       /\ files' = [files EXCEPT ![Main] = Staged[s]]
       /\ Visit(Main, s)
  /\ Goto(Main, "stage")
  /\ UNCHANGED <<disk, vold, memory, reverting, write, caller, environment, history>>

(* StagePackages: link every file, then remove what they supersede.  A file *)
(* that is there already is unlinked first, in the same step.               *)
LinkStaged ==
  /\ At(Main, "stage")
  /\ \E f \in files[Main] :
       /\ active' = active \cup {f}
       /\ files' = [files EXCEPT ![Main] = @ \ {f}]
  /\ UNCHANGED <<sessionState, backup, backupExists, vold, memory, pc, session, todo,
                 reverting, write, caller, environment, history>>

(* Unlinking the file that was there fails, or linking does, without it.    *)
LinkFails ==
  /\ At(Main, "stage")
  /\ files[Main] # {} /\ Fault
  /\ \/ UNCHANGED active
     \/ \E f \in files[Main] \cap active : active' = active \ {f}
  /\ files' = [files EXCEPT ![Main] = Staged[session[Main]] \ @]
  /\ Goto(Main, "unstage")
  /\ UNCHANGED <<sessionState, backup, backupExists, vold, memory, session, todo,
                 reverting, write, caller, allocated, reboots, history>>

(* The guard's clean-up.                                                   *)
UnlinkStaged ==
  /\ At(Main, "unstage")
  /\ \E f \in files[Main] :
       /\ active' = active \ {f}
       /\ files' = [files EXCEPT ![Main] = @ \ {f}]
  /\ UNCHANGED <<sessionState, backup, backupExists, vold, memory, pc, session, todo,
                 reverting, write, caller, environment, history>>

(* An error is logged: the file stays.                                     *)
UnlinkStagedFails ==
  /\ At(Main, "unstage")
  /\ Fault
  /\ \E f \in files[Main] : files' = [files EXCEPT ![Main] = @ \ {f}]
  /\ UNCHANGED <<disk, vold, memory, pc, session, todo, reverting, write, caller,
                 allocated, reboots, history>>

AllLinked ==
  /\ At(Main, "stage")
  /\ files[Main] = {}
  /\ Goto(Main, "removeOld")
  /\ UNCHANGED <<disk, vold, memory, locals, environment, history>>

(* RemovePreviouslyActiveApexFiles.                                        *)
UnlinkSuperseded ==
  /\ At(Main, "removeOld")
  /\ \E f \in Superseded(session[Main]) : active' = active \ {f}
  /\ UNCHANGED <<sessionState, backup, backupExists, vold, memory, pc, locals,
                 environment, history>>

(* mutant: what could not be removed is left beside the new APEX *)
SupersedeFailsQuietly ==
  /\ At(Main, "removeOld")
  /\ Fault
  /\ UpdateStateAndCommit(Main, session[Main], "ACTIVATED")
  /\ Goto(Main, "next")
  /\ UNCHANGED <<active, backup, backupExists, vold, memory, session, todo, reverting,
                 files, caller, allocated, reboots, history>>

SupersedeFails ==
  /\ At(Main, "removeOld")
  /\ Fault
  /\ Goto(Main, "unstage")
  /\ UNCHANGED <<disk, vold, memory, locals, allocated, reboots, history>>

FinishSession(st) ==
  /\ UpdateStateAndCommit(Main, session[Main], st)
  /\ Goto(Main, "next")
  /\ UNCHANGED <<active, backup, backupExists, vold, memory, session, todo, reverting,
                 files, caller, environment, history>>

SessionStaged ==
  /\ At(Main, "removeOld")
  /\ Superseded(session[Main]) = {}
  /\ FinishSession("ACTIVATED")

(* session_failed_fn.                                                      *)
SessionFails ==
  /\ At(Main, "unstage")
  /\ files[Main] = {}
  /\ FinishSession("ACTIVATION_FAILED")

(* The state file of the session p works on cannot be opened.              *)
OpenFails(p) ==
  /\ IF p = Main THEN \/ At(p, "unstage") /\ files[p] = {}
                      \/ At(p, "removeOld") /\ Superseded(session[p]) = {}
                 ELSE \/ At(p, "ready")
                      \/ At(p, "confirm") /\ backup = {}
  /\ Fault
  /\ Goto(p, IF p = Main THEN "next" ELSE "idle")
  /\ unrecorded' = unrecorded \cup {session[p]}
  /\ UNCHANGED <<disk, vold, memory, locals, allocated, reboots, original, confirming,
                 reverted, committed>>

AllStaged ==
  /\ At(Main, "next")
  /\ todo[Main] = {}
  /\ Goto(Main, "collect")
  /\ UNCHANGED <<disk, vold, memory, locals, environment, history>>

(* AddDataApex.                                                            *)
CollectDataApexes ==
  /\ At(Main, "collect")
  /\ repo' = Highest(active)
  /\ Goto(Main, "resume")
  /\ UNCHANGED <<disk, vold, inFsCheckpointMode, mounted, preMounted, bootCompleted,
                 locals, environment, history>>

ResumeRevertIfNeeded ==
  /\ At(Main, "resume")
  /\ IF SessionsInState({"REVERT_IN_PROGRESS"}) # {}
       THEN CallRevert(Main, "resume")
       ELSE Goto(Main, "activate") /\ UNCHANGED caller
  /\ UNCHANGED <<disk, vold, memory, session, todo, reverting, files, write,
                 environment, history>>

(* SelectApexForActivation and ActivateApexPackages.  A data APEX fails to  *)
(* activate when its file is gone, and may fail for reasons of its own; the *)
(* built-in APEXes come with the build and activate.                       *)
ActivatePackages ==
  /\ At(Main, "activate")
  /\ \E bad \in SUBSET (Chosen \cap Flaky) :
       LET failing == bad \cup (Chosen \ active) IN
       /\ mounted' = Chosen \ failing
       /\ IF failing = {} THEN Goto(Main, "publish") /\ UNCHANGED caller
                          ELSE CallRevert(Main, "activate")
  /\ preMounted' = Packages \ PackagesOf(Chosen)
  /\ UNCHANGED <<disk, vold, inFsCheckpointMode, repo, bootCompleted, session, todo,
                 reverting, files, write, environment, history>>

(* Nothing to revert, or the revert failed: ActivateMissingApexes.         *)
ActivateMissing ==
  /\ At(Main, "fallback")
  /\ preMounted' = preMounted \cup PackagesOf(Chosen \ mounted)
  /\ Goto(Main, "publish")
  /\ UNCHANGED <<disk, vold, inFsCheckpointMode, repo, mounted, bootCompleted, locals,
                 environment, history>>

(* CreateAndRegisterService, StartThreadPool, OnAllPackagesActivated.      *)
Publish ==
  /\ At(Main, "publish")
  /\ pc' = [p \in Procs |-> IF p = Main THEN "waitCrash" ELSE "idle"]
  /\ UNCHANGED <<disk, vold, memory, locals, environment, history>>

(* WaitForBootStatus: sys.init.updatable_crashing is waited for 10 seconds, *)
(* boot_completed_ is looked at in between.                                *)
UpdatableCrashing ==
  /\ At(Main, "waitCrash")
  /\ Alone(Main)
  /\ CallRevert(Main, "waitCrash")
  /\ UNCHANGED <<disk, vold, memory, session, todo, reverting, files, write,
                 environment, history>>

SeeBootCompleted ==
  /\ At(Main, "waitCrash") \/ At(Main, "waitBoot")
  /\ Alone(Main)
  /\ bootCompleted
  /\ Goto(Main, "cleanup")
  /\ UNCHANGED <<disk, vold, memory, locals, environment, history>>

(* BootCompletedCleanup.                                                   *)
ListDataApexes ==
  /\ At(Main, "cleanup")
  /\ files' = [files EXCEPT ![Main] = active]
  /\ Goto(Main, "cleanupFiles")
  /\ UNCHANGED <<disk, vold, memory, session, todo, reverting, write, caller,
                 environment, history>>

RemoveInactiveDataApex ==
  /\ At(Main, "cleanupFiles")
  /\ \E f \in files[Main] :
       /\ active' = IF f \in mounted THEN active ELSE active \ {f}
       /\ files' = [files EXCEPT ![Main] = @ \ {f}]
  /\ UNCHANGED <<sessionState, backup, backupExists, vold, memory, pc, session, todo,
                 reverting, write, caller, environment, history>>

ListFinalizedSessions ==
  /\ At(Main, "cleanupFiles")
  /\ files[Main] = {}
  /\ todo' = [todo EXCEPT ![Main] = SessionsInState(FinalStates)]
  /\ Goto(Main, "cleanupSessions")
  /\ UNCHANGED <<disk, vold, memory, session, reverting, files, write, caller,
                 environment, history>>

DeleteFinalizedSession ==
  /\ At(Main, "cleanupSessions")
  /\ \E s \in todo[Main] :
       /\ sessionState' = [sessionState EXCEPT ![s] = "none"]
       /\ Visit(Main, s)
  /\ UNCHANGED <<active, backup, backupExists, vold, memory, pc, session, reverting,
                 files, write, caller, environment, history>>

JoinThreadPool ==
  /\ At(Main, "cleanupSessions")
  /\ todo[Main] = {}
  /\ Goto(Main, "idle")
  /\ UNCHANGED <<disk, vold, memory, locals, environment, history>>

MainStep ==
  \/ Reboot \/ AskNeedsRollback \/ ScanStagedSessionsDir \/ RejectSession
  \/ AcceptSession \/ LinkStaged \/ LinkFails \/ UnlinkStaged \/ UnlinkStagedFails
  \/ AllLinked \/ UnlinkSuperseded \/ SupersedeFails \/ SessionStaged
  \/ SessionFails \/ AllStaged
  \/ CollectDataApexes \/ ResumeRevertIfNeeded \/ ActivatePackages
  \/ ActivateMissing \/ Publish \/ SeeBootCompleted \/ ListDataApexes
  \/ RemoveInactiveDataApex \/ ListFinalizedSessions
  \/ DeleteFinalizedSession \/ JoinThreadPool
  \/ Revert(Main) \/ CommitSucceeds(Main) \/ CommitFails(Main) \/ OpenFails(Main)

-----------------------------------------------------------------------------
(* The binder threads: IApexService.  A call that only reports an error or  *)
(* finds nothing to do changes nothing and is left out.                    *)

Serve(t, call, label) ==
  /\ call \in Calls
  /\ At(t, "idle") /\ Alone(t)
  /\ Goto(t, label)

(* The package installer submits on a committed /data, each id once.        *)
MaySubmit(s) ==
  /\ s \notin allocated
  /\ ~journaling
  /\ OneSessionAtATime => SessionsInState(FinalStates \cup {"none", "UNKNOWN"}) = SessionIds

(* SubmitStagedSession, up to the listing of BackupActivePackages.         *)
SubmitStagedSession(t, s) ==
  /\ Serve(t, "submit", IF SupportsFsCheckpoints THEN "verify" ELSE "backup")
  /\ MaySubmit(s)
  /\ allocated' = allocated \cup {s}
  /\ session' = [session EXCEPT ![t] = s]
  /\ files' = [files EXCEPT ![t] = active]
  /\ backupExists' = (backupExists \/ ~SupportsFsCheckpoints)
  /\ original' = [original EXCEPT ![s] = active]
  /\ UNCHANGED <<sessionState, active, backup, vold, memory, todo, reverting, write,
                 caller, reboots, faults, confirming, reverted, committed, unrecorded>>

(* DeleteBackup, one file at a time; also the clean-up of a failed backup.  *)
DeleteBackup(t) ==
  /\ At(t, "backup") \/ At(t, "discard") \/ At(t, "confirm")
  /\ \E f \in backup : backup' = backup \ {f}
  /\ UNCHANGED <<sessionState, active, backupExists, vold, memory, pc, locals,
                 environment, history>>

DeleteBackupFails(t) ==
  /\ At(t, "backup") \/ At(t, "discard") \/ At(t, "confirm")
  /\ backup # {} /\ Fault
  /\ Goto(t, "idle")
  /\ UNCHANGED <<disk, vold, memory, locals, allocated, reboots, history>>

(* mutant: the old backup is not deleted *)
BackupKept(t) ==
  /\ At(t, "backup") \/ At(t, "discard")
  /\ Goto(t, IF pc[t] = "backup" THEN "link" ELSE "idle")
  /\ UNCHANGED <<disk, vold, memory, locals, environment, history>>

BackupDeleted(t) ==
  /\ At(t, "backup") \/ At(t, "discard")
  /\ backup = {}
  /\ Goto(t, IF pc[t] = "backup" THEN "link" ELSE "idle")
  /\ UNCHANGED <<disk, vold, memory, locals, environment, history>>

LinkBackup(t) ==
  /\ At(t, "link")
  /\ backupExists
  /\ \E f \in files[t] \cap active :
       /\ backup' = backup \cup {f}
       /\ files' = [files EXCEPT ![t] = @ \ {f}]
  /\ UNCHANGED <<sessionState, active, backupExists, vold, memory, pc, session, todo,
                 reverting, write, caller, environment, history>>

LinkBackupFails(t) ==
  /\ At(t, "link")
  /\ files[t] # {}
  /\ IF backupExists /\ files[t] \subseteq active THEN Fault ELSE UNCHANGED faults
  /\ Goto(t, "discard")
  /\ UNCHANGED <<disk, vold, memory, locals, allocated, reboots, history>>

(* mutant: the session is accepted before the backup is complete *)
BackedUpEarly(t) ==
  /\ At(t, "link")
  /\ Goto(t, "verify")
  /\ UNCHANGED <<disk, vold, memory, locals, environment, history>>

BackedUp(t) ==
  /\ At(t, "link")
  /\ files[t] = {}
  /\ Goto(t, "verify")
  /\ UNCHANGED <<disk, vold, memory, locals, environment, history>>

(* VerifySessionDir, then CreateSession and the commit of VERIFIED.        *)
CreateVerifiedSession(t) ==
  /\ At(t, "verify")
  /\ sessionState' = [sessionState EXCEPT ![session[t]] = "UNKNOWN"]
  /\ write' = [write EXCEPT ![t] = [id |-> session[t], state |-> "VERIFIED"]]
  /\ Goto(t, "idle")
  /\ UNCHANGED <<active, backup, backupExists, vold, memory, session, todo, reverting,
                 files, caller, environment, history>>

VerifyFails(t) ==
  /\ At(t, "verify")
  /\ Goto(t, "idle")
  /\ UNCHANGED <<disk, vold, memory, locals, environment, history>>

(* MarkStagedSessionReady, MarkStagedSessionSuccessful, AbortStagedSession:  *)
(* the state is read, and acted upon in later steps.                       *)
ReadSession(t, s, call, states, label) ==
  /\ Serve(t, call, label)
  /\ sessionState[s] \in states
  /\ session' = [session EXCEPT ![t] = s]
  /\ UNCHANGED <<disk, vold, memory, todo, reverting, files, write, caller,
                 environment, original, reverted, committed, unrecorded>>

MarkStagedSessionReady(t, s) ==
  /\ ReadSession(t, s, "ready", {"VERIFIED"}, "ready")
  /\ UNCHANGED confirming

CommitReady(t) ==
  /\ At(t, "ready")
  /\ UpdateStateAndCommit(t, session[t], "STAGED")
  /\ Goto(t, "idle")
  /\ UNCHANGED <<active, backup, backupExists, vold, memory, session, todo, reverting,
                 files, caller, environment, history>>

MarkStagedSessionSuccessful(t, s) ==
  /\ ReadSession(t, s, "successful", {"ACTIVATED"}, "confirm")
  /\ confirming' = confirming \cup {s}

CommitSuccess(t) ==
  /\ At(t, "confirm")
  /\ backup = {}
  /\ UpdateStateAndCommit(t, session[t], "SUCCESS")
  /\ Goto(t, "idle")
  /\ UNCHANGED <<active, backup, backupExists, vold, memory, session, todo, reverting,
                 files, caller, environment, history>>

AbortStagedSession(t, s) ==
  /\ ReadSession(t, s, "abort", {"VERIFIED", "STAGED"}, "abort")
  /\ UNCHANGED confirming

DeleteSession(t) ==
  /\ At(t, "abort")
  /\ sessionState' = [sessionState EXCEPT ![session[t]] = "none"]
  /\ Goto(t, "idle")
  /\ UNCHANGED <<active, backup, backupExists, vold, memory, locals, environment, history>>

RevertActiveSessions(t) ==
  /\ "revert" \in Calls
  /\ At(t, "idle") /\ Alone(t)
  /\ CallRevert(t, "idle")
  /\ UNCHANGED <<disk, vold, memory, session, todo, reverting, files, write,
                 environment, history>>

UnstagePackages(t) ==
  /\ Serve(t, "unstage", "idle")
  /\ \E f \in active : active' = active \ {f}
  /\ UNCHANGED <<sessionState, backup, backupExists, vold, memory, locals,
                 environment, history>>

MarkBootCompleted(t) ==
  /\ At(t, "idle") /\ Alone(t)
  /\ bootCompleted' = TRUE
  /\ UNCHANGED <<disk, vold, inFsCheckpointMode, repo, mounted, preMounted, pc, locals,
                 environment, history>>

(* A client makes a call; the thread that took one goes on with it.        *)
Request(t) ==
  \/ \E s \in SessionIds :
       \/ SubmitStagedSession(t, s) \/ MarkStagedSessionReady(t, s)
       \/ MarkStagedSessionSuccessful(t, s) \/ AbortStagedSession(t, s)
  \/ RevertActiveSessions(t) \/ UnstagePackages(t) \/ MarkBootCompleted(t)

BinderStep(t) ==
  \/ DeleteBackup(t) \/ DeleteBackupFails(t) \/ BackupDeleted(t)
  \/ LinkBackup(t) \/ LinkBackupFails(t) \/ BackedUp(t)
  \/ CreateVerifiedSession(t) \/ VerifyFails(t)
  \/ CommitReady(t) \/ CommitSuccess(t) \/ DeleteSession(t)
  \/ Revert(t) \/ CommitSucceeds(t) \/ CommitFails(t) \/ OpenFails(t)

-----------------------------------------------------------------------------
Init ==
  /\ sessionState = [s \in SessionIds |-> "none"]
  /\ active = InitActive /\ backup = {} /\ backupExists = FALSE
  /\ attempts = -1 /\ journaling = FALSE /\ saved = {}
  /\ inFsCheckpointMode = FALSE
  /\ repo = {} /\ mounted = {} /\ preMounted = {} /\ bootCompleted = FALSE
  /\ pc = [p \in Procs |-> "off"]
  /\ session = [p \in Procs |-> NoSession]
  /\ todo = [p \in Procs |-> {}]
  /\ reverting = [p \in Procs |-> {}]
  /\ files = [p \in Procs |-> {}]
  /\ write = [p \in Procs |-> NoWrite]
  /\ caller = [p \in Procs |-> "start"]
  /\ allocated = {} /\ reboots = 0 /\ faults = 0
  /\ original = [s \in SessionIds |-> {}]
  /\ confirming = {} /\ reverted = {} /\ committed = {} /\ unrecorded = {}

Next ==
  \/ Boot \/ PowerLoss \/ StartCheckpoint \/ CommitChanges
  \/ UpdatableCrashing \/ MainStep
  \/ \E t \in Threads : Request(t) \/ BinderStep(t)

Spec == Init /\ [][Next]_vars

(* The kernel boots the device and schedules the main thread and the threads*)
(* that serve a call; clients, power and crashes of native processes owe    *)
(* nothing.                                                                *)
FairSpec ==
  Spec /\ WF_vars(Boot) /\ WF_vars(MainStep) /\ \A t \in Threads : WF_vars(BinderStep(t))
-----------------------------------------------------------------------------
(* Properties.                                                             *)

(* While a session waits to be confirmed, /data/apex/backup holds what      *)
(* /data/apex/active held when it was submitted: whatever goes wrong,       *)
(* RevertActiveSessions can restore it.  Not on devices with checkpoints,   *)
(* and not once MarkStagedSessionSuccessful or a revert consumes the backup.*)
BackupProtectsSession ==
  ~SupportsFsCheckpoints =>
    \A s \in SessionsInState({"VERIFIED", "STAGED", "ACTIVATED"}) \ (confirming \cup reverted) :
      backupExists /\ backup = original[s]

(* RestoreActivePackages has put back what was active when the sessions     *)
(* that RevertActiveSessions is about to mark REVERTED were submitted,      *)
(* whenever power was lost on the way.                                     *)
RestoreIsOriginal ==
  ~SupportsFsCheckpoints =>
    \A p \in Procs : pc[p] = "done" /\ todo[p] = reverting[p] =>
      \A s \in reverting[p] \ confirming : active = original[s]

(* ScanStagedSessionsDirAndStage never stages a session whose state file     *)
(* RevertActiveSessions has opened to mark it, whatever then becomes of the *)
(* marks, of the restore and of REVERTED.  Where it cannot open the file it *)
(* gives up and leaves the session as it is, to be staged or confirmed.     *)
RevertedIsNotStagedAgain ==
  pc[Main] = "stage" => session[Main] \notin reverted

(* When the data APEXes are collected, those of every ACTIVATED session are *)
(* in /data/apex/active, and no other version of their packages is.  A       *)
(* session is excepted that is ACTIVATED only because ACTIVATION_FAILED or   *)
(* REVERT_IN_PROGRESS could not be recorded, until a later commit succeeds.  *)
ActivatedSessionsAreInstalled ==
  pc[Main] = "collect" =>
    \A s \in SessionsInState({"ACTIVATED"}) \ unrecorded :
      \A f \in Staged[s] : {g \in active : g.pkg = f.pkg} = {f}

(* From the moment apexd publishes its service every package is active, as  *)
(* the APEX on /data or as the built-in one: after a failed activation and  *)
(* a failed revert ActivateMissingApexes makes up for what is missing.      *)
EveryPackageActive ==
  pc[Main] \in {"publish", "waitCrash", "waitBoot", "cleanup", "idle"} =>
    Packages = preMounted \cup PackagesOf(mounted)

(* What OnStart activates holds nothing that only a REVERTED session        *)
(* brought, even when ResumeRevertIfNeeded restores /data/apex/active after *)
(* AddDataApex has read it.  A session is excepted when vold committed /data*)
(* before it was reverted.                                                 *)
RevertedApexNotActivated ==
  [][pc[Main] = "activate" /\ pc'[Main] # "off" =>
       \A s \in SessionsInState({"REVERTED"}) \ committed :
         mounted' \cap (Staged[s] \ original[s]) \subseteq
           UNION {Staged[q] : q \in SessionsInState({"ACTIVATED", "SUCCESS"})}]_vars

(* BootCompletedCleanup keeps the APEXes a completed revert restored.       *)
RevertKeepsOriginals ==
  pc[Main] = "cleanupSessions" =>
    \A s \in SessionsInState({"REVERTED"}) :
      {f \in original[s] : f.ver >= PreVersion[f.pkg]} \subseteq active

(* A session in a final state keeps it until it is deleted.                 *)
FinalStatesAreFinal ==
  [][\A s \in SessionsInState(FinalStates) :
       sessionState'[s] \in {sessionState[s], "none"}]_vars

(* However activation fails and processes crash, reverting and rebooting    *)
(* comes to an end: the boot goes through again and again.                  *)
BootCompletes == []<>(pc[Main] \in {"waitCrash", "waitBoot", "idle"})

(* A revert, once begun, is carried to its end, by the next boot if need be,*)
(* and reported, unless the commit that would do so fails: REVERTED that     *)
(* cannot be recorded leaves REVERT_IN_PROGRESS to a boot nobody asks for,   *)
(* one cut short leaves no state.                                          *)
RevertCompletes ==
  \A s \in SessionIds :
    sessionState[s] = "REVERT_IN_PROGRESS" ~>
      \/ sessionState[s] \in {"REVERTED", "REVERT_FAILED"}
      \/ s \in unrecorded
=============================================================================
