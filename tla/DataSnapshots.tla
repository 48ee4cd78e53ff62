---------------------------- MODULE DataSnapshots ----------------------------
(***************************************************************************)
(* The data of APEXes and its snapshots.  When a session with rollback      *)
(* enabled is activated, apexd copies the data of its APEXes aside; when a   *)
(* rollback is activated, it copies that snapshot back.  The main thread    *)
(* does so for DE_sys data before it publishes its service, the process     *)
(* apexd --snapshotde for DE_user data before APEXes are ready for use, and  *)
(* a binder thread for CE data when a client asks.                         *)
(*                                                                         *)
(* A copy is several steps on disk, and power may be lost between any two.  *)
(* The staged install is here only as far as it moves sessions and the      *)
(* active version on: each of its operations is one step (StagedInstall     *)
(* takes them apart).  Data is the version of the APEX that wrote it.       *)
(***************************************************************************)
EXTENDS Integers, Sequences, SequencesExt

CONSTANTS
  SessionIds,             \* sessions; submitted one at a time
  RollbackId,             \* RollbackId[s]: rollback_id of s
  IsRollback,             \* IsRollback[s]: is_rollback of s
  VersionOf,              \* VersionOf[s]: the version of the APEXes of s
  InitVersion,            \* the version there is at first
  Names,                  \* apex_names, the same in every session
  UserDirs,               \* GetDeUserDirs
  CeDirs,                 \* directories of CE data
  CheckpointSupport,      \* the values gSupportsFsCheckpoints may have
  Attempts,               \* boot attempts the client asks vold for
  RevertWhenInUse,        \* what is installed unprotected is reverted only when in use
  MaxPowerLoss,           \* bound: how often power is lost
  MaxFaults               \* bound: failures of a file operation

ASSUME SessionsAssumption ==
  /\ RollbackId \in [SessionIds -> Nat \ {0}]
  /\ IsRollback \in [SessionIds -> BOOLEAN]
  /\ VersionOf \in [SessionIds -> Nat \ {0}] /\ InitVersion \in Nat \ {0}
ASSUME BoundsAssumption ==
  /\ CheckpointSupport \subseteq BOOLEAN /\ RevertWhenInUse \in BOOLEAN
  /\ {Attempts, MaxPowerLoss, MaxFaults} \subseteq Nat
  /\ IsFiniteSet(SessionIds) /\ IsFiniteSet(Names) /\ IsFiniteSet(UserDirs)

Sys == "sys"                              \* kDeSysDataDir
DeDirs == {Sys} \cup UserDirs
Dirs == DeDirs \cup CeDirs
Ids == {RollbackId[s] : s \in SessionIds}
Versions == {InitVersion} \cup {VersionOf[s] : s \in SessionIds}

(* /data/misc/apexdata, /data/misc_de/<user> and /data/misc_ce/<user>.      *)
ASSUME DirsAssumption == Sys \notin UserDirs /\ CeDirs \cap DeDirs = {}

(* No directory, and one that is copied in part.                            *)
Nothing == 0
Partial == -1
Values == Versions \cup {Nothing, Partial}

(* apexdata/<name>, apexrollback/<id>/<name>, apexrollback/<id>-prerestore/..*)
Data(d, a) == [dir |-> d, sub |-> "data", id |-> 0, apex |-> a]
Snapshot(d, r, a) == [dir |-> d, sub |-> "snapshot", id |-> r, apex |-> a]
PreRestore(d, r, a) == [dir |-> d, sub |-> "pre", id |-> r, apex |-> a]
Places == [dir : Dirs, sub : {"data"}, id : {0}, apex : Names] \cup
          [dir : Dirs, sub : {"snapshot", "pre"}, id : Ids, apex : Names]

States == {"none", "STAGED", "ACTIVATED", "ACTIVATION_FAILED", "SUCCESS",
           "REVERT_IN_PROGRESS", "REVERTED", "REVERT_FAILED"}
Unfinished == {"STAGED", "ACTIVATED", "REVERT_IN_PROGRESS"}

Main == "main"
SnapshotDe == "snapshotde"
Binder == "binder"
Procs == {Main, SnapshotDe, Binder}
Labels == {"off", "start", "scan", "resume", "restore", "undo", "sys", "activated",
           "reboot", "user", "ready"}

VARIABLES
  (* persistent storage *)
  files,          \* what each place holds
  state,          \* the state of each session, on /metadata
  version,        \* the version in /data/apex/active
  backup,         \* the version in /data/apex/backup
  (* vold: external *)
  supportsFsCheckpoints,  \* gSupportsFsCheckpoints, which never changes
  attempts, journaling, saved,
  (* memory *)
  pc,             \* where each process is; Binder is "ready" or "off"
  work,           \* the copies a process has still to make, in order
  step,           \* how far the first of them is
  resumed,        \* the revert continues one that power loss cut short
  (* bounds *)
  powerLoss, faults,
  (* history *)
  before,         \* before[s]: the DE data and the version when s was activated
  again,          \* sessions whose copies a later boot makes again
  spoiled         \* places a failure or a client left without what was meant for them

storage == <<files, state, version, backup>>
vold == <<attempts, journaling, saved, supportsFsCheckpoints>>
copying == <<work, step>>
bounds == <<powerLoss, faults>>
history == <<before, again, spoiled>>
vars == <<storage, vold, pc, copying, resumed, bounds, history>>

Copies == [from : Places, to : Places, move : BOOLEAN]

TypeOK ==
  /\ files \in [Places -> Values]
  /\ state \in [SessionIds -> States]
  /\ version \in Versions /\ backup \in Versions \cup {Nothing}
  /\ attempts \in Nat \cup {-1} /\ journaling \in BOOLEAN
  /\ saved \in [files : [Places -> Values], version : Versions, spoiled : SUBSET Places]
  /\ pc \in [Procs -> Labels]
  /\ \A p \in Procs : \A i \in DOMAIN work[p] : work[p][i] \in Copies
  /\ step \in [Procs -> {"remove", "create", "copy", "delete"}]
  /\ resumed \in BOOLEAN /\ supportsFsCheckpoints \in BOOLEAN /\ again \subseteq SessionIds
  /\ powerLoss \in Nat /\ faults \in Nat
  /\ before \in [SessionIds -> [data : [DeDirs \X Names -> Values], version : Versions \cup {Nothing}]]
  /\ spoiled \subseteq Places

In(S) == {s \in SessionIds : state[s] \in S}
Goto(p, label) == pc' = [pc EXCEPT ![p] = label]
Commit(S, st) == state' = [s \in SessionIds |-> IF s \in S THEN st ELSE state[s]]
Fault == faults < MaxFaults /\ faults' = faults + 1

(* For every element of S, in some order.                                  *)
ForEach(S, Op(_)) == FlattenSeq([i \in 1..Cardinality(S) |-> Op(SetToSeq(S)[i])])

-----------------------------------------------------------------------------
(* The copies.                                                             *)

Copy(from, to, move) == <<[from |-> from, to |-> to, move |-> move]>>
SnapshotDataDirectory(d, r, a) == Copy(Data(d, a), Snapshot(d, r, a), FALSE)
RestoreDataDirectory(d, r, a) == Copy(Snapshot(d, r, a), Data(d, a), TRUE)
SnapshotBeforeRestore(d, r, a) == Copy(Data(d, a), PreRestore(d, r, a), FALSE)
RestorePreRestoreSnapshot(d, r, a) == Copy(PreRestore(d, r, a), Data(d, a), TRUE)

(* mutant: restored before it is set aside *)
RestoreFirst(d, s) ==
  ForEach(Names, LAMBDA a :
    IF ~IsRollback[s] THEN SnapshotDataDirectory(d, RollbackId[s], a)
    ELSE RestoreDataDirectory(d, RollbackId[s], a) \o
         IF supportsFsCheckpoints THEN <<>> ELSE SnapshotBeforeRestore(d, RollbackId[s], a))

SnapshotOrRestoreDeIfNeeded(d, s) ==
  ForEach(Names, LAMBDA a :
    IF ~IsRollback[s] THEN SnapshotDataDirectory(d, RollbackId[s], a)
    ELSE (IF supportsFsCheckpoints THEN <<>> ELSE SnapshotBeforeRestore(d, RollbackId[s], a))
         \o RestoreDataDirectory(d, RollbackId[s], a))

(* Whether there is a pre-restore snapshot is not looked at: PathExists     *)
(* answers, and that it does answer is all the code tests.                  *)
RestoreDePreRestoreSnapshotsIfPresent(S) ==
  ForEach(S, LAMBDA s : ForEach(DeDirs, LAMBDA d :
    ForEach(Names, LAMBDA a : RestorePreRestoreSnapshot(d, RollbackId[s], a))))

-----------------------------------------------------------------------------
(* ReplaceFiles: remove the target, create it, fill it; then, when it was a  *)
(* restore, delete what it was filled from.                                *)

First(p) == Head(work[p])
Busy(p, st) == work[p] # <<>> /\ step[p] = st
NextStep(p, st) == step' = [step EXCEPT ![p] = st] /\ UNCHANGED work
NextCopy(p) ==
  /\ work' = [work EXCEPT ![p] = Tail(@)]
  /\ step' = [step EXCEPT ![p] = "remove"]

RemoveTarget(p) ==
  /\ Busy(p, "remove")
  /\ files' = [files EXCEPT ![First(p).to] = Nothing]
  /\ NextStep(p, "create")
  /\ UNCHANGED <<state, version, backup, vold, pc, resumed, bounds, history>>

CreateTarget(p) ==
  /\ Busy(p, "create")
  /\ files[First(p).from] # Nothing
  /\ files' = [files EXCEPT ![First(p).to] = Partial]
  /\ NextStep(p, "copy")
  /\ UNCHANGED <<state, version, backup, vold, pc, resumed, bounds, history>>

FinishCopy(p) ==
  /\ Busy(p, "copy")
  /\ files[First(p).from] # Nothing
  /\ files' = [files EXCEPT ![First(p).to] = files[First(p).from]]
  /\ IF First(p).move THEN NextStep(p, "delete") ELSE NextCopy(p)
  /\ spoiled' = IF First(p).from \in spoiled THEN spoiled \cup {First(p).to}
                                             ELSE spoiled \ {First(p).to}
  /\ UNCHANGED <<state, version, backup, vold, pc, resumed, bounds, before, again>>

(* The target cannot be removed, or cp fails and the guard removes it.      *)
CopyFails(p) ==
  /\ work[p] # <<>> /\ step[p] # "delete"
  /\ IF step[p] # "remove" /\ files[First(p).from] = Nothing
       THEN /\ UNCHANGED faults
            /\ spoiled' = IF First(p).from \in spoiled THEN spoiled \cup {First(p).to}
                                                       ELSE spoiled
       ELSE Fault /\ spoiled' = spoiled \cup {First(p).to}
  /\ files' = IF step[p] = "remove" THEN files ELSE [files EXCEPT ![First(p).to] = Nothing]
  /\ NextCopy(p)
  /\ UNCHANGED <<state, version, backup, vold, pc, resumed, powerLoss, before, again>>

(* RestoreconPath or DeleteDir may fail.                                    *)
DeleteSource(p) ==
  /\ Busy(p, "delete")
  /\ \/ files' = [files EXCEPT ![First(p).from] = Nothing] /\ UNCHANGED faults
     \/ UNCHANGED files /\ Fault
  /\ NextCopy(p)
  /\ UNCHANGED <<state, version, backup, vold, pc, resumed, powerLoss, history>>

CopyStep(p) ==
  \/ RemoveTarget(p) \/ CreateTarget(p) \/ FinishCopy(p) \/ CopyFails(p) \/ DeleteSource(p)

-----------------------------------------------------------------------------
(* The device: power and vold's checkpoint of /data.                       *)

(* What vold would bring back; what is known of the files goes with them.    *)
Image == [files |-> files, version |-> version, spoiled |-> spoiled]

PowerOff ==
  /\ pc' = [p \in Procs |-> "off"]
  /\ work' = [p \in Procs |-> <<>>] /\ step' = [p \in Procs |-> "remove"]
  /\ resumed' = FALSE
  /\ files' = IF journaling THEN saved.files ELSE files
  /\ version' = IF journaling THEN saved.version ELSE version
  /\ spoiled' = IF journaling THEN saved.spoiled ELSE spoiled
  /\ journaling' = FALSE
  /\ UNCHANGED <<state, backup, saved, supportsFsCheckpoints, faults, before, again>>

PowerLoss ==
  /\ pc[Main] # "off"
  /\ powerLoss < MaxPowerLoss /\ powerLoss' = powerLoss + 1
  /\ PowerOff
  /\ UNCHANGED attempts

(* The user reboots to install what is staged.                             *)
RebootToInstall ==
  /\ In({"STAGED"}) # {}
  /\ pc[Main] = "activated" /\ pc[SnapshotDe] = "ready" /\ work[Binder] = <<>>
  /\ ~journaling
  /\ PowerOff
  /\ UNCHANGED <<attempts, powerLoss>>

(* mutant: an attempt is counted when none was asked for *)
CountAlways ==
  /\ pc[Main] = "off"
  /\ attempts' = attempts - 1
  /\ journaling' = (supportsFsCheckpoints /\ attempts' > 0)
  /\ saved' = IF journaling' THEN Image ELSE saved
  /\ Goto(Main, "start")
  /\ UNCHANGED <<storage, supportsFsCheckpoints, copying, resumed, bounds, history>>

Boot ==
  /\ pc[Main] = "off"
  /\ attempts' = IF attempts > 0 THEN attempts - 1 ELSE attempts
  /\ journaling' = (supportsFsCheckpoints /\ attempts' > 0)
  /\ saved' = IF journaling' THEN Image ELSE saved
  /\ Goto(Main, "start")
  /\ UNCHANGED <<storage, supportsFsCheckpoints, copying, resumed, bounds, history>>

(* The system server lets vold commit /data when the boot has completed,    *)
(* which takes APEXes that are ready.                                      *)
CommitChanges ==
  /\ journaling
  /\ pc[Main] = "activated" /\ pc[SnapshotDe] = "ready"
  /\ journaling' = FALSE /\ attempts' = -1
  /\ UNCHANGED <<storage, saved, supportsFsCheckpoints, pc, copying, resumed, bounds, history>>

(* An APEX writes its DE data once it is in use.                           *)
Write(d, a) ==
  /\ pc[Main] = "activated" /\ (d = Sys \/ pc[SnapshotDe] = "ready")
  /\ work[Main] = <<>> /\ work[Binder] = <<>>
  /\ files' = [files EXCEPT ![Data(d, a)] = version]
  /\ spoiled' = spoiled \ {Data(d, a)}
  /\ UNCHANGED <<state, version, backup, vold, pc, copying, resumed, bounds, before, again>>

-----------------------------------------------------------------------------
(* The main thread: OnStart, as far as it concerns sessions and data.       *)

NeedsRollback ==
  /\ pc[Main] = "start"
  /\ IF supportsFsCheckpoints /\ attempts = 0 THEN Commit(In(Unfinished), "REVERTED")
                                              ELSE UNCHANGED state
  /\ Goto(Main, "scan")
  /\ UNCHANGED <<files, version, backup, vold, copying, resumed, bounds, history>>

(* mutant: an unprotected session is activated *)
ActivatesUnprotected == TRUE

MayInstall == supportsFsCheckpoints => journaling
ToActivate == In(IF supportsFsCheckpoints THEN {"STAGED", "ACTIVATED"} ELSE {"STAGED"})

ScanStagedSessionsDirAndStage ==
  /\ pc[Main] = "scan"
  /\ Commit(ToActivate, IF MayInstall THEN "ACTIVATED" ELSE "ACTIVATION_FAILED")
  /\ IF MayInstall /\ ToActivate # {}
       THEN /\ \E s \in ToActivate : version' = VersionOf[s]
            /\ before' = [s \in SessionIds |->
                 IF s \in ToActivate
                   THEN [data |-> [x \in DeDirs \X Names |-> files[Data(x[1], x[2])]],
                         version |-> version]
                   ELSE before[s]]
       ELSE UNCHANGED <<version, before>>
  /\ again' = again \cup In({"ACTIVATED"})
  /\ Goto(Main, "resume")
  /\ UNCHANGED <<files, backup, vold, copying, resumed, bounds, spoiled>>

Revert ==
  /\ Commit(In(Unfinished), "REVERT_IN_PROGRESS")
  /\ Goto(Main, IF supportsFsCheckpoints THEN "undo" ELSE "restore")

ResumeRevertIfNeeded ==
  /\ pc[Main] = "resume"
  /\ resumed' = (In({"REVERT_IN_PROGRESS"}) # {})
  /\ IF resumed' THEN Revert ELSE Goto(Main, "sys") /\ UNCHANGED state
  /\ UNCHANGED <<files, version, backup, vold, copying, bounds, history>>

(* RevertActiveSessionsAndReboot, from OnStart when an APEX cannot be        *)
(* activated, before anything is copied.                                   *)
ActivationFails ==
  /\ pc[Main] = "sys" /\ pc[Binder] = "off"
  /\ RevertWhenInUse /\ ~supportsFsCheckpoints =>
       \A s \in In({"ACTIVATED"}) : IsRollback[s] => s \in again
  /\ In(Unfinished) # {}
  /\ Revert
  /\ UNCHANGED <<files, version, backup, vold, copying, resumed, bounds, history>>

(* RevertActiveSessionsAndReboot, when a native process crashes.            *)
UpdatableCrashing ==
  /\ pc[Main] = "activated"
  /\ RevertWhenInUse /\ ~supportsFsCheckpoints => pc[SnapshotDe] = "ready" /\ In({"STAGED"}) = {}
  /\ In(Unfinished) # {}
  /\ Revert
  /\ UNCHANGED <<files, version, backup, vold, copying, resumed, bounds, history>>

(* Without the backup nothing is undone, and the device goes on.            *)
RestoreFails ==
  /\ pc[Main] = "restore"
  /\ backup = Nothing
  /\ Commit(In({"REVERT_IN_PROGRESS"}), "REVERT_FAILED")
  /\ Goto(Main, IF pc[Binder] = "off" THEN "sys" ELSE "activated")
  /\ resumed' = FALSE
  /\ UNCHANGED <<files, version, backup, vold, copying, bounds, history>>

RestoreActivePackages ==
  /\ pc[Main] = "restore"
  /\ backup # Nothing
  /\ version' = backup /\ backup' = Nothing
  /\ work' = [work EXCEPT ![Main] = RestoreDePreRestoreSnapshotsIfPresent(
                  {s \in In({"REVERT_IN_PROGRESS"}) : IsRollback[s]})]
  /\ Goto(Main, "undo")
  /\ UNCHANGED <<files, state, vold, step, resumed, bounds, history>>

FinishRevert ==
  /\ pc[Main] = "undo" /\ work[Main] = <<>>
  /\ Commit(In({"REVERT_IN_PROGRESS"}), "REVERTED")
  /\ Goto(Main, IF resumed THEN "sys" ELSE "reboot")
  /\ resumed' = FALSE
  /\ UNCHANGED <<files, version, backup, vold, copying, bounds, history>>

(* For the sessions ACTIVATED once the APEXes are mounted.                  *)
SnapshotOrRestoreDeSysData ==
  /\ pc[Main] = "sys" /\ pc[Binder] = "off"
  /\ work' = [work EXCEPT ![Main] =
       ForEach(In({"ACTIVATED"}), LAMBDA s : SnapshotOrRestoreDeIfNeeded(Sys, s))]
  /\ pc' = [pc EXCEPT ![Binder] = "start"]
  /\ UNCHANGED <<storage, vold, step, resumed, bounds, history>>

OnAllPackagesActivated ==
  /\ pc[Main] = "sys" /\ pc[Binder] = "start" /\ work[Main] = <<>>
  /\ pc' = [pc EXCEPT ![Main] = "activated", ![Binder] = "ready"]
  /\ UNCHANGED <<storage, vold, copying, resumed, bounds, history>>

(* AbortChanges leaves vold no attempt.                                    *)
Reboot ==
  /\ pc[Main] = "reboot"
  /\ attempts' = IF journaling THEN 0 ELSE attempts
  /\ PowerOff
  /\ UNCHANGED powerLoss

MainStep ==
  \/ CopyStep(Main)
  \/ NeedsRollback \/ ScanStagedSessionsDirAndStage \/ ResumeRevertIfNeeded
  \/ SnapshotOrRestoreDeSysData \/ OnAllPackagesActivated
  \/ ActivationFails \/ UpdatableCrashing \/ RestoreFails \/ RestoreActivePackages \/ FinishRevert \/ Reboot

-----------------------------------------------------------------------------
(* apexd --snapshotde, started by init when APEXes are activated.          *)

SnapshotOrRestoreDeUserData ==
  /\ pc[SnapshotDe] = "off" /\ pc[Binder] = "ready"
  /\ work' = [work EXCEPT ![SnapshotDe] =
       ForEach(In({"ACTIVATED"}), LAMBDA s :
         ForEach(UserDirs, LAMBDA d : SnapshotOrRestoreDeIfNeeded(d, s)))]
  /\ Goto(SnapshotDe, "user")
  /\ UNCHANGED <<storage, vold, step, resumed, bounds, history>>

(* mutant: ready before the data is *)
ReadyEarly ==
  /\ pc[SnapshotDe] = "user"
  /\ Goto(SnapshotDe, "ready")
  /\ UNCHANGED <<storage, vold, copying, resumed, bounds, history>>

OnAllPackagesReady ==
  /\ pc[SnapshotDe] = "user" /\ work[SnapshotDe] = <<>>
  /\ Goto(SnapshotDe, "ready")
  /\ UNCHANGED <<storage, vold, copying, resumed, bounds, history>>

SnapshotDeStep ==
  \/ CopyStep(SnapshotDe) \/ SnapshotOrRestoreDeUserData \/ OnAllPackagesReady

-----------------------------------------------------------------------------
(* IApexService.  The clients, external, submit one session at a time: an    *)
(* update that is no downgrade, or a rollback of an update that succeeded to *)
(* the version that it replaced.  They confirm what vold committed, and      *)
(* destroy snapshots only while no session is under way.                   *)

Idle ==
  /\ pc[Main] = "activated" /\ pc[SnapshotDe] = "ready" /\ work[Binder] = <<>>

Submit(s) ==
  /\ Idle /\ ~journaling
  /\ state[s] = "none" /\ In(Unfinished) = {}
  /\ IF IsRollback[s]
       THEN \E q \in In({"SUCCESS"}) :
              /\ ~IsRollback[q] /\ RollbackId[q] = RollbackId[s]
              /\ version = VersionOf[q] /\ VersionOf[s] = before[q].version
       ELSE VersionOf[s] >= version
  /\ state' = [state EXCEPT ![s] = "STAGED"]
  /\ backup' = IF supportsFsCheckpoints THEN Nothing ELSE version
  /\ attempts' = IF supportsFsCheckpoints THEN Attempts ELSE attempts
  /\ UNCHANGED <<files, version, journaling, saved, supportsFsCheckpoints, pc, copying, resumed,
                 bounds, history>>

MarkStagedSessionSuccessful(s) ==
  /\ Idle /\ ~journaling
  /\ state[s] = "ACTIVATED"
  /\ backup' = Nothing
  /\ files' = [f \in Places |->
       IF f.sub = "pre" /\ f.dir \in DeDirs /\ f.id = RollbackId[s]
          /\ IsRollback[s] /\ ~supportsFsCheckpoints THEN Nothing ELSE files[f]]
  /\ state' = [state EXCEPT ![s] = "SUCCESS"]
  /\ UNCHANGED <<version, vold, pc, copying, resumed, bounds, history>>

(* Pre-restore snapshots have directories of their own.                     *)
Destroyed(S) == [f \in Places |-> IF f.sub = "snapshot" /\ f \in S THEN Nothing ELSE files[f]]

DestroyDeSnapshots(r) ==
  /\ Idle /\ In(Unfinished) = {}
  /\ files' = Destroyed({f \in Places : f.dir \in DeDirs /\ f.id = r})
  /\ spoiled' = spoiled \cup {Snapshot(d, r, a) : d \in DeDirs, a \in Names}
  /\ UNCHANGED <<state, version, backup, vold, pc, copying, resumed, bounds, before, again>>

(* mutant: the users' other directories are looked at as well *)
DestroyEverywhere(d, retain) ==
  /\ Idle
  /\ files' = Destroyed({f \in Places : f.id \notin retain})
  /\ UNCHANGED <<state, version, backup, vold, pc, copying, resumed, bounds, history>>

DestroyCeSnapshotsNotSpecified(d, retain) ==
  /\ Idle
  /\ files' = Destroyed({f \in Places : f.dir = d /\ f.id \notin retain})
  /\ UNCHANGED <<state, version, backup, vold, pc, copying, resumed, bounds, history>>

DestroyCeSnapshots(d, r) == DestroyCeSnapshotsNotSpecified(d, Ids \ {r})

SnapshotOrRestoreCeData(d, r, a) ==
  /\ Idle
  /\ \E copy \in {SnapshotDataDirectory(d, r, a), RestoreDataDirectory(d, r, a)} :
       work' = [work EXCEPT ![Binder] = copy]
  /\ UNCHANGED <<storage, vold, pc, step, resumed, bounds, history>>

Request ==
  \/ \E s \in SessionIds : Submit(s) \/ MarkStagedSessionSuccessful(s)
  \/ \E r \in Ids : DestroyDeSnapshots(r)
  \/ \E d \in CeDirs : \E r \in Ids :
       DestroyCeSnapshots(d, r) \/ \E a \in Names : SnapshotOrRestoreCeData(d, r, a)
  \/ \E d \in CeDirs : \E retain \in SUBSET Ids : DestroyCeSnapshotsNotSpecified(d, retain)

-----------------------------------------------------------------------------
Init ==
  /\ files = [f \in Places |-> IF f.sub = "data" THEN InitVersion ELSE Nothing]
  /\ state = [s \in SessionIds |-> "none"]
  /\ version = InitVersion /\ backup = Nothing
  /\ attempts = -1 /\ journaling = FALSE
  /\ pc = [p \in Procs |-> "off"]
  /\ work = [p \in Procs |-> <<>>] /\ step = [p \in Procs |-> "remove"]
  /\ resumed = FALSE
  /\ powerLoss = 0 /\ faults = 0
  /\ supportsFsCheckpoints \in CheckpointSupport
  /\ again = {}
  /\ before = [s \in SessionIds |->
                 [data |-> [x \in DeDirs \X Names |-> Nothing], version |-> Nothing]]
  /\ spoiled = {}
  /\ saved = Image

Next ==
  \/ Boot \/ PowerLoss \/ RebootToInstall \/ CommitChanges
  \/ \E d \in DeDirs : \E a \in Names : Write(d, a)
  \/ MainStep \/ SnapshotDeStep \/ CopyStep(Binder) \/ Request

Spec == Init /\ [][Next]_vars

-----------------------------------------------------------------------------
(* Properties.                                                             *)

InUse == pc[Main] = "activated" /\ pc[SnapshotDe] = "ready"

(* No APEX finds DE data that a newer version of it has written: a rollback *)
(* has its data restored before APEXes are ready, wherever power was lost    *)
(* and whatever the updated version had written.  (Devices without          *)
(* checkpoints keep what the updated version wrote when it is reverted.)    *)
DataIsNotNewer ==
  supportsFsCheckpoints /\ InUse => \A d \in DeDirs : \A a \in Names :
    Data(d, a) \in spoiled \/ files[Data(d, a)] <= version

(* ReplaceFiles removes before it copies: no loss of power, and no state of *)
(* the session that makes a boot copy again, costs an APEX its data.        *)
NoDataIsLost ==
  supportsFsCheckpoints /\ InUse => \A d \in DeDirs : \A a \in Names :
    Data(d, a) \in spoiled \/ files[Data(d, a)] \in Versions

(* As long as an update may be rolled back, its snapshot is the data there   *)
(* was when it was activated: no later boot replaces it by what the updated *)
(* version has written.                                                    *)
SnapshotIsOriginal ==
  supportsFsCheckpoints /\ InUse => \A s \in In({"ACTIVATED", "SUCCESS"}) :
    (~IsRollback[s] /\ ~\E q \in SessionIds : IsRollback[q] /\ state[q] # "none") =>
      \A d \in DeDirs : \A a \in Names :
        \/ Snapshot(d, RollbackId[s], a) \in spoiled
        \/ files[Snapshot(d, RollbackId[s], a)] = before[s].data[<<d, a>>]

(* On devices without checkpoints, a reverted rollback leaves the DE data as *)
(* it was when the rollback was activated, or, when it never was, as it is. *)
(* Rollbacks whose copies a second boot made again are excepted.            *)
RevertKeepsData ==
  [][\A s \in SessionIds \ again :
       state[s] # "REVERTED" /\ state'[s] = "REVERTED" /\ IsRollback[s] /\ ~supportsFsCheckpoints =>
         \A d \in DeDirs : \A a \in Names :
           \/ Data(d, a) \in spoiled
           \/ IF before[s].version = Nothing THEN files[Data(d, a)] # Nothing
              ELSE files[Data(d, a)] = before[s].data[<<d, a>>]]_vars
=============================================================================
