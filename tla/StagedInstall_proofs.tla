------------------------- MODULE StagedInstall_proofs -------------------------
(* What holds of StagedInstall for every value of its constants.            *)
EXTENDS StagedInstall, TLAPS

(* TypeOK is not inductive: a process writes the state of the session it    *)
(* works on, which is one as long as it is at one of these labels.         *)
WithSession == {"stage", "unstage", "removeOld"} \cup CallLabels
SessionKnown == \A p \in Procs : pc[p] \in WithSession => session[p] \in SessionIds
TypeInv == TypeOK /\ SessionKnown

(* Wherever RevertActiveSessions was called from, it returns to a label,    *)
(* and to one without a session.                                           *)
LEMMA ReturnLabels ==
  \A c \in Callers : /\ ReturnOk[c] \in Labels \ WithSession
                      /\ ReturnError[c] \in Labels \ WithSession
BY DEF Callers, ReturnOk, ReturnError, Labels, MainLabels, RevertLabels, CallLabels, WithSession

(* Restarting the device forgets the memory of apexd and keeps the disk.    *)
LEMMA PowerOffType ==
  ASSUME TypeInv, PowerOff, attempts' \in Nat \cup {-1}, reboots' \in Nat
  PROVE  TypeInv'
<1>1. unrecorded' \subseteq SessionIds
  BY DEF TypeInv, TypeOK, PowerOff, NoWrite
<1> QED
  BY <1>1 DEF TypeOK, PowerOff, Labels, Callers, ReturnOk, NoWrite, NoSession, TypeInv,
     SessionKnown,
     WithSession, MainLabels, RevertLabels, CallLabels

(* The steps of RevertActiveSessions, by whichever process.                 *)
LEMMA RevertType ==
  ASSUME TypeInv, NEW p \in Procs, Revert(p)
  PROVE  TypeInv'
<1> USE DEF TypeInv, SessionKnown, WithSession, CallLabels,
          disk, vold, memory, locals, environment, history, At, Goto, Visit, Fault
<1>1. CASE FindActiveSessions(p)
  BY <1>1, ReturnLabels DEF FindActiveSessions, TypeOK, ActiveSessions, SessionsInState,
       Labels, RevertLabels
<1>2. CASE MarkRevertInProgress(p)
  BY <1>2 DEF MarkRevertInProgress, UpdateStateAndCommit, TypeOK, States
<1>3. CASE AllMarked(p)
  BY <1>3 DEF AllMarked, TypeOK, Labels, RevertLabels
<1>4. CASE CheckBackup(p)
  BY <1>4 DEF CheckBackup, TypeOK, Labels, RevertLabels
<1>5. CASE DeleteActive(p)
  BY <1>5 DEF DeleteActive, TypeOK
<1>6. CASE ActiveIsEmpty(p)
  BY <1>6 DEF ActiveIsEmpty, TypeOK, Labels, RevertLabels
<1>7. CASE RenameBackup(p)
  <2>1. pc' \in [Procs -> Labels] /\ faults' \in Nat
    BY <1>7 DEF RenameBackup, TypeOK, Labels, RevertLabels
  <2>2. active' \subseteq Apexes /\ backup' \subseteq Apexes /\ backupExists' \in BOOLEAN
    BY <1>7 DEF RenameBackup, TypeOK
  <2> QED
    BY <1>7, <2>1, <2>2 DEF RenameBackup, TypeOK
<1>8. CASE RestoreFails(p)
  BY <1>8 DEF RestoreFails, TypeOK, Labels, RevertLabels
<1>9. CASE FinishRevert(p)
  BY <1>9 DEF FinishRevert, UpdateStateAndCommit, TypeOK, States
<1>10. CASE ReturnFromRevert(p)
  BY <1>10, ReturnLabels DEF ReturnFromRevert, TypeOK
<1>11. CASE MarkOpenFails(p)
  <2>1. pc' \in [Procs -> Labels] /\ SessionKnown'
    BY <1>11, ReturnLabels DEF MarkOpenFails, GiveUpRevert, TypeOK
  <2> QED
    BY <1>11, <2>1 DEF MarkOpenFails, GiveUpRevert, TypeOK
<1>12. CASE FinishOpenFails(p)
  BY <1>12 DEF FinishOpenFails, TypeOK
<1> QED
  BY <1>1, <1>2, <1>3, <1>4, <1>5, <1>6, <1>7, <1>8, <1>9, <1>10, <1>11, <1>12 DEF Revert

LEMMA CommitType ==
  ASSUME TypeInv, NEW p \in Procs, CommitSucceeds(p) \/ CommitFails(p) \/ OpenFails(p)
  PROVE  TypeInv'
<1> USE DEF TypeInv, SessionKnown, WithSession, CallLabels,
          disk, vold, memory, locals, environment, history, Goto, Fault
<1>1. CASE CommitSucceeds(p)
  <2>1. write[p].id \in SessionIds /\ write[p].state \in States
    BY <1>1 DEF CommitSucceeds, TypeOK
  <2> QED
    BY <1>1, <2>1 DEF CommitSucceeds, TypeOK
<1>2. CASE CommitFails(p)
  <2>1. faults' \in Nat /\ unrecorded' \subseteq SessionIds
    BY <1>2 DEF CommitFails, GiveUpRevert, TypeOK
  <2>2. pc' \in [Procs -> Labels] /\ SessionKnown'
    <3>1. CASE GiveUpRevert(p)
      BY <1>2, <3>1, ReturnLabels DEF CommitFails, GiveUpRevert, TypeOK
    <3>2. CASE UNCHANGED pc
      BY <1>2, <3>2 DEF CommitFails, TypeOK
    <3> QED
      BY <1>2, <3>1, <3>2 DEF CommitFails
  <2> QED
    BY <1>2, <2>1, <2>2 DEF CommitFails, TypeOK
<1>3. CASE OpenFails(p)
  <2>1. pc[p] \in WithSession /\ pc' \in [Procs -> Labels] /\ SessionKnown'
    BY <1>3 DEF OpenFails, At, TypeOK, Labels, MainLabels
  <2> QED
    BY <1>3, <2>1 DEF OpenFails, TypeOK
<1> QED
  BY <1>1, <1>2, <1>3

(* The device, and vold.                                                   *)
LEMMA DeviceType ==
  ASSUME TypeInv, Boot \/ PowerLoss \/ StartCheckpoint \/ CommitChanges \/ Reboot
  PROVE  TypeInv'
<1> USE DEF TypeInv, SessionKnown, WithSession, CallLabels,
          disk, vold, memory, locals, environment, history, Goto
<1>1. CASE Boot
  <2>1. attempts' \in Nat \cup {-1} /\ journaling' \in BOOLEAN /\ saved' \subseteq Apexes
    BY <1>1, FlagsAssumption DEF Boot, TypeOK
  <2>2. inFsCheckpointMode' \in BOOLEAN
    BY <1>1, FlagsAssumption DEF Boot, TypeOK
  <2>3. pc' \in [Procs -> Labels] /\ SessionKnown'
    BY <1>1 DEF Boot, TypeOK, Labels, MainLabels
  <2> QED
    BY <1>1, <2>1, <2>2, <2>3 DEF Boot, TypeOK
<1>2. CASE PowerLoss
  BY <1>2, PowerOffType DEF PowerLoss, TypeOK
<1>3. CASE StartCheckpoint
  BY <1>3, FlagsAssumption DEF StartCheckpoint, TypeOK
<1>4. CASE CommitChanges
  BY <1>4 DEF CommitChanges, TypeOK, SessionsInState
<1>5. CASE Reboot
  BY <1>5, PowerOffType DEF Reboot, TypeOK
<1> QED
  BY <1>1, <1>2, <1>3, <1>4, <1>5

(* The main thread, up to the end of ScanStagedSessionsDirAndStage.         *)
LEMMA StagingType ==
  ASSUME TypeInv,
         \/ AskNeedsRollback \/ ScanStagedSessionsDir \/ RejectSession \/ AcceptSession
         \/ LinkStaged \/ LinkFails \/ UnlinkStaged \/ UnlinkStagedFails \/ AllLinked
         \/ UnlinkSuperseded \/ SupersedeFails \/ SessionStaged \/ SessionFails \/ AllStaged
  PROVE  TypeInv'
<1> USE DEF TypeInv, SessionKnown, WithSession, CallLabels,
          disk, vold, memory, locals, environment, history, At, Goto, Visit, Fault, Procs
<1>1. CASE AskNeedsRollback
  <2>1. pc' \in [Procs -> Labels] /\ caller' \in [Procs -> Callers] /\ faults' \in Nat
    BY <1>1 DEF AskNeedsRollback, CallRevert, TypeOK, Labels, MainLabels, RevertLabels,
         Callers, ReturnOk
  <2>2. SessionKnown'
    BY <1>1 DEF AskNeedsRollback, CallRevert, TypeOK
  <2> QED
    BY <1>1, <2>1, <2>2 DEF AskNeedsRollback, TypeOK
<1>2. CASE ScanStagedSessionsDir
  BY <1>2 DEF ScanStagedSessionsDir, SessionsToActivate, SessionsInState, TypeOK, Labels,
       MainLabels
<1>3. CASE RejectSession
  <2>1. faults' \in Nat
    BY <1>3 DEF RejectSession, TypeOK
  <2> QED
    BY <1>3, <2>1 DEF RejectSession, TypeOK, Labels, MainLabels
<1>4. CASE AcceptSession
  BY <1>4, StagedAssumption DEF AcceptSession, TypeOK, Labels, MainLabels
<1>5. CASE LinkStaged
  BY <1>5 DEF LinkStaged, TypeOK
<1>6. CASE LinkFails
  BY <1>6, StagedAssumption DEF LinkFails, TypeOK, Labels, MainLabels
<1>7. CASE UnlinkStaged
  BY <1>7 DEF UnlinkStaged, TypeOK
<1>8. CASE AllLinked
  BY <1>8 DEF AllLinked, TypeOK, Labels, MainLabels
<1>9. CASE UnlinkSuperseded
  BY <1>9 DEF UnlinkSuperseded, TypeOK
<1>10. CASE SessionStaged
  BY <1>10 DEF SessionStaged, FinishSession, UpdateStateAndCommit, TypeOK, States, Labels,
       MainLabels
<1>11. CASE SessionFails
  BY <1>11 DEF SessionFails, FinishSession, UpdateStateAndCommit, TypeOK, States, Labels,
       MainLabels
<1>12. CASE AllStaged
  BY <1>12 DEF AllStaged, TypeOK, Labels, MainLabels
<1>13. CASE UnlinkStagedFails
  BY <1>13 DEF UnlinkStagedFails, TypeOK
<1>14. CASE SupersedeFails
  BY <1>14 DEF SupersedeFails, TypeOK, Labels, MainLabels
<1> QED
  BY <1>1, <1>2, <1>3, <1>4, <1>5, <1>6, <1>7, <1>8, <1>9, <1>10, <1>11, <1>12, <1>13, <1>14

(* The main thread, from AddDataApex to the end of BootCompletedCleanup.    *)
LEMMA ActivationType ==
  ASSUME TypeInv,
         \/ CollectDataApexes \/ ResumeRevertIfNeeded \/ ActivatePackages
         \/ ActivateMissing \/ Publish \/ UpdatableCrashing \/ SeeBootCompleted
         \/ ListDataApexes \/ RemoveInactiveDataApex \/ ListFinalizedSessions
         \/ DeleteFinalizedSession \/ JoinThreadPool
  PROVE  TypeInv'
<1> USE DEF TypeInv, SessionKnown, WithSession, CallLabels,
          disk, vold, memory, locals, environment, history, At, Goto, Visit, Procs
<1>1. CASE CollectDataApexes
  BY <1>1 DEF CollectDataApexes, Highest, TypeOK, Labels, MainLabels
<1>2. CASE ResumeRevertIfNeeded
  BY <1>2 DEF ResumeRevertIfNeeded, CallRevert, TypeOK, Labels, MainLabels, RevertLabels,
       Callers, ReturnOk
<1>3. CASE ActivatePackages
  <2>1. pc' \in [Procs -> Labels] /\ caller' \in [Procs -> Callers] /\ SessionKnown'
    BY <1>3 DEF ActivatePackages, CallRevert, TypeOK, Labels, MainLabels, RevertLabels,
         Callers, ReturnOk
  <2>2. mounted' \subseteq Apexes /\ preMounted' \subseteq Packages
    BY <1>3 DEF ActivatePackages, Chosen, TypeOK
  <2> QED
    BY <1>3, <2>1, <2>2 DEF ActivatePackages, TypeOK
<1>4. CASE ActivateMissing
  <2>1. preMounted' \subseteq Packages
    BY <1>4 DEF ActivateMissing, Chosen, PackagesOf, Apexes, TypeOK
  <2> QED
    BY <1>4, <2>1 DEF ActivateMissing, TypeOK, Labels, MainLabels
<1>5. CASE Publish
  BY <1>5 DEF Publish, TypeOK, Labels, MainLabels
<1>6. CASE UpdatableCrashing
  BY <1>6 DEF UpdatableCrashing, CallRevert, TypeOK, Labels, RevertLabels, Callers, ReturnOk
<1>7. CASE SeeBootCompleted
  BY <1>7 DEF SeeBootCompleted, TypeOK, Labels, MainLabels
<1>8. CASE ListDataApexes
  BY <1>8 DEF ListDataApexes, TypeOK, Labels, MainLabels
<1>9. CASE RemoveInactiveDataApex
  BY <1>9 DEF RemoveInactiveDataApex, TypeOK
<1>10. CASE ListFinalizedSessions
  BY <1>10 DEF ListFinalizedSessions, SessionsInState, TypeOK, Labels, MainLabels
<1>11. CASE DeleteFinalizedSession
  BY <1>11 DEF DeleteFinalizedSession, TypeOK
<1>12. CASE JoinThreadPool
  BY <1>12 DEF JoinThreadPool, TypeOK, Labels
<1> QED
  BY <1>1, <1>2, <1>3, <1>4, <1>5, <1>6, <1>7, <1>8, <1>9, <1>10, <1>11, <1>12

(* The calls of clients.                                                   *)
LEMMA RequestType ==
  ASSUME TypeInv, NEW t \in Threads, Request(t)
  PROVE  TypeInv'
<1> USE DEF TypeInv, SessionKnown, WithSession, disk, vold, memory, locals, environment, history,
          At, Goto, Procs, Serve
<1>1. ASSUME NEW s \in SessionIds, SubmitStagedSession(t, s)
      PROVE  TypeInv'
  <2>1. pc' \in [Procs -> Labels] /\ SessionKnown'
    BY <1>1 DEF SubmitStagedSession, TypeOK, Labels, CallLabels
  <2>2. /\ files' \in [Procs -> SUBSET Apexes] /\ original' \in [SessionIds -> SUBSET Apexes]
        /\ allocated' \subseteq SessionIds /\ session' \in [Procs -> SessionIds \cup {NoSession}]
    BY <1>1 DEF SubmitStagedSession, TypeOK
  <2>3. backupExists' \in BOOLEAN
    BY <1>1 DEF SubmitStagedSession, TypeOK
  <2> QED
    BY <1>1, <2>1, <2>2, <2>3 DEF SubmitStagedSession, TypeOK
<1>2. ASSUME NEW s \in SessionIds, MarkStagedSessionReady(t, s)
      PROVE  TypeInv'
  BY <1>2 DEF MarkStagedSessionReady, ReadSession, TypeOK, Labels, CallLabels
<1>3. ASSUME NEW s \in SessionIds, MarkStagedSessionSuccessful(t, s)
      PROVE  TypeInv'
  BY <1>3 DEF MarkStagedSessionSuccessful, ReadSession, TypeOK, Labels, CallLabels
<1>4. ASSUME NEW s \in SessionIds, AbortStagedSession(t, s)
      PROVE  TypeInv'
  BY <1>4 DEF AbortStagedSession, ReadSession, TypeOK, Labels, CallLabels
<1>5. CASE RevertActiveSessions(t)
  BY <1>5 DEF RevertActiveSessions, CallRevert, TypeOK, Labels, RevertLabels, CallLabels,
       Callers, ReturnOk
<1>6. CASE UnstagePackages(t)
  BY <1>6 DEF UnstagePackages, TypeOK, Labels, CallLabels
<1>7. CASE MarkBootCompleted(t)
  BY <1>7 DEF MarkBootCompleted, TypeOK
<1> QED
  BY <1>1, <1>2, <1>3, <1>4, <1>5, <1>6, <1>7 DEF Request

(* The threads that serve them.                                            *)
LEMMA BinderType ==
  ASSUME TypeInv, NEW t \in Threads, BinderStep(t)
  PROVE  TypeInv'
<1> USE DEF TypeInv, SessionKnown, WithSession, CallLabels,
          disk, vold, memory, locals, environment, history, At, Goto, Fault, Procs
<1>1. CASE DeleteBackup(t)
  BY <1>1 DEF DeleteBackup, TypeOK
<1>2. CASE DeleteBackupFails(t)
  BY <1>2 DEF DeleteBackupFails, TypeOK, Labels
<1>3. CASE BackupDeleted(t)
  BY <1>3 DEF BackupDeleted, TypeOK, Labels
<1>4. CASE LinkBackup(t)
  BY <1>4 DEF LinkBackup, TypeOK
<1>5. CASE LinkBackupFails(t)
  <2>1. faults' \in Nat
    BY <1>5 DEF LinkBackupFails, TypeOK
  <2> QED
    BY <1>5, <2>1 DEF LinkBackupFails, TypeOK, Labels
<1>6. CASE BackedUp(t)
  BY <1>6 DEF BackedUp, TypeOK, Labels
<1>7. CASE CreateVerifiedSession(t)
  BY <1>7 DEF CreateVerifiedSession, TypeOK, States, Labels
<1>8. CASE VerifyFails(t)
  BY <1>8 DEF VerifyFails, TypeOK, Labels
<1>9. CASE CommitReady(t)
  BY <1>9 DEF CommitReady, UpdateStateAndCommit, TypeOK, States, Labels
<1>10. CASE CommitSuccess(t)
  BY <1>10 DEF CommitSuccess, UpdateStateAndCommit, TypeOK, States, Labels
<1>11. CASE DeleteSession(t)
  BY <1>11 DEF DeleteSession, TypeOK, Labels
<1>12. CASE Revert(t)
  BY <1>12, RevertType
<1>13. CASE CommitSucceeds(t) \/ CommitFails(t) \/ OpenFails(t)
  BY <1>13, CommitType
<1> QED
  BY <1>1, <1>2, <1>3, <1>4, <1>5, <1>6, <1>7, <1>8, <1>9, <1>10, <1>11, <1>12, <1>13
  DEF BinderStep

LEMMA TypeInit == Init => TypeInv
<1> SUFFICES ASSUME Init PROVE TypeInv
  OBVIOUS
<1>1. pc \in [Procs -> Labels] /\ SessionKnown
  BY DEF Init, SessionKnown, WithSession, CallLabels, Labels
<1>2. caller \in [Procs -> Callers]
  BY DEF Init, Callers, ReturnOk
<1> QED
  BY <1>1, <1>2, InitActiveAssumption DEF Init, TypeInv, TypeOK, NoSession

LEMMA TypeNext == TypeInv /\ [Next]_vars => TypeInv'
<1> SUFFICES ASSUME TypeInv, [Next]_vars PROVE TypeInv'
  OBVIOUS
<1>1. CASE UNCHANGED vars
  BY <1>1 DEF vars, disk, vold, memory, locals, environment, history, TypeInv, TypeOK,
       SessionKnown, WithSession, CallLabels
<1>2. CASE MainStep
  BY <1>2, DeviceType, StagingType, ActivationType, RevertType, CommitType
  DEF MainStep, Procs
<1>3. ASSUME NEW t \in Threads, Request(t) \/ BinderStep(t)
      PROVE  TypeInv'
  BY <1>3, RequestType, BinderType
<1> QED
  BY <1>1, <1>2, <1>3, DeviceType, ActivationType DEF Next

(* Every variable keeps its type: in particular every state that is written *)
(* to a state file is the state of a session.                              *)
THEOREM TypeCorrect == Spec => []TypeOK
<1>1. TypeInv => TypeOK
  BY DEF TypeInv
<1> QED
  BY <1>1, TypeInit, TypeNext, PTL DEF Spec

-----------------------------------------------------------------------------
(* No package is ever left without an active APEX.  Once OnStart has tried  *)
(* to activate what it chose, either everything is active, or what is       *)
(* missing is what ActivateMissingApexes will add; RevertActiveSessions, on *)
(* its way from the one to the other, has to come back to its caller.       *)
AllActive == Packages = preMounted \cup PackagesOf(mounted)
ChosenTried == preMounted = Packages \ PackagesOf(Chosen) /\ mounted \subseteq Chosen

Booted == {"publish", "waitCrash", "waitBoot", "cleanup", "cleanupFiles", "cleanupSessions",
           "idle"}
NotYetTried == {"off", "start", "scan", "next", "stage", "unstage", "removeOld", "collect",
                "resume", "activate", "reboot"}

MarksOnlyAtMark ==
  write[Main] # NoWrite /\ write[Main].state = "REVERT_IN_PROGRESS" => pc[Main] = "mark"

ActiveInv ==
  /\ pc[Main] \in Booted => AllActive
  /\ pc[Main] = "fallback" => ChosenTried
  /\ pc[Main] \in RevertLabels =>
       /\ caller[Main] # "idle"
       /\ caller[Main] = "activate" => ChosenTried
       /\ caller[Main] = "waitCrash" => AllActive
  /\ MarksOnlyAtMark

LEMMA ActiveFrame ==
  ASSUME ActiveInv, UNCHANGED <<repo, mounted, preMounted>>, pc'[Main] = pc[Main],
         caller'[Main] = caller[Main],
         \/ write'[Main] = write[Main]
         \/ write'[Main] = NoWrite
         \/ write'[Main].state # "REVERT_IN_PROGRESS"
         \/ pc[Main] = "mark"
  PROVE  ActiveInv'
BY DEF ActiveInv, AllActive, ChosenTried, MarksOnlyAtMark, Chosen, PackagesOf

LEMMA ActiveNotYet ==
  ASSUME pc'[Main] \in NotYetTried,
         write'[Main] = NoWrite \/ write'[Main].state # "REVERT_IN_PROGRESS"
  PROVE  ActiveInv'
BY DEF ActiveInv, NotYetTried, MarksOnlyAtMark, Booted, RevertLabels

(* Returning from RevertActiveSessions, in the main thread.                 *)
LEMMA ActiveReturn ==
  ASSUME ActiveInv, TypeOK, UNCHANGED <<repo, mounted, preMounted>>, pc[Main] \in RevertLabels,
         pc'[Main] \in {ReturnOk[caller[Main]], ReturnError[caller[Main]]},
         caller'[Main] = caller[Main], write'[Main] = NoWrite
  PROVE  ActiveInv'
<1>1. caller[Main] \in {"start", "resume", "activate", "waitCrash"}
  BY DEF ActiveInv, TypeOK, Callers, ReturnOk, Procs
<1>2. CASE caller[Main] \in {"start", "resume"}
  BY <1>2, ActiveNotYet DEF ReturnOk, ReturnError, NotYetTried
<1>3. CASE caller[Main] = "activate"
  BY <1>3 DEF ActiveInv, ReturnOk, ReturnError, AllActive, ChosenTried, MarksOnlyAtMark,
       Chosen, PackagesOf, Booted, RevertLabels
<1>4. CASE caller[Main] = "waitCrash"
  BY <1>4 DEF ActiveInv, ReturnOk, ReturnError, AllActive, ChosenTried, MarksOnlyAtMark,
       Chosen, PackagesOf, Booted, RevertLabels
<1> QED
  BY <1>1, <1>2, <1>3, <1>4

LEMMA ActiveRevert ==
  ASSUME ActiveInv, TypeOK,
         Revert(Main) \/ CommitSucceeds(Main) \/ CommitFails(Main) \/ OpenFails(Main)
  PROVE  ActiveInv'
<1> USE DEF disk, vold, memory, locals, At, Goto, Visit, Procs
<1>1. CASE FindActiveSessions(Main)
  <2>1. CASE ActiveSessions = {}
    BY <1>1, <2>1, ActiveReturn DEF FindActiveSessions, TypeOK, RevertLabels
  <2>2. CASE ActiveSessions # {}
    BY <1>1, <2>2 DEF FindActiveSessions, TypeOK, ActiveInv, AllActive, ChosenTried,
         MarksOnlyAtMark, Chosen, PackagesOf, Booted, RevertLabels
  <2> QED
    BY <2>1, <2>2
<1>2. CASE MarkRevertInProgress(Main)
  BY <1>2, ActiveFrame DEF MarkRevertInProgress
<1>3. CASE FinishRevert(Main)
  <2>1. write'[Main].state # "REVERT_IN_PROGRESS"
    BY <1>3 DEF FinishRevert, UpdateStateAndCommit, TypeOK
  <2> QED
    BY <1>3, <2>1, ActiveFrame DEF FinishRevert
<1>4. CASE ReturnFromRevert(Main)
  BY <1>4, ActiveReturn DEF ReturnFromRevert, TypeOK, RevertLabels
<1>5. CASE DeleteActive(Main)
  BY <1>5, ActiveFrame DEF DeleteActive
<1>6. CASE \/ AllMarked(Main) \/ CheckBackup(Main) \/ ActiveIsEmpty(Main)
           \/ RenameBackup(Main) \/ RestoreFails(Main)
  <2>1. /\ pc[Main] \in RevertLabels /\ pc'[Main] \in RevertLabels
        /\ write'[Main] = NoWrite /\ UNCHANGED <<repo, mounted, preMounted, caller>>
    BY <1>6 DEF AllMarked, CheckBackup, ActiveIsEmpty, RenameBackup, RestoreFails, TypeOK,
         RevertLabels
  <2> QED
    BY <2>1 DEF ActiveInv, AllActive, ChosenTried, MarksOnlyAtMark, Chosen, PackagesOf,
         Booted, RevertLabels
<1>7. CASE CommitSucceeds(Main)
  BY <1>7, ActiveFrame DEF CommitSucceeds, TypeOK
<1>8. CASE CommitFails(Main)
  <2>1. write'[Main] = NoWrite
    BY <1>8 DEF CommitFails, TypeOK
  <2>2. CASE write[Main].state = "REVERT_IN_PROGRESS" /\ GiveUpRevert(Main)
    <3>1. pc[Main] \in RevertLabels
      BY <1>8, <2>2 DEF CommitFails, ActiveInv, MarksOnlyAtMark, RevertLabels
    <3> QED
      BY <1>8, <2>1, <2>2, <3>1, ActiveReturn DEF CommitFails, GiveUpRevert, TypeOK
  <2>3. CASE UNCHANGED pc
    BY <1>8, <2>1, <2>3, ActiveFrame DEF CommitFails
  <2> QED
    BY <1>8, <2>2, <2>3 DEF CommitFails
<1>9. CASE MarkOpenFails(Main)
  BY <1>9, ActiveReturn DEF MarkOpenFails, GiveUpRevert, TypeOK, RevertLabels
<1>10. CASE FinishOpenFails(Main)
  BY <1>10, ActiveFrame DEF FinishOpenFails
<1>11. CASE OpenFails(Main)
  <2>1. pc'[Main] = "next" /\ write'[Main] = NoWrite
    BY <1>11 DEF OpenFails, TypeOK
  <2> QED
    BY <2>1, ActiveNotYet DEF NotYetTried
<1> QED
  BY <1>1, <1>2, <1>3, <1>4, <1>5, <1>6, <1>7, <1>8, <1>9, <1>10, <1>11 DEF Revert

(* A step of another process leaves the main thread where it is.            *)
LEMMA ActiveThread ==
  ASSUME ActiveInv, TypeOK, NEW t \in Threads, Request(t) \/ BinderStep(t)
  PROVE  ActiveInv'
<1>1. t # Main /\ t \in Procs /\ Main \in Procs
  BY MainAssumption DEF Procs
<1> USE DEF disk, vold, memory, locals, environment, At, Goto, Visit
<1> SUFFICES /\ UNCHANGED <<repo, mounted, preMounted>>
             /\ pc'[Main] = pc[Main] /\ caller'[Main] = caller[Main]
             /\ write'[Main] = write[Main]
  BY ActiveFrame
<1>2. CASE Request(t)
  BY <1>1, <1>2 DEF Request, SubmitStagedSession, MarkStagedSessionReady,
       MarkStagedSessionSuccessful, AbortStagedSession, ReadSession, Serve,
       RevertActiveSessions, CallRevert, UnstagePackages, MarkBootCompleted, TypeOK
<1>3. CASE Revert(t)
  BY <1>1, <1>3 DEF Revert, FindActiveSessions, MarkRevertInProgress, MarkOpenFails, GiveUpRevert,
     AllMarked, CheckBackup,
       DeleteActive, ActiveIsEmpty, RenameBackup, RestoreFails, FinishRevert, FinishOpenFails,
       ReturnFromRevert, UpdateStateAndCommit, TypeOK
<1>4. CASE CommitSucceeds(t) \/ CommitFails(t) \/ OpenFails(t)
  BY <1>1, <1>4 DEF CommitSucceeds, CommitFails, GiveUpRevert, OpenFails, TypeOK
<1>5. CASE \/ DeleteBackup(t) \/ DeleteBackupFails(t) \/ BackupDeleted(t)
           \/ LinkBackup(t) \/ LinkBackupFails(t) \/ BackedUp(t)
  BY <1>1, <1>5 DEF DeleteBackup, DeleteBackupFails, BackupDeleted, LinkBackup,
       LinkBackupFails, BackedUp, TypeOK
<1>6. CASE \/ CreateVerifiedSession(t) \/ VerifyFails(t) \/ CommitReady(t)
           \/ CommitSuccess(t) \/ DeleteSession(t)
  BY <1>1, <1>6 DEF CreateVerifiedSession, VerifyFails, CommitReady, CommitSuccess,
       DeleteSession, UpdateStateAndCommit, TypeOK
<1> QED
  BY <1>2, <1>3, <1>4, <1>5, <1>6 DEF BinderStep

(* The device; vold leaves the main thread where it is.                     *)
LEMMA ActiveDevice ==
  ASSUME ActiveInv, TypeOK, Boot \/ PowerLoss \/ Reboot \/ StartCheckpoint \/ CommitChanges
  PROVE  ActiveInv'
<1>1. Main \in Procs
  BY DEF Procs
<1>2. CASE StartCheckpoint \/ CommitChanges
  BY <1>2, ActiveFrame DEF StartCheckpoint, CommitChanges, memory, locals
<1>3. CASE PowerLoss \/ Reboot
  BY <1>1, <1>3, ActiveNotYet DEF PowerLoss, Reboot, PowerOff, NotYetTried
<1>4. CASE Boot
  <2>1. pc'[Main] = "start" /\ write' = write
    BY <1>1, <1>4 DEF Boot, Goto, locals, TypeOK
  <2>2. write[Main] = NoWrite \/ write[Main].state # "REVERT_IN_PROGRESS"
    BY <1>4 DEF Boot, ActiveInv, MarksOnlyAtMark
  <2> QED
    BY <2>1, <2>2, ActiveNotYet DEF NotYetTried
<1> QED
  BY <1>2, <1>3, <1>4

(* ScanStagedSessionsDirAndStage comes before anything is activated.        *)
LEMMA ActiveStaging ==
  ASSUME ActiveInv, TypeOK,
         \/ ScanStagedSessionsDir \/ RejectSession \/ AcceptSession
         \/ LinkStaged \/ LinkFails \/ UnlinkStaged \/ UnlinkStagedFails \/ AllLinked
         \/ UnlinkSuperseded \/ SupersedeFails \/ SessionStaged \/ SessionFails \/ AllStaged
         \/ CollectDataApexes
  PROVE  ActiveInv'
<1>1. Main \in Procs
  BY DEF Procs
<1> USE DEF disk, vold, memory, locals, environment, At, Goto, Visit
<1>2. CASE \/ ScanStagedSessionsDir \/ RejectSession \/ AcceptSession \/ LinkStaged \/ LinkFails
           \/ UnlinkStaged \/ UnlinkStagedFails \/ AllLinked \/ UnlinkSuperseded
           \/ SupersedeFails \/ AllStaged \/ CollectDataApexes
  <2>1. pc'[Main] \in NotYetTried
    BY <1>1, <1>2 DEF ScanStagedSessionsDir, RejectSession, AcceptSession, LinkStaged,
         LinkFails, UnlinkStaged, UnlinkStagedFails, AllLinked, UnlinkSuperseded, SupersedeFails,
         AllStaged, CollectDataApexes, TypeOK, NotYetTried
  <2>2. write'[Main] = NoWrite
    BY <1>1, <1>2 DEF ScanStagedSessionsDir, RejectSession, AcceptSession, LinkStaged,
         LinkFails, UnlinkStaged, UnlinkStagedFails, AllLinked, UnlinkSuperseded, SupersedeFails,
         AllStaged, CollectDataApexes, TypeOK
  <2> QED
    BY <2>1, <2>2, ActiveNotYet
<1>3. CASE SessionStaged \/ SessionFails
  <2>1. pc'[Main] \in NotYetTried
    BY <1>1, <1>3 DEF SessionStaged, SessionFails, FinishSession, TypeOK, NotYetTried
  <2>2. write'[Main].state # "REVERT_IN_PROGRESS"
    BY <1>1, <1>3 DEF SessionStaged, SessionFails, FinishSession, UpdateStateAndCommit, TypeOK
  <2> QED
    BY <2>1, <2>2, ActiveNotYet
<1> QED
  BY <1>2, <1>3

(* Asking for a revert: nothing is due until it returns, except after       *)
(* ActivateApexPackages and in WaitForBootStatus.                           *)
LEMMA ActiveCalls ==
  ASSUME ActiveInv, TypeOK,
         AskNeedsRollback \/ ResumeRevertIfNeeded \/ ActivatePackages \/ UpdatableCrashing
  PROVE  ActiveInv'
<1>1. Main \in Procs /\ write'[Main] = NoWrite
  BY DEF Procs, At, AskNeedsRollback, ResumeRevertIfNeeded, ActivatePackages,
     UpdatableCrashing
<1> USE DEF disk, vold, memory, At, Goto, CallRevert
<1>2. CASE AskNeedsRollback \/ ResumeRevertIfNeeded
  <2>1. \/ pc'[Main] \in NotYetTried
        \/ pc'[Main] = "revert" /\ caller'[Main] \in {"start", "resume"}
    BY <1>1, <1>2 DEF AskNeedsRollback, ResumeRevertIfNeeded, TypeOK, NotYetTried
  <2>2. CASE pc'[Main] \in NotYetTried
    BY <1>1, <2>2, ActiveNotYet
  <2>3. CASE pc'[Main] = "revert" /\ caller'[Main] \in {"start", "resume"}
    BY <1>1, <2>3 DEF ActiveInv, MarksOnlyAtMark, Booted
  <2> QED
    BY <2>1, <2>2, <2>3
<1>3. CASE ActivatePackages
  <2>1. ChosenTried'
    BY <1>3 DEF ActivatePackages, ChosenTried, Chosen, PackagesOf
  <2>2. \/ pc'[Main] = "publish" /\ mounted' = Chosen
        \/ pc'[Main] = "revert" /\ caller'[Main] = "activate"
    BY <1>1, <1>3 DEF ActivatePackages, TypeOK
  <2>3. CASE pc'[Main] = "publish" /\ mounted' = Chosen
    <3>1. AllActive'
      BY <1>3, <2>3 DEF ActivatePackages, AllActive, Chosen, PackagesOf, TypeOK, Apexes
    <3> QED
      BY <1>1, <2>3, <3>1 DEF ActiveInv, MarksOnlyAtMark, RevertLabels
  <2>4. CASE pc'[Main] = "revert" /\ caller'[Main] = "activate"
    BY <1>1, <2>1, <2>4 DEF ActiveInv, MarksOnlyAtMark, Booted
  <2> QED
    BY <2>2, <2>3, <2>4
<1>4. CASE UpdatableCrashing
  <2>1. pc'[Main] = "revert" /\ caller'[Main] = "waitCrash"
    BY <1>1, <1>4 DEF UpdatableCrashing, TypeOK
  <2>2. AllActive'
    BY <1>4 DEF UpdatableCrashing, ActiveInv, Booted, AllActive, PackagesOf
  <2> QED
    BY <1>1, <2>1, <2>2 DEF ActiveInv, MarksOnlyAtMark, Booted
<1> QED
  BY <1>2, <1>3, <1>4

(* ActivateMissingApexes, and what follows it in the main thread.           *)
LEMMA ActiveBooted ==
  ASSUME ActiveInv, TypeOK,
         \/ ActivateMissing \/ Publish \/ SeeBootCompleted \/ ListDataApexes
         \/ RemoveInactiveDataApex \/ ListFinalizedSessions \/ DeleteFinalizedSession
         \/ JoinThreadPool
  PROVE  ActiveInv'
<1> USE DEF disk, vold, memory, locals, At, Goto, Visit
<1>1. Main \in Procs /\ write'[Main] = NoWrite
  BY DEF Procs, ActivateMissing, Publish, SeeBootCompleted, ListDataApexes,
     RemoveInactiveDataApex, ListFinalizedSessions, DeleteFinalizedSession, JoinThreadPool
<1>2. pc'[Main] \in Booted
  BY <1>1 DEF ActivateMissing, Publish, SeeBootCompleted, ListDataApexes,
     RemoveInactiveDataApex, ListFinalizedSessions, DeleteFinalizedSession, JoinThreadPool,
     Booted, TypeOK
<1>3. AllActive'
  <2>1. CASE ActivateMissing
    BY <2>1 DEF ActivateMissing, ActiveInv, ChosenTried, AllActive, Chosen, PackagesOf, TypeOK,
         Apexes
  <2>2. CASE ~ActivateMissing
    BY <2>2 DEF Publish, SeeBootCompleted, ListDataApexes, RemoveInactiveDataApex,
         ListFinalizedSessions, DeleteFinalizedSession, JoinThreadPool, ActiveInv, Booted,
         AllActive, PackagesOf
  <2> QED
    BY <2>1, <2>2
<1> QED
  BY <1>1, <1>2, <1>3 DEF ActiveInv, MarksOnlyAtMark, Booted, RevertLabels

LEMMA ActiveInit == Init => ActiveInv
BY DEF Init, ActiveInv, MarksOnlyAtMark, Booted, RevertLabels, Procs

LEMMA ActiveNext == TypeInv /\ ActiveInv /\ [Next]_vars => ActiveInv'
<1> SUFFICES ASSUME TypeOK, ActiveInv, [Next]_vars PROVE ActiveInv'
  BY DEF TypeInv
<1>1. CASE UNCHANGED vars
  BY <1>1, ActiveFrame DEF vars, memory, locals
<1>2. CASE MainStep
  BY <1>2, ActiveDevice, ActiveStaging, ActiveCalls, ActiveBooted, ActiveRevert DEF MainStep
<1>3. ASSUME NEW t \in Threads, Request(t) \/ BinderStep(t)
      PROVE  ActiveInv'
  BY <1>3, ActiveThread
<1> QED
  BY <1>1, <1>2, <1>3, ActiveDevice, ActiveCalls DEF Next

(* Whatever fails to activate, and whatever fails when reverting for it:    *)
(* from the moment apexd publishes its service every package is active.     *)
THEOREM EveryPackageIsActive == Spec => []EveryPackageActive
<1>1. ActiveInv => EveryPackageActive
  BY DEF ActiveInv, AllActive, EveryPackageActive, Booted
<1> QED
  BY <1>1, TypeInit, TypeNext, ActiveInit, ActiveNext, PTL DEF Spec

-----------------------------------------------------------------------------
(* From here on, where the clients and the main thread take turns            *)
(* (~Overlap): what a revert has taken up is never staged again, and final   *)
(* states are final.  For a client that submits one session at a time, and   *)
(* on devices without checkpoints, the backup is intact until it is due, and *)
(* a revert restores it.                                                    *)

Waiting == {"off", "idle", "waitCrash", "waitBoot"}
Busy(p) == pc[p] \notin Waiting \/ write[p] # NoWrite

(* Where the clients and the main thread take turns, one process at a time  *)
(* is in the middle of something, and none while the device is off.         *)
OneBusy == \A p, q \in Procs : Busy(p) /\ Busy(q) => p = q
OffTogether == pc[Main] = "off" => \A p \in Procs : pc[p] = "off" /\ write[p] = NoWrite
TurnInv == ~Overlap => OneBusy /\ OffTogether

-----------------------------------------------------------------------------
(* What a process relies on while it works.                                 *)

(* Sessions that no revert has taken up, and those that one will take up.   *)
OpenStates == {"VERIFIED", "STAGED", "ACTIVATED"}
ActiveStates == OpenStates \cup {"REVERT_IN_PROGRESS"}
Submitting == {"backup", "link", "discard", "verify"}
Restoring == {"restore", "empty", "rename", "done", "fail"}

(* The state it has read is still the state of the session it works on.     *)
SessionHeld(p) ==
  /\ pc[p] \in Submitting =>
       /\ session[p] \in allocated \ reverted
       /\ sessionState[session[p]] = "none"
  /\ pc[p] = "ready" => sessionState[session[p]] = "VERIFIED"
  /\ pc[p] = "confirm" => sessionState[session[p]] = "ACTIVATED"
  /\ pc[p] = "abort" => sessionState[session[p]] \in {"VERIFIED", "STAGED"}
  /\ pc[p] \in {"stage", "unstage", "removeOld"} =>
       sessionState[session[p]] \in {"STAGED", "ACTIVATED"}

(* So are the states of the sessions its loop has still to visit; and        *)
(* RevertActiveSessions has truncated the file of all it has visited.       *)
TodoHeld(p) ==
  /\ pc[p] \in {"next", "stage", "unstage", "removeOld"} =>
       \A s \in todo[p] : sessionState[s] \in {"STAGED", "ACTIVATED"}
  /\ pc[p] \in {"stage", "unstage", "removeOld"} => session[p] \notin todo[p]
  /\ pc[p] = "mark" =>
       /\ SessionsInState(OpenStates) \subseteq todo[p]
       /\ \A s \in todo[p] : sessionState[s] \in ActiveStates
       /\ \A s \in reverting[p] \ todo[p] : sessionState[s] \in {"REVERT_IN_PROGRESS", "UNKNOWN"}
  /\ pc[p] \in Restoring =>
       /\ SessionsInState(OpenStates) = {}
       /\ \A s \in todo[p] : sessionState[s] \in {"REVERT_IN_PROGRESS", "UNKNOWN"}
  /\ pc[p] \in {"mark"} \cup Restoring => todo[p] \subseteq reverting[p]

(* A state file it has truncated reads as UNKNOWN until it is written.      *)
WriteHeld(p) ==
  write[p] # NoWrite =>
    /\ pc[p] \in {"next", "mark", "done", "fail", "idle"}
    /\ sessionState[write[p].id] = "UNKNOWN"
    /\ write[p].state \in OpenStates => write[p].id \notin reverted
    /\ pc[p] = "mark" => write[p].state = "REVERT_IN_PROGRESS"
    /\ pc[p] \in {"done", "fail"} =>
         write[p].state \notin OpenStates /\ write[p].id \notin todo[p]

Held(p) == SessionHeld(p) /\ TodoHeld(p) /\ WriteHeld(p)

(* A session that a revert has taken up is never open again.                *)
NeverReopened ==
  /\ SessionsInState(OpenStates) \cap reverted = {}
  /\ \A s \in SessionIds \ allocated : sessionState[s] = "none" /\ s \notin reverted

HeldInv == ~Overlap => NeverReopened /\ \A p \in Procs : Held(p)


(* Who acts is the only one in the middle of something.                     *)
LEMMA OthersWait ==
  ASSUME ~Overlap, TurnInv, NEW p \in Procs, Busy(p) \/ Alone(p)
  PROVE  \A q \in Procs \ {p} : ~Busy(q)
BY DEF TurnInv, OneBusy, Alone, Busy, Waiting

OthersStay(p) == \A q \in Procs \ {p} : pc'[q] = pc[q] /\ write'[q] = write[q]

LEMMA TurnKept ==
  ASSUME TurnInv, NEW p \in Procs, ~Overlap => Busy(p) \/ Alone(p), OthersStay(p),
         pc[p] # "off" \/ write[p] # NoWrite, pc'[p] # "off"
  PROVE  TurnInv' /\ (~Overlap => \A q \in Procs \ {p} : ~Busy(q)')
<1> SUFFICES ASSUME ~Overlap
             PROVE  OneBusy' /\ OffTogether' /\ \A q \in Procs \ {p} : ~Busy(q)'
  BY DEF TurnInv
<1>1. \A q \in Procs \ {p} : ~Busy(q)'
  BY OthersWait DEF OthersStay, Busy
<1>2. pc'[Main] # "off"
  BY DEF OthersStay, TurnInv, OffTogether, Procs
<1> QED
  BY <1>1, <1>2 DEF OneBusy, OffTogether

(* One step of one process, other than switching the device off or letting  *)
(* the binder threads start.                                                *)
RevertStep(p) == Revert(p) \/ CommitSucceeds(p) \/ CommitFails(p) \/ OpenFails(p)

StagingStep ==
  \/ AskNeedsRollback \/ ScanStagedSessionsDir \/ RejectSession \/ AcceptSession
  \/ LinkStaged \/ LinkFails \/ UnlinkStaged \/ UnlinkStagedFails \/ AllLinked
  \/ UnlinkSuperseded \/ SupersedeFails \/ SessionStaged \/ SessionFails \/ AllStaged

BootStep ==
  \/ CollectDataApexes \/ ResumeRevertIfNeeded \/ ActivatePackages \/ ActivateMissing
  \/ UpdatableCrashing \/ SeeBootCompleted \/ ListDataApexes \/ RemoveInactiveDataApex
  \/ ListFinalizedSessions \/ DeleteFinalizedSession \/ JoinThreadPool

BackupStep(t) ==
  \/ DeleteBackup(t) \/ DeleteBackupFails(t) \/ BackupDeleted(t)
  \/ LinkBackup(t) \/ LinkBackupFails(t) \/ BackedUp(t)

SessionStep(t) ==
  \/ CreateVerifiedSession(t) \/ VerifyFails(t)
  \/ CommitReady(t) \/ CommitSuccess(t) \/ DeleteSession(t)

(* What every step of a process p has in common.                            *)
Acts(p) ==
  /\ ~Overlap => Busy(p) \/ Alone(p)
  /\ OthersStay(p)
  /\ pc[p] # "off" \/ write[p] # NoWrite
  /\ pc'[p] # "off"

LEMMA ReturnsWithinBoot ==
  \A c \in Callers : ReturnOk[c] # "off" /\ ReturnError[c] # "off"
BY DEF Callers, ReturnOk, ReturnError

LEMMA RevertActs ==
  ASSUME TypeOK, NEW p \in Procs, pc[p] # "off", RevertStep(p)
  PROVE  Acts(p)
<1> USE ReturnsWithinBoot DEF Acts, OthersStay, At, Goto, locals, Busy, Waiting, TypeOK
<1>1. CASE FindActiveSessions(p) \/ AllMarked(p) \/ CheckBackup(p) \/ DeleteActive(p)
  BY <1>1 DEF FindActiveSessions, AllMarked, CheckBackup, DeleteActive
<1>2. CASE ActiveIsEmpty(p) \/ RenameBackup(p) \/ RestoreFails(p) \/ ReturnFromRevert(p)
  BY <1>2 DEF ActiveIsEmpty, RenameBackup, RestoreFails, ReturnFromRevert
<1>3. CASE MarkRevertInProgress(p) \/ FinishRevert(p)
  BY <1>3 DEF MarkRevertInProgress, FinishRevert, UpdateStateAndCommit
<1>4. CASE CommitSucceeds(p) \/ CommitFails(p)
  BY <1>4 DEF CommitSucceeds, CommitFails, GiveUpRevert
<1>5. CASE MarkOpenFails(p) \/ FinishOpenFails(p) \/ OpenFails(p)
  BY <1>5 DEF MarkOpenFails, GiveUpRevert, FinishOpenFails, OpenFails
<1> QED
  BY <1>1, <1>2, <1>3, <1>4, <1>5 DEF RevertStep, Revert

LEMMA StagingActs ==
  ASSUME TypeOK, StagingStep
  PROVE  Acts(Main)
<1> USE DEF Acts, OthersStay, At, Goto, locals, Busy, Waiting, TypeOK, Procs
<1>1. CASE \/ AskNeedsRollback \/ ScanStagedSessionsDir \/ RejectSession \/ AcceptSession
           \/ LinkStaged \/ LinkFails \/ UnlinkStaged \/ UnlinkStagedFails \/ AllLinked
           \/ UnlinkSuperseded \/ SupersedeFails \/ AllStaged
  BY <1>1 DEF AskNeedsRollback, CallRevert, ScanStagedSessionsDir, RejectSession, AcceptSession,
       LinkStaged, LinkFails, UnlinkStaged, UnlinkStagedFails, AllLinked, UnlinkSuperseded,
       SupersedeFails, AllStaged
<1>2. CASE SessionStaged \/ SessionFails
  BY <1>2 DEF SessionStaged, SessionFails, FinishSession, UpdateStateAndCommit
<1> QED
  BY <1>1, <1>2 DEF StagingStep

LEMMA BootActs ==
  ASSUME TypeOK, BootStep
  PROVE  Acts(Main)
<1> USE DEF Acts, OthersStay, At, Goto, locals, Busy, Waiting, TypeOK, Procs
<1>1. CASE \/ CollectDataApexes \/ ResumeRevertIfNeeded \/ ActivatePackages \/ ActivateMissing
           \/ UpdatableCrashing \/ SeeBootCompleted
  BY <1>1 DEF CollectDataApexes, ResumeRevertIfNeeded, CallRevert, ActivatePackages,
       ActivateMissing, UpdatableCrashing, SeeBootCompleted
<1>2. CASE \/ ListDataApexes \/ RemoveInactiveDataApex \/ ListFinalizedSessions
           \/ DeleteFinalizedSession \/ JoinThreadPool
  BY <1>2 DEF ListDataApexes, RemoveInactiveDataApex, ListFinalizedSessions,
       DeleteFinalizedSession, JoinThreadPool
<1> QED
  BY <1>1, <1>2 DEF BootStep

LEMMA RequestActs ==
  ASSUME TypeOK, NEW t \in Threads, Request(t)
  PROVE  Acts(t)
<1> USE DEF Acts, OthersStay, At, Goto, locals, Busy, Waiting, TypeOK, Procs
<1> QED
  BY DEF Request, SubmitStagedSession, MarkStagedSessionReady, MarkStagedSessionSuccessful,
     AbortStagedSession, ReadSession, Serve, RevertActiveSessions, CallRevert,
     UnstagePackages, MarkBootCompleted

LEMMA BinderActs ==
  ASSUME TypeOK, NEW t \in Threads, BackupStep(t) \/ SessionStep(t)
  PROVE  Acts(t)
<1> USE DEF Acts, OthersStay, At, Goto, locals, Busy, Waiting, TypeOK, Procs
<1>1. CASE BackupStep(t)
  BY <1>1 DEF BackupStep, DeleteBackup, DeleteBackupFails, BackupDeleted, LinkBackup,
       LinkBackupFails, BackedUp
<1>2. CASE SessionStep(t)
  BY <1>2 DEF SessionStep, CreateVerifiedSession, VerifyFails, CommitReady, CommitSuccess,
       DeleteSession, UpdateStateAndCommit
<1> QED
  BY <1>1, <1>2

-----------------------------------------------------------------------------
(* A process in the middle of nothing relies on nothing: what has to be      *)
(* shown of a step is shown of the process that takes it.                   *)
LEMMA HeldWaiting ==
  ASSUME NEW q \in Procs
  PROVE  (~Busy(q) => Held(q)) /\ (~Busy(q)' => Held(q)')
BY DEF Busy, Waiting, Held, SessionHeld, TodoHeld, WriteHeld, Submitting, Restoring

LEMMA HeldKept ==
  ASSUME ~Overlap, TurnInv, NEW p \in Procs, Acts(p), NeverReopened', Held(p)'
  PROVE  TurnInv' /\ HeldInv'
<1>1. TurnInv' /\ \A q \in Procs \ {p} : ~Busy(q)'
  BY TurnKept DEF Acts
<1>2. \A q \in Procs : Held(q)'
  BY <1>1, HeldWaiting
<1> QED
  BY <1>1, <1>2 DEF HeldInv

(* RevertActiveSessions.                                                   *)
LEMMA RevertHeld ==
  ASSUME TypeInv, NeverReopened, NEW p \in Procs, Held(p), RevertStep(p)
  PROVE  NeverReopened' /\ Held(p)'
<1> USE DEF At, Goto, Visit, disk, vold, memory, locals, environment, history, TypeInv, TypeOK,
          NeverReopened, SessionsInState, OpenStates, ActiveStates,
          Held, SessionHeld, TodoHeld, WriteHeld, Submitting, Restoring
<1>1. CASE FindActiveSessions(p)
  BY <1>1 DEF FindActiveSessions, ActiveSessions, States, FinalStates, ReturnError, Callers,
       ReturnOk
<1>2. CASE MarkRevertInProgress(p)
  <2>1. PICK s \in todo[p] : UpdateStateAndCommit(p, s, "REVERT_IN_PROGRESS")
                             /\ Visit(p, s) /\ reverted' = reverted \cup {s}
    BY <1>2 DEF MarkRevertInProgress
  <2>2. s \in SessionIds /\ sessionState[s] \in ActiveStates /\ pc[p] = "mark" /\ write[p] = NoWrite
    BY <1>2 DEF MarkRevertInProgress
  <2>3. /\ sessionState'[s] = "UNKNOWN"
        /\ \A u \in SessionIds \ {s} : sessionState'[u] = sessionState[u]
    BY <2>1, <2>2 DEF UpdateStateAndCommit
  <2>4. /\ pc' = pc /\ reverting' = reverting /\ session' = session /\ allocated' = allocated
        /\ todo'[p] = todo[p] \ {s}
        /\ write'[p] = [id |-> s, state |-> "REVERT_IN_PROGRESS"] /\ write'[p] # NoWrite
    BY <1>2, <2>1, <2>2 DEF MarkRevertInProgress, UpdateStateAndCommit, NoWrite
  <2>5. NeverReopened'
    BY <2>1, <2>2, <2>3, <2>4
  <2>6. TodoHeld(p)'
    BY <2>1, <2>2, <2>3, <2>4
  <2> QED
    BY <2>2, <2>3, <2>4, <2>5, <2>6
<1>3. CASE AllMarked(p)
  BY <1>3 DEF AllMarked
<1>4. CASE CheckBackup(p) \/ DeleteActive(p) \/ ActiveIsEmpty(p)
  BY <1>4 DEF CheckBackup, DeleteActive, ActiveIsEmpty
<1>5. CASE RenameBackup(p) \/ RestoreFails(p)
  BY <1>5 DEF RenameBackup, RestoreFails
<1>6. CASE FinishRevert(p)
  BY <1>6 DEF FinishRevert, UpdateStateAndCommit
<1>7. CASE ReturnFromRevert(p)
  BY <1>7 DEF ReturnFromRevert, ReturnError, Callers, ReturnOk
<1>8. CASE CommitSucceeds(p)
  <2>1. write[p] # NoWrite /\ write[p].id \in SessionIds /\ sessionState[write[p].id] = "UNKNOWN"
    BY <1>8 DEF CommitSucceeds
  <2>2. /\ sessionState'[write[p].id] = write[p].state
        /\ \A u \in SessionIds \ {write[p].id} : sessionState'[u] = sessionState[u]
        /\ write'[p] = NoWrite
    BY <1>8, <2>1 DEF CommitSucceeds
  <2>3. UNCHANGED <<pc, todo, reverting, session, allocated, reverted>>
    BY <1>8 DEF CommitSucceeds
  <2>4. pc[p] \in {"next", "mark", "done", "fail", "idle"}
    BY <2>1
  <2>5. NeverReopened'
    BY <2>1, <2>2, <2>3
  <2>6. TodoHeld(p)'
    BY <2>1, <2>2, <2>3, <2>4
  <2> QED
    BY <2>2, <2>3, <2>4, <2>5, <2>6
<1>9. CASE CommitFails(p)
  <2>1. CASE GiveUpRevert(p)
    BY <1>9, <2>1 DEF CommitFails, GiveUpRevert, ReturnError, Callers, ReturnOk
  <2>2. CASE UNCHANGED pc
    BY <1>9, <2>2 DEF CommitFails
  <2> QED
    BY <1>9, <2>1, <2>2 DEF CommitFails
<1>10. CASE MarkOpenFails(p)
  BY <1>10 DEF MarkOpenFails, GiveUpRevert, ReturnError, Callers, ReturnOk
<1>11. CASE FinishOpenFails(p)
  BY <1>11 DEF FinishOpenFails
<1>12. CASE OpenFails(p)
  BY <1>12 DEF OpenFails
<1> QED
  BY <1>1, <1>2, <1>3, <1>4, <1>5, <1>6, <1>7, <1>8, <1>9, <1>10, <1>11, <1>12
  DEF RevertStep, Revert

(* OnStart, up to the end of ScanStagedSessionsDirAndStage.                 *)
LEMMA StagingHeld ==
  ASSUME TypeInv, NeverReopened, Held(Main), StagingStep
  PROVE  NeverReopened' /\ Held(Main)'
<1> USE DEF At, Goto, Visit, disk, vold, memory, locals, environment, history, TypeInv, TypeOK,
          NeverReopened, SessionsInState, OpenStates, ActiveStates, Procs,
          Held, SessionHeld, TodoHeld, WriteHeld, Submitting, Restoring
<1>1. CASE AskNeedsRollback \/ ScanStagedSessionsDir
  BY <1>1 DEF AskNeedsRollback, CallRevert, ScanStagedSessionsDir, SessionsToActivate
<1>2. CASE RejectSession
  BY <1>2 DEF RejectSession
<1>3. CASE AcceptSession
  BY <1>3 DEF AcceptSession
<1>4. CASE \/ LinkStaged \/ LinkFails \/ UnlinkStaged \/ UnlinkStagedFails \/ AllLinked
           \/ UnlinkSuperseded \/ SupersedeFails
  BY <1>4 DEF LinkStaged, LinkFails, UnlinkStaged, UnlinkStagedFails, AllLinked,
       UnlinkSuperseded, SupersedeFails
<1>5. CASE SessionStaged \/ SessionFails
  <2>1. session[Main] \in SessionIds
    BY <1>5 DEF SessionStaged, SessionFails, SessionKnown, WithSession
  <2> QED
    BY <1>5, <2>1 DEF SessionStaged, SessionFails, FinishSession, UpdateStateAndCommit
<1>6. CASE AllStaged
  BY <1>6 DEF AllStaged
<1> QED
  BY <1>1, <1>2, <1>3, <1>4, <1>5, <1>6 DEF StagingStep

(* From AddDataApex to the end of BootCompletedCleanup.                     *)
LEMMA BootHeld ==
  ASSUME TypeInv, NeverReopened, Held(Main), BootStep
  PROVE  NeverReopened' /\ Held(Main)'
<1> USE DEF At, Goto, Visit, disk, vold, memory, locals, environment, history, TypeInv, TypeOK,
          NeverReopened, SessionsInState, OpenStates, ActiveStates, Procs,
          Held, SessionHeld, TodoHeld, WriteHeld, Submitting, Restoring
<1>1. CASE \/ CollectDataApexes \/ ResumeRevertIfNeeded \/ ActivatePackages \/ ActivateMissing
           \/ UpdatableCrashing \/ SeeBootCompleted
  BY <1>1 DEF CollectDataApexes, ResumeRevertIfNeeded, CallRevert, ActivatePackages,
       ActivateMissing, UpdatableCrashing, SeeBootCompleted
<1>2. CASE ListDataApexes \/ RemoveInactiveDataApex \/ ListFinalizedSessions \/ JoinThreadPool
  BY <1>2 DEF ListDataApexes, RemoveInactiveDataApex, ListFinalizedSessions, JoinThreadPool
<1>3. CASE DeleteFinalizedSession
  BY <1>3 DEF DeleteFinalizedSession
<1> QED
  BY <1>1, <1>2, <1>3 DEF BootStep

(* The calls of clients, and the threads that serve them.                   *)
LEMMA RequestHeld ==
  ASSUME TypeInv, NeverReopened, NEW t \in Threads, Held(t), Request(t)
  PROVE  NeverReopened' /\ Held(t)'
<1> USE DEF At, Goto, disk, vold, memory, locals, environment, history, TypeInv, TypeOK, Serve,
          NeverReopened, SessionsInState, OpenStates, ActiveStates, Procs,
          Held, SessionHeld, TodoHeld, WriteHeld, Submitting, Restoring
<1>1. ASSUME NEW s \in SessionIds, SubmitStagedSession(t, s)
      PROVE  NeverReopened' /\ Held(t)'
  BY <1>1 DEF SubmitStagedSession, MaySubmit
<1>2. ASSUME NEW s \in SessionIds,
             \/ MarkStagedSessionReady(t, s) \/ MarkStagedSessionSuccessful(t, s)
             \/ AbortStagedSession(t, s)
      PROVE  NeverReopened' /\ Held(t)'
  BY <1>2 DEF MarkStagedSessionReady, MarkStagedSessionSuccessful, AbortStagedSession,
       ReadSession
<1>3. CASE RevertActiveSessions(t) \/ UnstagePackages(t) \/ MarkBootCompleted(t)
  BY <1>3 DEF RevertActiveSessions, CallRevert, UnstagePackages, MarkBootCompleted
<1> QED
  BY <1>1, <1>2, <1>3 DEF Request

LEMMA BinderHeld ==
  ASSUME TypeInv, NeverReopened, NEW t \in Threads, Held(t), BackupStep(t) \/ SessionStep(t)
  PROVE  NeverReopened' /\ Held(t)'
<1> USE DEF At, Goto, disk, vold, memory, locals, environment, history, TypeInv, TypeOK,
          NeverReopened, SessionsInState, OpenStates, ActiveStates, Procs,
          Held, SessionHeld, TodoHeld, WriteHeld, Submitting, Restoring,
          SessionKnown, WithSession, CallLabels
<1>1. CASE BackupStep(t)
  BY <1>1 DEF BackupStep, DeleteBackup, DeleteBackupFails, BackupDeleted, LinkBackup,
       LinkBackupFails, BackedUp
<1>2. CASE CreateVerifiedSession(t) \/ VerifyFails(t)
  BY <1>2 DEF CreateVerifiedSession, VerifyFails
<1>3. CASE CommitReady(t) \/ CommitSuccess(t)
  BY <1>3 DEF CommitReady, CommitSuccess, UpdateStateAndCommit
<1>4. CASE DeleteSession(t)
  BY <1>4 DEF DeleteSession
<1> QED
  BY <1>1, <1>2, <1>3, <1>4 DEF SessionStep

(* The device, vold and the start of the binder threads.                    *)
LEMMA DeviceHeld ==
  ASSUME TypeInv, ~Overlap, TurnInv, HeldInv,
         Boot \/ PowerLoss \/ Reboot \/ StartCheckpoint \/ CommitChanges \/ Publish
  PROVE  TurnInv' /\ HeldInv'
<1> USE DEF At, Goto, disk, vold, memory, locals, environment, history, TypeInv, TypeOK, Procs
<1>1. NeverReopened'
  BY DEF HeldInv, NeverReopened, SessionsInState, Boot, PowerLoss, Reboot, PowerOff,
     StartCheckpoint, CommitChanges, Publish
<1>2. CASE Boot \/ PowerLoss \/ Reboot \/ Publish
  <2>1. \A p \in Procs \ {Main} : ~Busy(p)'
    <3>1. CASE PowerLoss \/ Reboot
      BY <3>1 DEF PowerLoss, Reboot, PowerOff, Busy, Waiting
    <3>2. CASE Boot
      BY <3>2 DEF Boot, Busy, Waiting, TurnInv, OffTogether
    <3>3. CASE Publish
      <4>1. \A p \in Procs \ {Main} : ~Busy(p)
        BY <3>3, OthersWait DEF Publish, Busy, Waiting
      <4> QED
        BY <3>3, <4>1 DEF Publish, Busy, Waiting
    <3> QED
      BY <1>2, <3>1, <3>2, <3>3
  <2>2. write'[Main] = NoWrite /\ pc'[Main] \in {"off", "start", "waitCrash"}
    BY <1>2 DEF Boot, PowerLoss, Reboot, PowerOff, Publish, TurnInv, OffTogether
  <2>3. OffTogether'
    BY <1>2 DEF Boot, PowerLoss, Reboot, PowerOff, Publish, OffTogether
  <2>4. Held(Main)'
    BY <2>2 DEF Held, SessionHeld, TodoHeld, WriteHeld, Submitting, Restoring
  <2> QED
    BY <1>1, <2>1, <2>3, <2>4, HeldWaiting DEF TurnInv, OneBusy, HeldInv
<1>3. CASE StartCheckpoint \/ CommitChanges
  <2>1. TurnInv'
    BY <1>3 DEF StartCheckpoint, CommitChanges, TurnInv, OneBusy, OffTogether, Busy
  <2>2. \A p \in Procs : Held(p)'
    BY <1>3 DEF StartCheckpoint, CommitChanges, HeldInv, Held, SessionHeld, TodoHeld,
         WriteHeld, SessionsInState
  <2> QED
    BY <1>1, <2>1, <2>2 DEF HeldInv
<1> QED
  BY <1>2, <1>3

(* Every step of the system is one of these.                                *)
LEMMA NextSteps ==
  ASSUME Next
  PROVE  \/ Boot \/ PowerLoss \/ Reboot \/ StartCheckpoint \/ CommitChanges \/ Publish
         \/ StagingStep \/ BootStep
         \/ \E t \in Threads : Request(t) \/ BackupStep(t) \/ SessionStep(t)
         \/ \E p \in Procs : RevertStep(p)
BY DEF Next, MainStep, BinderStep, StagingStep, BootStep, RevertStep, BackupStep, SessionStep,
   Procs

LEMMA HeldInit == Init => TurnInv /\ HeldInv
BY DEF Init, TurnInv, OneBusy, OffTogether, Busy, Waiting, HeldInv, NeverReopened,
   SessionsInState, OpenStates, Held, SessionHeld, TodoHeld, WriteHeld, Submitting, Restoring,
   Procs

LEMMA HeldNext == TypeInv /\ TurnInv /\ HeldInv /\ [Next]_vars => TurnInv' /\ HeldInv'
<1> SUFFICES ASSUME TypeInv, ~Overlap, TurnInv, HeldInv, [Next]_vars
             PROVE  TurnInv' /\ HeldInv'
  BY DEF TurnInv, HeldInv
<1>1. CASE UNCHANGED vars
  <2> USE <1>1 DEF vars, disk, locals, environment, history
  <2>1. TurnInv'
    BY DEF TurnInv, OneBusy, OffTogether, Busy
  <2>2. HeldInv'
    BY DEF HeldInv, NeverReopened, Held, SessionHeld, TodoHeld, WriteHeld, SessionsInState
  <2> QED
    BY <2>1, <2>2
<1>2. NeverReopened /\ \A p \in Procs : Held(p)
  BY DEF HeldInv
<1>3. TypeOK
  BY DEF TypeInv
<1>4. CASE \E p \in Procs : RevertStep(p)
  <2>1. PICK p \in Procs : RevertStep(p)
    BY <1>4
  <2>2. pc[p] # "off"
    BY <1>2, <2>1 DEF RevertStep, Revert, FindActiveSessions, MarkRevertInProgress, MarkOpenFails,
       GiveUpRevert, AllMarked,
       CheckBackup, DeleteActive, ActiveIsEmpty, RenameBackup, RestoreFails, FinishRevert,
       FinishOpenFails,
       ReturnFromRevert, At, CommitSucceeds, CommitFails, OpenFails, Held, WriteHeld
  <2> QED
    BY <1>2, <1>3, <2>1, <2>2, RevertActs, RevertHeld, HeldKept
<1>5. CASE StagingStep \/ BootStep
  BY <1>2, <1>3, <1>5, StagingActs, BootActs, StagingHeld, BootHeld, HeldKept DEF Procs
<1>6. ASSUME NEW t \in Threads, Request(t) \/ BackupStep(t) \/ SessionStep(t)
      PROVE  TurnInv' /\ HeldInv'
  BY <1>2, <1>3, <1>6, RequestActs, BinderActs, RequestHeld, BinderHeld, HeldKept DEF Procs
<1> QED
  BY <1>1, <1>4, <1>5, <1>6, NextSteps, DeviceHeld

LEMMA Turns == Spec => [](TypeInv /\ TurnInv /\ HeldInv)
BY TypeInit, TypeNext, HeldInit, HeldNext, PTL DEF Spec

(* ScanStagedSessionsDirAndStage never stages a session whose state file a   *)
(* revert has opened to mark it, however many sessions there are, wherever   *)
(* power is lost and whichever state files can then not be opened or written.*)
THEOREM RevertedStaysReverted ==
  ASSUME ~Overlap
  PROVE  Spec => []RevertedIsNotStagedAgain
<1>1. TypeInv /\ HeldInv => RevertedIsNotStagedAgain
  BY DEF HeldInv, NeverReopened, SessionsInState, OpenStates, Held, SessionHeld, Procs,
     TypeInv, SessionKnown, WithSession, RevertedIsNotStagedAgain
<1> QED
  BY <1>1, Turns, PTL

(* Whoever truncates a state file, or writes it, has found its session in a  *)
(* state that is not final.                                                 *)
LEMMA FinalStep ==
  ASSUME TypeInv, ~Overlap, HeldInv, [Next]_vars
  PROVE  \A s \in SessionsInState(FinalStates) : sessionState'[s] \in {sessionState[s], "none"}
<1> USE DEF disk, vold, memory, locals, environment, history, SessionsInState
<1>1. TypeOK /\ \A p \in Procs : Held(p)
  BY DEF HeldInv, TypeInv
<1>2. CASE UNCHANGED sessionState
  BY <1>2
<1>3. ASSUME NEW s \in SessionIds, sessionState[s] \notin FinalStates,
             sessionState' \in {[sessionState EXCEPT ![s] = IF @ = "none" THEN @ ELSE "UNKNOWN"],
                               [sessionState EXCEPT ![s] = "UNKNOWN"]}
      PROVE  \A u \in SessionsInState(FinalStates) : sessionState'[u] \in {sessionState[u], "none"}
  BY <1>1, <1>3 DEF TypeOK
<1>4. ASSUME NEW s \in SessionIds, sessionState' = [sessionState EXCEPT ![s] = "none"]
      PROVE  \A u \in SessionsInState(FinalStates) : sessionState'[u] \in {sessionState[u], "none"}
  BY <1>1, <1>4 DEF TypeOK
<1>5. CASE Boot \/ PowerLoss \/ Reboot \/ StartCheckpoint \/ CommitChanges \/ Publish
  BY <1>2, <1>5 DEF Boot, PowerLoss, Reboot, PowerOff, StartCheckpoint, CommitChanges, Publish
<1>6. CASE StagingStep
  <2>1. CASE SessionStaged \/ SessionFails
    <3>1. session[Main] \in SessionIds /\ sessionState[session[Main]] \in {"STAGED", "ACTIVATED"}
      BY <1>1, <2>1 DEF SessionStaged, SessionFails, At, Held, SessionHeld, Procs, TypeInv,
         SessionKnown, WithSession
    <3> QED
      BY <1>3, <2>1, <3>1 DEF SessionStaged, SessionFails, FinishSession, UpdateStateAndCommit,
         FinalStates
  <2> QED
    BY <1>2, <1>6, <2>1 DEF StagingStep, AskNeedsRollback, ScanStagedSessionsDir, RejectSession,
       AcceptSession, LinkStaged, LinkFails, UnlinkStaged, UnlinkStagedFails, AllLinked,
       UnlinkSuperseded, SupersedeFails, AllStaged
<1>7. CASE BootStep
  <2>1. CASE DeleteFinalizedSession
    BY <1>1, <1>4, <2>1 DEF DeleteFinalizedSession, TypeOK, Procs
  <2> QED
    BY <1>2, <1>7, <2>1 DEF BootStep, CollectDataApexes, ResumeRevertIfNeeded,
       ActivatePackages, ActivateMissing, UpdatableCrashing, SeeBootCompleted, ListDataApexes,
       RemoveInactiveDataApex, ListFinalizedSessions, JoinThreadPool
<1>8. ASSUME NEW t \in Threads, Request(t) \/ BackupStep(t)
      PROVE  UNCHANGED sessionState
  BY <1>8 DEF Request, SubmitStagedSession, MarkStagedSessionReady,
     MarkStagedSessionSuccessful, AbortStagedSession, ReadSession, RevertActiveSessions,
     UnstagePackages, MarkBootCompleted, BackupStep, DeleteBackup, DeleteBackupFails,
     BackupDeleted, LinkBackup, LinkBackupFails, BackedUp
<1>9. ASSUME NEW t \in Threads, SessionStep(t), ~VerifyFails(t)
      PROVE  /\ session[t] \in SessionIds /\ sessionState[session[t]] \notin FinalStates
             /\ sessionState' \in {[sessionState EXCEPT ![session[t]] = IF @ = "none" THEN @ ELSE "UNKNOWN"],
                               [sessionState EXCEPT ![session[t]] = "UNKNOWN"],
                               [sessionState EXCEPT ![session[t]] = "none"]}
  BY <1>1, <1>9 DEF SessionStep, CreateVerifiedSession, CommitReady, CommitSuccess,
     DeleteSession, UpdateStateAndCommit, At, Held, SessionHeld, Submitting, FinalStates,
     TypeInv, SessionKnown, WithSession, CallLabels, Procs
<1>10. ASSUME NEW p \in Procs, RevertStep(p)
       PROVE  \A u \in SessionsInState(FinalStates) : sessionState'[u] \in {sessionState[u], "none"}
  <2>1. CASE MarkRevertInProgress(p) \/ FinishRevert(p)
    <3>1. PICK s \in todo[p] : \E st \in States : UpdateStateAndCommit(p, s, st)
      BY <2>1 DEF MarkRevertInProgress, FinishRevert, States
    <3>2. s \in SessionIds /\ sessionState[s] \in ActiveStates \cup {"UNKNOWN"}
      BY <1>1, <2>1 DEF MarkRevertInProgress, FinishRevert, At, Held, TodoHeld, TypeOK,
         ActiveStates, Restoring
    <3> QED
      BY <1>3, <3>1, <3>2 DEF UpdateStateAndCommit, FinalStates, ActiveStates, OpenStates
  <2>2. CASE CommitSucceeds(p)
    BY <1>1, <2>2 DEF CommitSucceeds, Held, WriteHeld, TypeOK, FinalStates
  <2> QED
    BY <1>2, <1>10, <2>1, <2>2 DEF RevertStep, Revert, FindActiveSessions, MarkOpenFails,
       AllMarked, CheckBackup, DeleteActive, ActiveIsEmpty, RenameBackup, RestoreFails,
       FinishOpenFails, ReturnFromRevert, CommitFails, OpenFails
<1>11. CASE UNCHANGED vars
  BY <1>2, <1>11 DEF vars
<1>12. ASSUME NEW t \in Threads, SessionStep(t)
       PROVE  \A u \in SessionsInState(FinalStates) : sessionState'[u] \in {sessionState[u], "none"}
  BY <1>2, <1>3, <1>4, <1>9, <1>12 DEF VerifyFails
<1> QED
  BY <1>2, <1>5, <1>6, <1>7, <1>8, <1>10, <1>11, <1>12, NextSteps

(* A session in a final state keeps it until it is deleted: no step of any   *)
(* process, before or after a restart, writes to its state file.            *)
THEOREM FinalStatesAreKept ==
  ASSUME ~Overlap
  PROVE  Spec => FinalStatesAreFinal
<1>1. TypeInv /\ TurnInv /\ HeldInv /\ [Next]_vars =>
        [\A s \in SessionsInState(FinalStates) : sessionState'[s] \in {sessionState[s], "none"}]_vars
  BY FinalStep
<1> QED
  BY <1>1, Turns, PTL DEF Spec, FinalStatesAreFinal

-----------------------------------------------------------------------------
(* One session at a time: the client submits only when RevertActiveSessions  *)
(* would find nothing to revert, and while a state file is truncated, or a   *)
(* session submitted, it would find nothing either.                         *)
OneActive == \A s, u \in ActiveSessions : s = u
NoneActive(p) == write[p] # NoWrite \/ pc[p] \in Submitting => ActiveSessions = {}

(* A revert has taken up that session, even where its state is lost since.  *)
RevertsOne(p) ==
  pc[p] \in {"mark"} \cup Restoring =>
    /\ \A s, u \in reverting[p] : s = u
    /\ ActiveSessions \subseteq reverting[p]
    /\ write[p] # NoWrite => write[p].id \in reverting[p]

SessionInv ==
  ~Overlap /\ OneSessionAtATime =>
    OneActive /\ \A p \in Procs : NoneActive(p) /\ RevertsOne(p)

LEMMA ActiveSessionsAre == ActiveSessions = {s \in SessionIds : sessionState[s] \in ActiveStates}
                           /\ ActiveSessions' = {s \in SessionIds : sessionState'[s] \in ActiveStates}
BY DEF ActiveSessions, SessionsInState, States, FinalStates, ActiveStates, OpenStates

(* Truncating the state file of the session that is active leaves none;      *)
(* writing it brings back at most that one.                                 *)
LEMMA OneTruncated ==
  ASSUME TypeOK, OneActive, NEW s \in SessionIds, sessionState[s] \in ActiveStates,
         sessionState' = [sessionState EXCEPT ![s] = IF @ = "none" THEN @ ELSE "UNKNOWN"]
  PROVE  OneActive' /\ ActiveSessions' = {}
<1>1. ActiveSessions = {s}
  BY ActiveSessionsAre DEF OneActive
<1>2. \A u \in SessionIds : sessionState'[u] \in ActiveStates => u # s /\ sessionState[u] \in ActiveStates
  BY DEF TypeOK, ActiveStates, OpenStates
<1>3. ActiveSessions' = {}
  BY <1>1, <1>2, ActiveSessionsAre
<1> QED
  BY <1>3 DEF OneActive

LEMMA OneWritten ==
  ASSUME TypeOK, ActiveSessions = {}, NEW s \in SessionIds,
         \A u \in SessionIds \ {s} : sessionState'[u] = sessionState[u]
  PROVE  OneActive'
BY ActiveSessionsAre DEF OneActive

LEMMA OneFewer ==
  ASSUME OneActive, \A u \in SessionIds : sessionState'[u] \in {sessionState[u], "none", "UNKNOWN"}
  PROVE  OneActive' /\ ActiveSessions' \subseteq ActiveSessions
BY ActiveSessionsAre DEF OneActive, ActiveStates, OpenStates

LEMMA RevertOne ==
  ASSUME TypeInv, OneActive, NEW p \in Procs, NoneActive(p), RevertsOne(p), Held(p), RevertStep(p)
  PROVE  OneActive' /\ NoneActive(p)' /\ RevertsOne(p)'
<1> USE DEF At, Goto, Visit, disk, vold, memory, locals, environment, history, TypeInv, TypeOK
<1>1. CASE MarkRevertInProgress(p) \/ FinishRevert(p)
  <2>1. PICK s \in todo[p] : \E st \in States : UpdateStateAndCommit(p, s, st)
    BY <1>1 DEF MarkRevertInProgress, FinishRevert, States
  <2>2. /\ pc[p] \in {"mark", "done", "fail"} /\ s \in SessionIds /\ s \in reverting[p]
        /\ UNCHANGED <<pc, reverting>> /\ write'[p].id = s
    BY <1>1, <2>1 DEF MarkRevertInProgress, FinishRevert, UpdateStateAndCommit, Held, TodoHeld,
       Restoring
  <2>3. \A u \in SessionIds \ {s} : sessionState[u] \notin ActiveStates
    BY <2>2, ActiveSessionsAre DEF RevertsOne, Restoring
  <2>4. ActiveSessions' = {}
    BY <2>1, <2>2, <2>3, ActiveSessionsAre DEF UpdateStateAndCommit, ActiveStates, OpenStates
  <2> QED
    BY <2>2, <2>4 DEF OneActive, NoneActive, RevertsOne
<1>2. CASE CommitSucceeds(p)
  <2>1. write[p].id \in SessionIds /\ ActiveSessions = {}
    BY <1>2 DEF CommitSucceeds, NoneActive
  <2>2. OneActive'
    BY <1>2, <2>1, OneWritten DEF CommitSucceeds
  <2>3. write'[p] = NoWrite /\ pc'[p] = pc[p] /\ pc[p] \notin Submitting
    BY <1>2 DEF CommitSucceeds, Held, WriteHeld, Submitting
  <2>4. ActiveSessions' \subseteq {write[p].id}
    BY <1>2, <2>1, ActiveSessionsAre DEF CommitSucceeds
  <2>5. RevertsOne(p)'
    BY <1>2, <2>3, <2>4 DEF CommitSucceeds, RevertsOne
  <2> QED
    BY <2>2, <2>3, <2>5 DEF NoneActive
<1>3. CASE ~MarkRevertInProgress(p) /\ ~FinishRevert(p) /\ ~CommitSucceeds(p)
  <2>1. sessionState' = sessionState /\ write'[p] = NoWrite /\ pc'[p] \notin Submitting
    <3>1. CASE Revert(p) \/ OpenFails(p)
      BY <1>3, <3>1 DEF Revert, FindActiveSessions, MarkOpenFails, GiveUpRevert, AllMarked,
         CheckBackup, DeleteActive, ActiveIsEmpty, RenameBackup, RestoreFails, FinishOpenFails,
         ReturnFromRevert, OpenFails, ReturnOk, ReturnError, Callers, Submitting
    <3>2. CASE CommitFails(p)
      BY <3>2 DEF CommitFails, GiveUpRevert, ReturnError, ReturnOk, Callers, Submitting, Held,
         WriteHeld
    <3> QED
      BY <1>3, <3>1, <3>2 DEF RevertStep
  <2>2. \/ pc'[p] \notin {"mark"} \cup Restoring
        \/ pc[p] \in {"mark"} \cup Restoring /\ reverting' = reverting
        \/ reverting'[p] = ActiveSessions
    <3>1. CASE Revert(p) \/ OpenFails(p)
      BY <1>3, <3>1 DEF Revert, FindActiveSessions, MarkOpenFails, GiveUpRevert, AllMarked,
         CheckBackup, DeleteActive, ActiveIsEmpty, RenameBackup, RestoreFails, FinishOpenFails,
         ReturnFromRevert, OpenFails, ReturnOk, ReturnError, Callers, Restoring
    <3>2. CASE CommitFails(p)
      BY <3>2 DEF CommitFails, GiveUpRevert, ReturnError, ReturnOk, Callers, Restoring
    <3> QED
      BY <1>3, <3>1, <3>2 DEF RevertStep
  <2>3. OneActive' /\ ActiveSessions' = ActiveSessions
    BY <2>1, ActiveSessionsAre DEF OneActive
  <2>4. RevertsOne(p)'
    BY <2>1, <2>2, <2>3 DEF RevertsOne, OneActive
  <2> QED
    BY <2>1, <2>3, <2>4 DEF NoneActive
<1> QED
  BY <1>1, <1>2, <1>3

(* No other step starts a revert, other than by calling it.                 *)
LEMMA RevertsNone ==
  ASSUME TypeOK
  PROVE  /\ StagingStep \/ BootStep => RevertsOne(Main)'
         /\ \A t \in Threads : Request(t) \/ BackupStep(t) \/ SessionStep(t) => RevertsOne(t)'
<1> USE DEF At, Goto, locals, TypeOK, Procs, Restoring
<1>1. ASSUME StagingStep
      PROVE  pc'[Main] \notin {"mark"} \cup Restoring
  BY <1>1 DEF StagingStep, AskNeedsRollback, CallRevert, ScanStagedSessionsDir, RejectSession,
     AcceptSession, LinkStaged, LinkFails, UnlinkStaged, UnlinkStagedFails, AllLinked,
     UnlinkSuperseded, SupersedeFails, SessionStaged, SessionFails, FinishSession, AllStaged
<1>2. ASSUME BootStep
      PROVE  pc'[Main] \notin {"mark"} \cup Restoring
  BY <1>2 DEF BootStep, CollectDataApexes, ResumeRevertIfNeeded, CallRevert, ActivatePackages,
     ActivateMissing, UpdatableCrashing, SeeBootCompleted, ListDataApexes,
     RemoveInactiveDataApex, ListFinalizedSessions, DeleteFinalizedSession, JoinThreadPool
<1>3. ASSUME NEW t \in Threads, Request(t)
      PROVE  pc'[t] \notin {"mark"} \cup Restoring
  BY <1>3 DEF Request, SubmitStagedSession, MarkStagedSessionReady, MarkStagedSessionSuccessful,
     AbortStagedSession, ReadSession, Serve, RevertActiveSessions, CallRevert, UnstagePackages,
     MarkBootCompleted
<1>4. ASSUME NEW t \in Threads, BackupStep(t) \/ SessionStep(t)
      PROVE  pc'[t] \notin {"mark"} \cup Restoring
  BY <1>4 DEF BackupStep, DeleteBackup, DeleteBackupFails, BackupDeleted, LinkBackup,
     LinkBackupFails, BackedUp, SessionStep, CreateVerifiedSession, VerifyFails, CommitReady,
     CommitSuccess, DeleteSession
<1> QED
  BY <1>1, <1>2, <1>3, <1>4 DEF RevertsOne

LEMMA MainOne ==
  ASSUME TypeInv, OneActive, Held(Main), StagingStep \/ BootStep
  PROVE  OneActive' /\ NoneActive(Main)'
<1> USE DEF At, Goto, Visit, disk, vold, memory, locals, environment, history, TypeInv, TypeOK,
          Procs
<1>1. CASE SessionStaged \/ SessionFails
  <2>1. session[Main] \in SessionIds /\ sessionState[session[Main]] \in ActiveStates
    BY <1>1 DEF SessionStaged, SessionFails, Held, SessionHeld, SessionKnown, WithSession,
       ActiveStates, OpenStates
  <2> QED
    BY <1>1, <2>1, OneTruncated DEF SessionStaged, SessionFails, FinishSession,
       UpdateStateAndCommit, NoneActive
<1>2. CASE StagingStep /\ ~SessionStaged /\ ~SessionFails
  <2>1. sessionState' = sessionState /\ write'[Main] = NoWrite /\ pc'[Main] \notin Submitting
    BY <1>2 DEF StagingStep, AskNeedsRollback, CallRevert, ScanStagedSessionsDir, RejectSession,
       AcceptSession, LinkStaged, LinkFails, UnlinkStaged, UnlinkStagedFails, AllLinked,
       UnlinkSuperseded, SupersedeFails, AllStaged, Submitting
  <2> QED
    BY <2>1, OneFewer DEF NoneActive
<1>3. CASE BootStep
  <2>1. \A u \in SessionIds : sessionState'[u] \in {sessionState[u], "none"}
    BY <1>3 DEF BootStep, CollectDataApexes, ResumeRevertIfNeeded, ActivatePackages,
       ActivateMissing, UpdatableCrashing, SeeBootCompleted, ListDataApexes,
       RemoveInactiveDataApex, ListFinalizedSessions, DeleteFinalizedSession, JoinThreadPool
  <2>2. write'[Main] = NoWrite /\ pc'[Main] \notin Submitting
    BY <1>3 DEF BootStep, CollectDataApexes, ResumeRevertIfNeeded, CallRevert,
       ActivatePackages, ActivateMissing, UpdatableCrashing, SeeBootCompleted, ListDataApexes,
       RemoveInactiveDataApex, ListFinalizedSessions, DeleteFinalizedSession, JoinThreadPool,
       Submitting
  <2> QED
    BY <2>1, <2>2, OneFewer DEF NoneActive
<1> QED
  BY <1>1, <1>2, <1>3

LEMMA ThreadOne ==
  ASSUME TypeInv, OneSessionAtATime, OneActive, NEW t \in Threads, NoneActive(t), Held(t),
         Request(t) \/ BackupStep(t) \/ SessionStep(t)
  PROVE  OneActive' /\ NoneActive(t)'
<1> USE DEF At, Goto, disk, vold, memory, locals, environment, history, TypeInv, TypeOK, Procs
<1>1. ASSUME NEW s \in SessionIds, SubmitStagedSession(t, s)
      PROVE  OneActive' /\ NoneActive(t)'
  <2>1. ActiveSessions' = {}
    BY <1>1, ActiveSessionsAre DEF SubmitStagedSession, MaySubmit, SessionsInState,
       ActiveStates, OpenStates, FinalStates
  <2> QED
    BY <2>1 DEF OneActive, NoneActive
<1>2. CASE Request(t) /\ ~\E s \in SessionIds : SubmitStagedSession(t, s)
  <2>1. sessionState' = sessionState /\ write'[t] = NoWrite /\ pc'[t] \notin Submitting
    BY <1>2 DEF Request, MarkStagedSessionReady, MarkStagedSessionSuccessful,
       AbortStagedSession, ReadSession, Serve, RevertActiveSessions, CallRevert,
       UnstagePackages, MarkBootCompleted, Submitting
  <2> QED
    BY <2>1, OneFewer DEF NoneActive
<1>3. CASE BackupStep(t)
  <2>1. sessionState' = sessionState /\ write'[t] = NoWrite /\ pc'[t] \in {pc[t], "idle", "link", "discard", "verify"}
    BY <1>3 DEF BackupStep, DeleteBackup, DeleteBackupFails, BackupDeleted, LinkBackup,
       LinkBackupFails, BackedUp
  <2>2. pc'[t] \in Submitting => pc[t] \in Submitting
    BY <1>3, <2>1 DEF BackupStep, DeleteBackup, DeleteBackupFails, BackupDeleted, LinkBackup,
       LinkBackupFails, BackedUp, Submitting
  <2> QED
    BY <2>1, <2>2, OneFewer DEF NoneActive
<1>4. CASE CreateVerifiedSession(t)
  <2>1. ActiveSessions = {}
    BY <1>4 DEF CreateVerifiedSession, NoneActive, Submitting
  <2>2. \A u \in SessionIds : sessionState'[u] \in {sessionState[u], "UNKNOWN"}
    BY <1>4 DEF CreateVerifiedSession
  <2>3. OneActive' /\ ActiveSessions' = {}
    BY <2>1, <2>2, OneFewer
  <2> QED
    BY <2>3 DEF NoneActive
<1>5. CASE CommitReady(t) \/ CommitSuccess(t)
  <2>1. session[t] \in SessionIds /\ sessionState[session[t]] \in ActiveStates
    BY <1>5 DEF CommitReady, CommitSuccess, Held, SessionHeld, SessionKnown, WithSession,
       CallLabels, ActiveStates, OpenStates
  <2> QED
    BY <1>5, <2>1, OneTruncated DEF CommitReady, CommitSuccess, UpdateStateAndCommit, NoneActive
<1>6. CASE VerifyFails(t) \/ DeleteSession(t)
  <2>1. \A u \in SessionIds : sessionState'[u] \in {sessionState[u], "none"}
    BY <1>6 DEF VerifyFails, DeleteSession
  <2>2. write'[t] = NoWrite /\ pc'[t] = "idle"
    BY <1>6 DEF VerifyFails, DeleteSession
  <2> QED
    BY <2>1, <2>2, OneFewer DEF NoneActive, Submitting
<1> QED
  BY <1>1, <1>2, <1>3, <1>4, <1>5, <1>6 DEF SessionStep

LEMMA DeviceOne ==
  ASSUME TypeInv, TurnInv', SessionInv, ~Overlap, OneSessionAtATime,
         Boot \/ PowerLoss \/ Reboot \/ StartCheckpoint \/ CommitChanges \/ Publish
  PROVE  SessionInv'
<1> USE DEF At, Goto, disk, vold, memory, locals, environment, history, TypeInv, TypeOK, Procs
<1>1. sessionState' = sessionState
  BY DEF Boot, PowerLoss, Reboot, PowerOff, StartCheckpoint, CommitChanges, Publish
<1>2. ActiveSessions' = ActiveSessions /\ OneActive'
  BY <1>1 DEF ActiveSessions, SessionsInState, SessionInv, OneActive
<1>3. \A p \in Procs :
        /\ write'[p] = NoWrite \/ write'[p] = write[p]
        /\ pc'[p] \notin Submitting \/ pc'[p] = pc[p]
        /\ pc'[p] \notin {"mark"} \cup Restoring 
           \/ (pc'[p] = pc[p] /\ reverting'[p] = reverting[p])
  BY DEF Boot, PowerLoss, Reboot, PowerOff, StartCheckpoint, CommitChanges, Publish, Submitting,
     Restoring
<1>4. \A p \in Procs : NoneActive(p) /\ RevertsOne(p)
  BY DEF SessionInv
<1>5. ASSUME NEW p \in Procs
      PROVE  NoneActive(p)' /\ RevertsOne(p)'
  BY <1>2, <1>3, <1>4, <1>5 DEF NoneActive, RevertsOne
<1> QED
  BY <1>2, <1>5 DEF SessionInv

LEMMA OneInit == Init => SessionInv
BY ActiveSessionsAre DEF Init, SessionInv, OneActive, NoneActive, RevertsOne, ActiveStates,
   OpenStates, Submitting, Restoring

(* As in HeldKept, only the process that acts is concerned.                 *)
LEMMA OneKept ==
  ASSUME ~Overlap, TurnInv, NEW p \in Procs, Acts(p), OneActive', NoneActive(p)', RevertsOne(p)'
  PROVE  SessionInv'
<1>1. \A q \in Procs \ {p} : ~Busy(q)'
  BY TurnKept DEF Acts
<1>2. \A q \in Procs : NoneActive(q)' /\ RevertsOne(q)'
  BY <1>1 DEF Busy, Waiting, NoneActive, RevertsOne, Submitting, Restoring
<1> QED
  BY <1>2 DEF SessionInv

(* Every step of a process is one it takes while the others wait.           *)
LEMMA ProcessActs ==
  ASSUME TypeInv, HeldInv, ~Overlap
  PROVE  /\ \A p \in Procs : RevertStep(p) => Acts(p)
         /\ StagingStep \/ BootStep => Acts(Main)
         /\ \A t \in Threads : Request(t) \/ BackupStep(t) \/ SessionStep(t) => Acts(t)
<1>1. TypeOK
  BY DEF TypeInv
<1>2. ASSUME NEW p \in Procs, RevertStep(p)
      PROVE  pc[p] # "off"
  <2>1. Held(p)
    BY DEF HeldInv
  <2> QED
    BY <1>2, <2>1 DEF RevertStep, Revert, FindActiveSessions, MarkRevertInProgress, MarkOpenFails,
       GiveUpRevert, AllMarked,
       CheckBackup, DeleteActive, ActiveIsEmpty, RenameBackup, RestoreFails, FinishRevert,
       FinishOpenFails,
       ReturnFromRevert, At, CommitSucceeds, CommitFails, OpenFails, Held, WriteHeld
<1> QED
  BY <1>1, <1>2, RevertActs, StagingActs, BootActs, RequestActs, BinderActs

LEMMA OneNext == TypeInv /\ TurnInv /\ HeldInv /\ SessionInv /\ [Next]_vars => SessionInv'
<1> SUFFICES ASSUME TypeInv, TurnInv, HeldInv, SessionInv, [Next]_vars,
                    ~Overlap, OneSessionAtATime
             PROVE  SessionInv'
  BY DEF SessionInv
<1>1. CASE UNCHANGED vars
  BY <1>1 DEF vars, disk, locals, SessionInv, OneActive, NoneActive, RevertsOne, ActiveSessions,
     SessionsInState
<1>2. OneActive /\ TypeOK /\ \A p \in Procs : Held(p) /\ NoneActive(p) /\ RevertsOne(p)
  BY DEF HeldInv, SessionInv, TypeInv
<1>3. ASSUME NEW p \in Procs, RevertStep(p)
      PROVE  SessionInv'
  BY <1>2, <1>3, RevertOne, ProcessActs, OneKept
<1>4. CASE StagingStep \/ BootStep
  BY <1>2, <1>4, MainOne, RevertsNone, ProcessActs, OneKept DEF Procs
<1>5. ASSUME NEW t \in Threads, Request(t) \/ BackupStep(t) \/ SessionStep(t)
      PROVE  SessionInv'
  BY <1>2, <1>5, ThreadOne, RevertsNone, ProcessActs, OneKept DEF Procs
<1>6. TurnInv'
  BY HeldNext
<1> QED
  BY <1>1, <1>3, <1>4, <1>5, <1>6, NextSteps, DeviceOne

-----------------------------------------------------------------------------
(* The backup, on devices without checkpoints: what it is to a session that  *)
(* is in state st, or will be once its state file is written.  Once          *)
(* MarkStagedSessionSuccessful has begun to delete it, nothing.             *)
BackedUpAs(s, st) ==
  s \notin confirming =>
    /\ st \in OpenStates => backupExists
    /\ st \in ActiveStates /\ backupExists => backup = original[s]

AllBackedUp == \A s \in ActiveSessions : BackedUpAs(s, sessionState[s])

(* How far SubmitStagedSession has come with the backup, and what           *)
(* RestoreActivePackages has made of it.                                    *)
BackupHeld(p) ==
  /\ write[p] # NoWrite => BackedUpAs(write[p].id, write[p].state)
  /\ pc[p] \in {"backup", "link", "verify"} => backupExists
  /\ pc[p] = "backup" => files[p] = original[session[p]]
  /\ pc[p] = "link" => backup \cup files[p] = original[session[p]]
  /\ pc[p] = "verify" => backup = original[session[p]]
  /\ pc[p] = "confirm" => session[p] \in confirming
  /\ pc[p] \in {"restore", "empty", "rename"} => todo[p] = reverting[p]
  /\ pc[p] \in {"mark", "restore", "empty", "rename"} =>
       \A s \in reverting[p] : BackedUpAs(s, "REVERT_IN_PROGRESS")
  /\ pc[p] = "done" /\ todo[p] = reverting[p] =>
       \A s \in reverting[p] \ confirming : active = original[s]

BackupInv ==
  ~Overlap /\ OneSessionAtATime /\ ~SupportsFsCheckpoints =>
    ~journaling /\ AllBackedUp /\ \A p \in Procs : BackupHeld(p)

(* A step that leaves the backup alone and truncates or deletes at most.    *)
LEMMA BackupLeftAlone ==
  ASSUME AllBackedUp, UNCHANGED <<backup, backupExists, original>>, confirming \subseteq confirming',
         \A u \in SessionIds : sessionState'[u] \in {sessionState[u], "none", "UNKNOWN"}
  PROVE  AllBackedUp'
BY ActiveSessionsAre DEF AllBackedUp, BackedUpAs, ActiveStates, OpenStates

LEMMA NothingToBackUp == ActiveSessions' = {} => AllBackedUp'
BY DEF AllBackedUp

(* RevertActiveSessions, with RestoreActivePackages.                        *)
LEMMA RevertBackup ==
  ASSUME TypeInv, ~SupportsFsCheckpoints, OneActive, AllBackedUp,
         NEW p \in Procs, NoneActive(p), Held(p), BackupHeld(p), RevertStep(p)
  PROVE  AllBackedUp' /\ BackupHeld(p)'
<1> USE DEF At, Goto, Visit, disk, vold, memory, locals, environment, history, TypeInv, TypeOK
<1>1. CASE FindActiveSessions(p)
  <2>1. AllBackedUp'
    BY <1>1, BackupLeftAlone DEF FindActiveSessions
  <2>2. \A s \in ActiveSessions : BackedUpAs(s, "REVERT_IN_PROGRESS")
    BY ActiveSessionsAre DEF AllBackedUp, BackedUpAs, ActiveStates, OpenStates
  <2>3. \A s \in reverting'[p] : BackedUpAs(s, "REVERT_IN_PROGRESS")'
    BY <1>1, <2>2 DEF FindActiveSessions, BackedUpAs
  <2> QED
    BY <1>1, <2>1, <2>3 DEF FindActiveSessions, BackupHeld, ReturnError, Callers, ReturnOk,
       Restoring
<1>2. CASE MarkRevertInProgress(p)
  <2>1. PICK s \in todo[p] : UpdateStateAndCommit(p, s, "REVERT_IN_PROGRESS")
    BY <1>2 DEF MarkRevertInProgress
  <2>2. s \in SessionIds /\ s \in ActiveSessions
    BY <1>2, <2>1, ActiveSessionsAre DEF MarkRevertInProgress, Held, TodoHeld
  <2>3. BackedUpAs(s, "REVERT_IN_PROGRESS")
    BY <2>2, ActiveSessionsAre DEF AllBackedUp, BackedUpAs, ActiveStates
  <2>4. AllBackedUp'
    BY <1>2, <2>1, <2>2, BackupLeftAlone DEF MarkRevertInProgress, UpdateStateAndCommit
  <2>5. write'[p].id = s /\ write'[p].state = "REVERT_IN_PROGRESS" /\ pc'[p] = "mark"
    BY <1>2, <2>1 DEF MarkRevertInProgress, UpdateStateAndCommit
  <2>6. BackedUpAs(write[p].id, write[p].state)'
    BY <1>2, <2>3, <2>5 DEF MarkRevertInProgress, BackedUpAs
  <2>7. \A u \in reverting'[p] : BackedUpAs(u, "REVERT_IN_PROGRESS")'
    BY <1>2 DEF MarkRevertInProgress, BackupHeld, BackedUpAs
  <2> QED
    BY <2>4, <2>5, <2>6, <2>7 DEF BackupHeld, Restoring
<1>3. CASE AllMarked(p)
  <2>1. AllBackedUp'
    BY <1>3, BackupLeftAlone DEF AllMarked
  <2> QED
    BY <1>3, <2>1 DEF AllMarked, BackupHeld, BackedUpAs
<1>4. CASE CheckBackup(p) \/ DeleteActive(p) \/ ActiveIsEmpty(p) \/ RestoreFails(p)
  <2>1. AllBackedUp'
    BY <1>4, BackupLeftAlone DEF CheckBackup, DeleteActive, ActiveIsEmpty, RestoreFails
  <2> QED
    BY <1>4, <2>1 DEF CheckBackup, DeleteActive, ActiveIsEmpty, RestoreFails, BackupHeld,
       BackedUpAs, Restoring
<1>5. CASE RenameBackup(p)
  <2>1. SessionsInState(OpenStates) = {}
    BY <1>5 DEF RenameBackup, Held, TodoHeld, Restoring
  <2>2. \A s \in reverting[p] \ confirming : active' = original[s]
    BY <1>5 DEF RenameBackup, BackupHeld, BackedUpAs, ActiveStates
  <2>3. AllBackedUp'
    BY <1>5, <2>1 DEF RenameBackup, AllBackedUp, BackedUpAs, SessionsInState, OpenStates,
       ActiveSessions
  <2> QED
    BY <1>5, <2>1, <2>2, <2>3 DEF RenameBackup, BackupHeld, Restoring
<1>6. CASE FinishRevert(p)
  <2>1. PICK s \in todo[p] :
          /\ UpdateStateAndCommit(p, s, IF pc[p] = "done" THEN "REVERTED" ELSE "REVERT_FAILED")
          /\ Visit(p, s)
    BY <1>6 DEF FinishRevert
  <2>2. AllBackedUp'
    BY <1>6, <2>1, BackupLeftAlone DEF FinishRevert, UpdateStateAndCommit
  <2>3. write'[p].state \notin ActiveStates /\ pc'[p] \in {"done", "fail"}
    BY <1>6, <2>1 DEF FinishRevert, UpdateStateAndCommit, ActiveStates, OpenStates
  <2>4. todo'[p] = todo[p] \ {s} /\ reverting'[p] = reverting[p] /\ s \in reverting[p]
    BY <1>6, <2>1 DEF FinishRevert, Held, TodoHeld, Restoring
  <2>5. BackedUpAs(write[p].id, write[p].state)'
    BY <2>3 DEF BackedUpAs, ActiveStates
  <2> QED
    BY <2>2, <2>3, <2>4, <2>5, <1>6 DEF BackupHeld, FinishRevert, Restoring
<1>7. CASE ReturnFromRevert(p)
  <2>1. AllBackedUp'
    BY <1>7, BackupLeftAlone DEF ReturnFromRevert
  <2> QED
    BY <1>7, <2>1 DEF ReturnFromRevert, BackupHeld, ReturnError, Callers, ReturnOk, Restoring
<1>8. CASE CommitSucceeds(p)
  <2>1. write[p].id \in SessionIds /\ ActiveSessions = {}
    BY <1>8 DEF CommitSucceeds, NoneActive
  <2>2. /\ sessionState'[write[p].id] = write[p].state
        /\ \A u \in SessionIds \ {write[p].id} : sessionState'[u] = sessionState[u]
    BY <1>8, <2>1 DEF CommitSucceeds, Held, WriteHeld
  <2>3. BackedUpAs(write[p].id, write[p].state)
    BY <1>8 DEF CommitSucceeds, BackupHeld
  <2>4. AllBackedUp'
    BY <1>8, <2>1, <2>2, <2>3, ActiveSessionsAre DEF CommitSucceeds, AllBackedUp, BackedUpAs
  <2> QED
    BY <1>8, <2>4 DEF CommitSucceeds, BackupHeld, BackedUpAs
<1>9. CASE CommitFails(p)
  <2>1. AllBackedUp'
    BY <1>9, BackupLeftAlone DEF CommitFails
  <2>2. write'[p] = NoWrite
    BY <1>9 DEF CommitFails
  <2>3. CASE pc' = pc
    BY <1>9, <2>1, <2>2, <2>3 DEF CommitFails, BackupHeld, BackedUpAs
  <2>4. CASE pc'[p] = ReturnError[caller[p]]
    BY <2>1, <2>2, <2>4 DEF BackupHeld, ReturnError, Callers, ReturnOk, Restoring
  <2> QED
    BY <1>9, <2>3, <2>4 DEF CommitFails, GiveUpRevert
<1>10. CASE MarkOpenFails(p)
  <2>1. AllBackedUp'
    BY <1>10, BackupLeftAlone DEF MarkOpenFails
  <2>2. write'[p] = NoWrite /\ pc'[p] = ReturnError[caller[p]]
    BY <1>10 DEF MarkOpenFails, GiveUpRevert
  <2> QED
    BY <2>1, <2>2 DEF BackupHeld, ReturnError, Callers, ReturnOk, Restoring
<1>11. CASE FinishOpenFails(p)
  <2>1. AllBackedUp'
    BY <1>11, BackupLeftAlone DEF FinishOpenFails
  <2>2. PICK s \in todo[p] : todo'[p] = todo[p] \ {s}
    BY <1>11 DEF FinishOpenFails
  <2>3. s \in reverting'[p] /\ pc'[p] \in {"done", "fail"} /\ write'[p] = NoWrite
    BY <1>11, <2>2 DEF FinishOpenFails, Held, TodoHeld, Restoring
  <2> QED
    BY <2>1, <2>2, <2>3 DEF BackupHeld, Restoring
<1>12. CASE OpenFails(p)
  <2>1. AllBackedUp'
    BY <1>12, BackupLeftAlone DEF OpenFails
  <2> QED
    BY <1>12, <2>1 DEF OpenFails, BackupHeld, Restoring
<1> QED
  BY <1>1, <1>2, <1>3, <1>4, <1>5, <1>6, <1>7, <1>8, <1>9, <1>10, <1>11, <1>12
  DEF RevertStep, Revert

(* The main thread neither makes nor deletes a backup.                      *)
LEMMA MainBackup ==
  ASSUME TypeInv, AllBackedUp, Held(Main), BackupHeld(Main), StagingStep \/ BootStep
  PROVE  AllBackedUp' /\ BackupHeld(Main)'
<1> USE DEF At, Goto, Visit, disk, vold, memory, locals, environment, history, TypeInv, TypeOK,
          Procs
<1>1. CASE SessionStaged \/ SessionFails
  <2>1. /\ \A u \in SessionIds : sessionState'[u] \in {sessionState[u], "none", "UNKNOWN"}
        /\ UNCHANGED <<backup, backupExists, original, confirming>>
        /\ pc'[Main] = "next"
    BY <1>1 DEF SessionStaged, SessionFails, FinishSession, UpdateStateAndCommit
  <2>2. AllBackedUp'
    BY <2>1, BackupLeftAlone
  <2>3. CASE write'[Main].state \notin ActiveStates
    BY <2>1, <2>2, <2>3 DEF BackupHeld, BackedUpAs, Restoring, ActiveStates
  <2>4. CASE write'[Main].state \in ActiveStates
    <3>1. SessionStaged
      BY <1>1, <2>4 DEF SessionFails, FinishSession, UpdateStateAndCommit, ActiveStates, OpenStates
    <3>2. session[Main] \in ActiveSessions /\ sessionState[session[Main]] \in {"STAGED", "ACTIVATED"}
      BY <3>1, ActiveSessionsAre DEF SessionStaged, Held, SessionHeld, SessionKnown,
         WithSession, ActiveStates, OpenStates
    <3>3. BackedUpAs(session[Main], "ACTIVATED")
      BY <3>2 DEF AllBackedUp, BackedUpAs, ActiveStates, OpenStates
    <3>4. write'[Main].id = session[Main] /\ write'[Main].state = "ACTIVATED"
      BY <3>1 DEF SessionStaged, FinishSession, UpdateStateAndCommit
    <3> QED
      BY <2>1, <2>2, <3>3, <3>4 DEF BackupHeld, BackedUpAs, Restoring
  <2> QED
    BY <2>3, <2>4
<1>2. CASE StagingStep /\ ~SessionStaged /\ ~SessionFails
  <2>1. /\ UNCHANGED <<sessionState, backup, backupExists, original, confirming>>
        /\ write'[Main] = NoWrite
        /\ pc'[Main] \in MainLabels \cup {"revert"}
    BY <1>2 DEF StagingStep, AskNeedsRollback, CallRevert, ScanStagedSessionsDir, RejectSession,
       AcceptSession, LinkStaged, LinkFails, UnlinkStaged, UnlinkStagedFails, AllLinked,
       UnlinkSuperseded, SupersedeFails, AllStaged, MainLabels
  <2> QED
    BY <2>1, BackupLeftAlone DEF BackupHeld, Restoring, MainLabels
<1>3. CASE BootStep
  <2>1. /\ \A u \in SessionIds : sessionState'[u] \in {sessionState[u], "none"}
        /\ UNCHANGED <<backup, backupExists, original, confirming>>
    BY <1>3 DEF BootStep, CollectDataApexes, ResumeRevertIfNeeded,
       ActivatePackages, ActivateMissing, UpdatableCrashing, SeeBootCompleted, ListDataApexes,
       RemoveInactiveDataApex, ListFinalizedSessions, DeleteFinalizedSession, JoinThreadPool
  <2>2. write'[Main] = NoWrite /\ pc'[Main] \in MainLabels \cup {"revert", "idle"}
    BY <1>3 DEF BootStep, CollectDataApexes, ResumeRevertIfNeeded, CallRevert,
       ActivatePackages, ActivateMissing, UpdatableCrashing, SeeBootCompleted, ListDataApexes,
       RemoveInactiveDataApex, ListFinalizedSessions, DeleteFinalizedSession, JoinThreadPool,
       MainLabels
  <2> QED
    BY <2>1, <2>2, BackupLeftAlone DEF BackupHeld, Restoring, MainLabels
<1> QED
  BY <1>1, <1>2, <1>3

(* SubmitStagedSession makes the backup when no session needs the old one,   *)
(* and MarkStagedSessionSuccessful deletes that of the session it confirms. *)
LEMMA ThreadBackup ==
  ASSUME TypeInv, ~SupportsFsCheckpoints, OneActive, AllBackedUp,
         NEW t \in Threads, NoneActive(t), NoneActive(t)', Held(t), BackupHeld(t),
         Request(t) \/ BackupStep(t) \/ SessionStep(t)
  PROVE  AllBackedUp' /\ BackupHeld(t)'
<1> USE DEF At, Goto, disk, vold, memory, locals, environment, history, TypeInv, TypeOK, Procs
<1>1. ASSUME NEW s \in SessionIds, SubmitStagedSession(t, s)
      PROVE  AllBackedUp' /\ BackupHeld(t)'
  <2>1. pc'[t] = "backup" /\ write'[t] = NoWrite /\ session'[t] = s /\ files'[t] = active
    BY <1>1 DEF SubmitStagedSession, Serve
  <2>2. backupExists' /\ original'[s] = active
    BY <1>1 DEF SubmitStagedSession
  <2>3. AllBackedUp'
    BY <2>1, NothingToBackUp DEF NoneActive, Submitting
  <2> QED
    BY <2>1, <2>2, <2>3 DEF BackupHeld, Restoring
<1>2. CASE Request(t) /\ ~\E s \in SessionIds : SubmitStagedSession(t, s)
  <2>1. /\ UNCHANGED <<sessionState, backup, backupExists, original>>
        /\ confirming \subseteq confirming' /\ write'[t] = NoWrite
        /\ pc'[t] \in {"ready", "confirm", "abort", "revert", "idle"}
        /\ pc'[t] = "confirm" => session'[t] \in confirming'
    BY <1>2 DEF Request, MarkStagedSessionReady, MarkStagedSessionSuccessful,
       AbortStagedSession, ReadSession, Serve, RevertActiveSessions, CallRevert,
       UnstagePackages, MarkBootCompleted
  <2>2. AllBackedUp'
    BY <2>1, BackupLeftAlone
  <2> QED
    BY <2>1, <2>2 DEF BackupHeld, Restoring
<1>3. CASE DeleteBackup(t)
  <2>1. CASE pc[t] \in Submitting
    <3>1. AllBackedUp'
      BY <1>3, <2>1, NothingToBackUp DEF DeleteBackup, NoneActive
    <3> QED
      BY <1>3, <2>1, <3>1 DEF DeleteBackup, BackupHeld, Restoring, Submitting
  <2>2. CASE pc[t] = "confirm"
    <3>1. session[t] \in ActiveSessions /\ session[t] \in confirming
      BY <1>3, <2>2, ActiveSessionsAre DEF Held, SessionHeld, BackupHeld, SessionKnown,
         WithSession, CallLabels, ActiveStates, OpenStates
    <3>2. ActiveSessions' = ActiveSessions /\ confirming' = confirming
      BY <1>3 DEF DeleteBackup, ActiveSessions, SessionsInState
    <3>3. AllBackedUp'
      BY <3>1, <3>2 DEF OneActive, AllBackedUp, BackedUpAs
    <3> QED
      BY <1>3, <2>2, <3>1, <3>3 DEF DeleteBackup, BackupHeld, Restoring
  <2> QED
    BY <1>3, <2>1, <2>2 DEF DeleteBackup, Submitting
<1>4. CASE BackupDeleted(t) \/ DeleteBackupFails(t) \/ LinkBackupFails(t) \/ BackedUp(t)
  <2>1. AllBackedUp'
    BY <1>4, BackupLeftAlone DEF BackupDeleted, DeleteBackupFails, LinkBackupFails, BackedUp
  <2> QED
    BY <1>4, <2>1 DEF BackupDeleted, DeleteBackupFails, LinkBackupFails, BackedUp,
       BackupHeld, Restoring
<1>5. CASE LinkBackup(t)
  <2>1. AllBackedUp'
    BY <1>5, NothingToBackUp DEF LinkBackup, NoneActive, Submitting
  <2>2. PICK f \in files[t] : backup' = backup \cup {f} /\ files'[t] = files[t] \ {f}
    BY <1>5 DEF LinkBackup
  <2> QED
    BY <1>5, <2>1, <2>2 DEF LinkBackup, BackupHeld, Restoring
<1>6. CASE CreateVerifiedSession(t)
  <2>1. /\ write'[t].id = session[t] /\ write'[t].state = "VERIFIED" /\ pc'[t] = "idle"
        /\ backupExists /\ backup = original[session[t]]
    BY <1>6 DEF CreateVerifiedSession, BackupHeld
  <2>2. AllBackedUp'
    BY <1>6, BackupLeftAlone DEF CreateVerifiedSession
  <2> QED
    BY <1>6, <2>1, <2>2 DEF CreateVerifiedSession, BackupHeld, BackedUpAs, Restoring
<1>7. CASE CommitReady(t)
  <2>1. write'[t].id = session[t] /\ write'[t].state = "STAGED" /\ pc'[t] = "idle"
    BY <1>7 DEF CommitReady, UpdateStateAndCommit
  <2>2. session[t] \in ActiveSessions /\ sessionState[session[t]] = "VERIFIED"
    BY <1>7, ActiveSessionsAre DEF CommitReady, Held, SessionHeld, SessionKnown, WithSession,
       CallLabels, ActiveStates, OpenStates
  <2>3. BackedUpAs(session[t], "STAGED")
    BY <2>2 DEF AllBackedUp, BackedUpAs, ActiveStates, OpenStates
  <2>4. AllBackedUp'
    BY <1>7, BackupLeftAlone DEF CommitReady, UpdateStateAndCommit
  <2> QED
    BY <1>7, <2>1, <2>3, <2>4 DEF CommitReady, BackupHeld, BackedUpAs, Restoring
<1>8. CASE CommitSuccess(t)
  <2>1. write'[t].state = "SUCCESS" /\ pc'[t] = "idle"
    BY <1>8 DEF CommitSuccess, UpdateStateAndCommit
  <2>2. AllBackedUp'
    BY <1>8, BackupLeftAlone DEF CommitSuccess, UpdateStateAndCommit
  <2> QED
    BY <2>1, <2>2 DEF BackupHeld, BackedUpAs, ActiveStates, OpenStates, Restoring
<1>9. CASE VerifyFails(t) \/ DeleteSession(t)
  <2>1. AllBackedUp'
    BY <1>9, BackupLeftAlone DEF VerifyFails, DeleteSession
  <2> QED
    BY <1>9, <2>1 DEF VerifyFails, DeleteSession, BackupHeld, Restoring
<1> QED
  BY <1>1, <1>2, <1>3, <1>4, <1>5, <1>6, <1>7, <1>8, <1>9 DEF BackupStep, SessionStep

LEMMA DeviceBackup ==
  ASSUME TypeInv, BackupInv, TurnInv', ~Overlap, OneSessionAtATime, ~SupportsFsCheckpoints,
         Boot \/ PowerLoss \/ Reboot \/ StartCheckpoint \/ CommitChanges \/ Publish
  PROVE  BackupInv'
<1> USE DEF At, Goto, disk, vold, memory, locals, environment, history, TypeInv, TypeOK, Procs
<1>1. UNCHANGED <<sessionState, backup, backupExists, original, confirming>>
  BY DEF Boot, PowerLoss, Reboot, PowerOff, StartCheckpoint, CommitChanges, Publish
<1>2. AllBackedUp'
  BY <1>1, BackupLeftAlone DEF BackupInv
<1>3. journaling' = FALSE
  BY DEF BackupInv, Boot, PowerLoss, Reboot, PowerOff, StartCheckpoint, CommitChanges, Publish
<1>4. \A p \in Procs :
        \/ write'[p] = NoWrite /\ pc'[p] \in Waiting \cup {"start"}
        \/ /\ write'[p] = write[p] /\ pc'[p] = pc[p] /\ files'[p] = files[p]
           /\ session'[p] = session[p] /\ todo'[p] = todo[p] /\ reverting'[p] = reverting[p]
           /\ active' = active
        \/ write'[p] = write[p] /\ pc'[p] \in Waiting \cup {"start"}
  BY DEF Boot, PowerLoss, Reboot, PowerOff, StartCheckpoint, CommitChanges, Publish, Waiting
<1>5. ASSUME NEW p \in Procs
      PROVE  BackupHeld(p)'
  <2>1. BackupHeld(p)
    BY DEF BackupInv
  <2>2. CASE write'[p] = write[p] /\ pc'[p] \in Waiting \cup {"start"}
    BY <1>1, <2>1, <2>2 DEF BackupHeld, BackedUpAs, Waiting, Restoring
  <2>3. CASE write'[p] = NoWrite /\ pc'[p] \in Waiting \cup {"start"}
    BY <2>3 DEF BackupHeld, Waiting, Restoring
  <2> QED
    BY <1>1, <1>4, <2>1, <2>2, <2>3 DEF BackupHeld, BackedUpAs
<1> QED
  BY <1>2, <1>3, <1>5 DEF BackupInv

LEMMA BackupInit == Init => BackupInv
BY ActiveSessionsAre DEF Init, BackupInv, AllBackedUp, BackupHeld, ActiveStates, OpenStates,
   Restoring

(* As in HeldKept, only the process that acts is concerned.                 *)
LEMMA ProtectionKept ==
  ASSUME ~Overlap, OneSessionAtATime, ~SupportsFsCheckpoints, TurnInv, BackupInv,
         NEW p \in Procs, Acts(p), UNCHANGED vold, AllBackedUp', BackupHeld(p)'
  PROVE  BackupInv'
<1>1. \A q \in Procs \ {p} : ~Busy(q)'
  BY TurnKept DEF Acts
<1>2. \A q \in Procs : BackupHeld(q)'
  BY <1>1 DEF Busy, Waiting, BackupHeld, Restoring
<1>3. ~journaling'
  BY DEF BackupInv, vold
<1> QED
  BY <1>2, <1>3 DEF BackupInv

(* No process opens a checkpoint: vold does.                                *)
LEMMA ProcessesLeaveVold ==
  ASSUME \/ \E p \in Procs : RevertStep(p)
         \/ StagingStep \/ BootStep
         \/ \E t \in Threads : Request(t) \/ BackupStep(t) \/ SessionStep(t)
  PROVE  UNCHANGED vold
<1> USE DEF disk
<1>1. ASSUME NEW p \in Procs, RevertStep(p)
      PROVE  UNCHANGED vold
  BY <1>1 DEF RevertStep, Revert, FindActiveSessions, MarkRevertInProgress, MarkOpenFails,
     GiveUpRevert, AllMarked, CheckBackup,
     DeleteActive, ActiveIsEmpty, RenameBackup, RestoreFails, FinishRevert, FinishOpenFails,
     ReturnFromRevert,
     CommitSucceeds, CommitFails, OpenFails
<1>2. CASE StagingStep
  BY <1>2 DEF StagingStep, AskNeedsRollback, ScanStagedSessionsDir, RejectSession,
     AcceptSession, LinkStaged, LinkFails, UnlinkStaged, UnlinkStagedFails, AllLinked,
     UnlinkSuperseded, SupersedeFails, SessionStaged, SessionFails, FinishSession, AllStaged
<1>3. CASE BootStep
  BY <1>3 DEF BootStep, CollectDataApexes, ResumeRevertIfNeeded, ActivatePackages,
     ActivateMissing, UpdatableCrashing, SeeBootCompleted, ListDataApexes,
     RemoveInactiveDataApex, ListFinalizedSessions, DeleteFinalizedSession, JoinThreadPool
<1>4. ASSUME NEW t \in Threads, Request(t) \/ BackupStep(t) \/ SessionStep(t)
      PROVE  UNCHANGED vold
  BY <1>4 DEF Request, SubmitStagedSession, MarkStagedSessionReady, MarkStagedSessionSuccessful,
     AbortStagedSession, ReadSession, RevertActiveSessions, UnstagePackages,
     MarkBootCompleted, BackupStep, DeleteBackup, DeleteBackupFails, BackupDeleted, LinkBackup,
     LinkBackupFails, BackedUp, SessionStep, CreateVerifiedSession, VerifyFails, CommitReady,
     CommitSuccess, DeleteSession
<1> QED
  BY <1>1, <1>2, <1>3, <1>4

LEMMA BackupNext ==
  TypeInv /\ TurnInv /\ HeldInv /\ SessionInv /\ BackupInv /\ [Next]_vars => BackupInv'
<1> SUFFICES ASSUME TypeInv, TurnInv, HeldInv, SessionInv, BackupInv, [Next]_vars,
                    ~Overlap, OneSessionAtATime, ~SupportsFsCheckpoints
             PROVE  BackupInv'
  BY DEF BackupInv
<1>1. /\ OneActive /\ AllBackedUp /\ ~journaling
      /\ \A p \in Procs : Held(p) /\ NoneActive(p) /\ BackupHeld(p)
  BY DEF HeldInv, SessionInv, BackupInv
<1>2. TurnInv' /\ \A p \in Procs : NoneActive(p)'
  BY HeldNext, OneNext DEF SessionInv
<1>3. CASE UNCHANGED vars
  BY <1>1, <1>3 DEF vars, disk, vold, locals, history, BackupInv, AllBackedUp, BackupHeld,
     BackedUpAs, ActiveSessions, SessionsInState
<1>4. ASSUME NEW p \in Procs, RevertStep(p)
      PROVE  BackupInv'
  BY <1>1, <1>4, RevertBackup, ProcessActs, ProtectionKept, ProcessesLeaveVold
<1>5. CASE StagingStep \/ BootStep
  BY <1>1, <1>5, MainBackup, ProcessActs, ProtectionKept, ProcessesLeaveVold DEF Procs
<1>6. ASSUME NEW t \in Threads, Request(t) \/ BackupStep(t) \/ SessionStep(t)
      PROVE  BackupInv'
  <2>1. t \in Procs
    BY DEF Procs
  <2>2. AllBackedUp' /\ BackupHeld(t)'
    BY <1>1, <1>2, <1>6, <2>1, ThreadBackup
  <2> QED
    BY <1>1, <1>6, <2>1, <2>2, ProcessActs, ProtectionKept, ProcessesLeaveVold
<1> QED
  BY <1>2, <1>3, <1>4, <1>5, <1>6, NextSteps, DeviceBackup

LEMMA Backups == Spec => [](TypeInv /\ HeldInv /\ BackupInv)
BY TypeInit, TypeNext, HeldInit, HeldNext, OneInit, OneNext, BackupInit, BackupNext, PTL DEF Spec

(* From the moment a session is VERIFIED until its confirmation or its       *)
(* revert begins, what was active when it was submitted is in the backup,    *)
(* wherever power is lost and whatever fails.                               *)
THEOREM BackupIsIntact ==
  ASSUME ~Overlap, OneSessionAtATime
  PROVE  Spec => []BackupProtectsSession
<1>1. BackupInv => BackupProtectsSession
  BY ActiveSessionsAre DEF BackupInv, BackupProtectsSession, AllBackedUp, BackedUpAs,
     SessionsInState, ActiveStates, OpenStates
<1> QED
  BY <1>1, Backups, PTL

(* When RevertActiveSessions is about to report its sessions REVERTED, what  *)
(* is active is what was active when they were submitted.                   *)
THEOREM RevertRestores ==
  ASSUME ~Overlap, OneSessionAtATime
  PROVE  Spec => []RestoreIsOriginal
<1>1. BackupInv => RestoreIsOriginal
  BY DEF BackupInv, BackupHeld, RestoreIsOriginal
<1> QED
  BY <1>1, Backups, PTL

-----------------------------------------------------------------------------
(* What an ACTIVATED session brought is in /data/apex/active, alone of its    *)
(* packages, where the package installer stages one APEX of a package, none   *)
(* older than the built-in one, and nobody unstages packages.               *)
InstallerKeepsTo ==
  /\ \A s \in SessionIds : \A f, g \in Staged[s] : f.pkg = g.pkg => f = g
  /\ \A s \in SessionIds : \A f \in Staged[s] : f.ver >= PreVersion[f.pkg]
  /\ "unstage" \notin Calls

Installed(s) == \A f \in Staged[s] : {g \in active : g.pkg = f.pkg} = {f}
Activated == SessionsInState({"ACTIVATED"}) \ unrecorded

(* Where vold undoes what was linked, ScanStagedSessionsDirAndStage links it *)
(* again; elsewhere it stays linked from boot to boot.                      *)
InstalledWhenDue ==
  \A s \in Activated :
    (SupportsFsCheckpoints => pc[Main] \in {"next", "collect"} /\ s \notin todo[Main])
      => Installed(s)

(* StagePackages links before it unlinks what the links supersede.          *)
LinkedSoFar ==
  /\ pc[Main] = "stage" => Staged[session[Main]] \ files[Main] \subseteq active
  /\ pc[Main] = "removeOld" => Staged[session[Main]] \subseteq active
  /\ pc[Main] = "collect" => todo[Main] = {}
  /\ ~SupportsFsCheckpoints /\ pc[Main] \in {"stage", "unstage", "removeOld"} =>
       sessionState[session[Main]] = "STAGED"
  /\ ~SupportsFsCheckpoints /\ pc[Main] \in {"next", "stage", "unstage", "removeOld"} =>
       todo[Main] \subseteq SessionsInState({"STAGED"})

ActivatedByMain ==
  \A p \in Procs :
    write[p] # NoWrite /\ write[p].state = "ACTIVATED" =>
      p = Main /\ pc[p] = "next" /\ Installed(write[p].id)

(* BootCompletedCleanup removes what is not mounted, so what is installed    *)
(* has to be mounted by then, or its session to be ACTIVATED no longer.      *)
AfterActivation == Booted \cup {"fallback"}
ActivatedAreMounted ==
  ~SupportsFsCheckpoints =>
    \A s \in Activated :
      /\ pc[Main] \in {"resume", "activate"} => Staged[s] \subseteq Chosen
      /\ pc[Main] \in AfterActivation => Staged[s] \subseteq mounted

InstalledParts == InstalledWhenDue /\ LinkedSoFar /\ ActivatedByMain /\ ActivatedAreMounted
InstalledInv == ~Overlap /\ OneSessionAtATime /\ InstallerKeepsTo => InstalledParts

(* A step after which no session is ACTIVATED, or will be.                  *)
LEMMA NothingInstalled ==
  ASSUME Activated' = {}, LinkedSoFar',
         \A p \in Procs : write'[p] = NoWrite \/ write'[p].state # "ACTIVATED"
  PROVE  InstalledParts'
BY DEF InstalledParts, InstalledWhenDue, ActivatedByMain, ActivatedAreMounted

(* The binder threads work while the main thread waits.                     *)
LEMMA ThreadInstalled ==
  ASSUME TypeInv, ~Overlap, InstallerKeepsTo, TurnInv, HeldInv, InstalledParts, NEW t \in Threads,
         RevertStep(t) \/ Request(t) \/ BackupStep(t) \/ SessionStep(t)
  PROVE  InstalledParts'
<1> USE DEF At, Goto, disk, vold, memory, locals, environment, history
<1>1. t \in Procs /\ t # Main /\ Main \in Procs /\ TypeOK /\ Held(t)
  BY MainAssumption DEF Procs, TypeInv, HeldInv
<1>2. Acts(t)
  BY <1>1, ProcessActs
<1>3. \A q \in Procs \ {t} : ~Busy(q) /\ pc'[q] = pc[q] /\ write'[q] = NoWrite
  BY <1>1, <1>2, OthersWait DEF Acts, OthersStay, Busy
<1>4. pc'[Main] = pc[Main] /\ pc[Main] \in Waiting
  BY <1>1, <1>3 DEF Busy
<1>5. UNCHANGED <<mounted, repo>>
  <2>1. CASE RevertStep(t)
    BY <2>1 DEF RevertStep, Revert, FindActiveSessions, MarkRevertInProgress, MarkOpenFails,
       GiveUpRevert, AllMarked,
       CheckBackup, DeleteActive, ActiveIsEmpty, RenameBackup, RestoreFails, FinishRevert,
       FinishOpenFails,
       ReturnFromRevert, CommitSucceeds, CommitFails, OpenFails
  <2>2. CASE Request(t) \/ BackupStep(t) \/ SessionStep(t)
    BY <2>2 DEF Request, SubmitStagedSession, MarkStagedSessionReady,
       MarkStagedSessionSuccessful, AbortStagedSession, ReadSession, RevertActiveSessions,
       UnstagePackages, MarkBootCompleted, BackupStep, DeleteBackup, DeleteBackupFails,
       BackupDeleted, LinkBackup, LinkBackupFails, BackedUp, SessionStep,
       CreateVerifiedSession, VerifyFails, CommitReady, CommitSuccess, DeleteSession
  <2> QED
    BY <2>1, <2>2
<1>6. write[t] = NoWrite \/ write[t].state # "ACTIVATED"
  BY <1>1 DEF InstalledParts, ActivatedByMain
<1>7. write'[t] = NoWrite \/ write'[t].state # "ACTIVATED"
  <2>1. CASE RevertStep(t)
    BY <1>1, <1>6, <2>1 DEF RevertStep, Revert, FindActiveSessions, MarkRevertInProgress,
       MarkOpenFails, GiveUpRevert, AllMarked,
       CheckBackup, DeleteActive, ActiveIsEmpty, RenameBackup, RestoreFails, FinishRevert,
       FinishOpenFails,
       ReturnFromRevert, CommitSucceeds, CommitFails, OpenFails, UpdateStateAndCommit, TypeOK
  <2>2. CASE Request(t) \/ BackupStep(t)
    BY <1>6, <2>2 DEF Request, SubmitStagedSession, MarkStagedSessionReady,
       MarkStagedSessionSuccessful, AbortStagedSession, ReadSession, RevertActiveSessions,
       UnstagePackages, MarkBootCompleted, BackupStep, DeleteBackup, DeleteBackupFails,
       BackupDeleted, LinkBackup, LinkBackupFails, BackedUp
  <2>3. CASE SessionStep(t)
    BY <1>1, <1>6, <2>3 DEF SessionStep, CreateVerifiedSession, VerifyFails, CommitReady,
       CommitSuccess, DeleteSession, UpdateStateAndCommit, TypeOK
  <2> QED
    BY <2>1, <2>2, <2>3
<1>8. Activated' \subseteq Activated
  <2>1. CASE CommitSucceeds(t)
    BY <1>1, <1>6, <2>1 DEF CommitSucceeds, Activated, SessionsInState, TypeOK
  <2>2. CASE RevertStep(t) /\ ~CommitSucceeds(t)
    BY <1>1, <2>2 DEF RevertStep, Revert, FindActiveSessions, MarkRevertInProgress, MarkOpenFails,
       GiveUpRevert, AllMarked,
       CheckBackup, DeleteActive, ActiveIsEmpty, RenameBackup, RestoreFails, FinishRevert,
       FinishOpenFails,
       ReturnFromRevert, CommitFails, OpenFails, UpdateStateAndCommit, TypeOK, Activated,
       SessionsInState
  <2>3. CASE Request(t) \/ BackupStep(t)
    BY <2>3 DEF Request, SubmitStagedSession, MarkStagedSessionReady,
       MarkStagedSessionSuccessful, AbortStagedSession, ReadSession, RevertActiveSessions,
       UnstagePackages, MarkBootCompleted, BackupStep, DeleteBackup, DeleteBackupFails,
       BackupDeleted, LinkBackup, LinkBackupFails, BackedUp, Activated, SessionsInState
  <2>4. CASE SessionStep(t)
    BY <1>1, <2>4 DEF SessionStep, CreateVerifiedSession, VerifyFails, CommitReady,
       CommitSuccess, DeleteSession, UpdateStateAndCommit, TypeOK, Activated, SessionsInState
  <2> QED
    BY <2>1, <2>2, <2>3, <2>4
<1>9. active' = active \/ Activated = {}
  <2>1. CASE DeleteActive(t) \/ RenameBackup(t)
    BY <1>1, <2>1 DEF DeleteActive, RenameBackup, Held, TodoHeld, Restoring, SessionsInState,
       OpenStates, Activated
  <2>2. CASE RevertStep(t) /\ ~DeleteActive(t) /\ ~RenameBackup(t)
    BY <2>2 DEF RevertStep, Revert, FindActiveSessions, MarkRevertInProgress, MarkOpenFails,
       GiveUpRevert, AllMarked,
       CheckBackup, ActiveIsEmpty, RestoreFails, FinishRevert, FinishOpenFails, ReturnFromRevert,
       CommitSucceeds, CommitFails, OpenFails
  <2>3. CASE Request(t) \/ BackupStep(t) \/ SessionStep(t)
    BY <2>3 DEF Request, SubmitStagedSession, MarkStagedSessionReady,
       MarkStagedSessionSuccessful, AbortStagedSession, ReadSession, RevertActiveSessions,
       UnstagePackages, Serve, InstallerKeepsTo, MarkBootCompleted, BackupStep, DeleteBackup,
       DeleteBackupFails, BackupDeleted, LinkBackup, LinkBackupFails, BackedUp, SessionStep,
       CreateVerifiedSession, VerifyFails, CommitReady, CommitSuccess, DeleteSession
  <2> QED
    BY <2>1, <2>2, <2>3
<1>10. LinkedSoFar'
  BY <1>4 DEF LinkedSoFar, Waiting
<1>11. \A q \in Procs : write'[q] = NoWrite \/ write'[q].state # "ACTIVATED"
  BY <1>3, <1>7
<1>12. CASE Activated = {}
  BY <1>8, <1>10, <1>11, <1>12, NothingInstalled
<1>13. CASE active' = active
  <2>1. InstalledWhenDue'
    BY <1>4, <1>8, <1>13 DEF InstalledParts, InstalledWhenDue, Installed, Waiting
  <2>2. ActivatedAreMounted'
    BY <1>4, <1>5, <1>8 DEF InstalledParts, ActivatedAreMounted, AfterActivation, Booted, Waiting
  <2> QED
    BY <1>10, <1>11, <2>1, <2>2 DEF InstalledParts, ActivatedByMain
<1> QED
  BY <1>9, <1>12, <1>13

ReturnsTo == {"scan", "activate", "reboot", "fallback", "waitBoot", "idle"}
LEMMA ReturnsThere == \A c \in Callers : ReturnOk[c] \in ReturnsTo /\ ReturnError[c] \in ReturnsTo
<1>1. Callers = {"start", "resume", "activate", "waitCrash", "idle"}
  BY DEF Callers, ReturnOk
<1>2. /\ ReturnOk.start = "scan" /\ ReturnOk.resume = "activate" /\ ReturnOk.activate = "reboot"
      /\ ReturnOk.waitCrash = "reboot" /\ ReturnOk.idle = "idle"
  BY DEF ReturnOk
<1>3. /\ ReturnError.start = "scan" /\ ReturnError.resume = "activate"
      /\ ReturnError.activate = "fallback" /\ ReturnError.waitCrash = "waitBoot"
      /\ ReturnError.idle = "idle"
  BY DEF ReturnError
<1> QED
  BY <1>1, <1>2, <1>3 DEF ReturnsTo

(* However the main thread comes back from RevertActiveSessions, no session  *)
(* is ACTIVATED any longer, unless it could not be recorded.                *)
LEMMA RevertInstalled ==
  ASSUME TypeInv, ~Overlap, HeldInv, OneActive, NoneActive(Main), RevertsOne(Main),
         InstalledParts, RevertStep(Main)
  PROVE  InstalledParts'
<1> USE DEF At, Goto, Visit, disk, vold, memory, locals, environment, history
<1>1. Main \in Procs /\ TypeOK /\ Held(Main)
  BY DEF Procs, TypeInv, HeldInv
<1>2. \A q \in Procs \ {Main} : write'[q] = write[q]
  BY <1>1, ProcessActs DEF Acts, OthersStay
<1>3. UNCHANGED <<mounted, repo>>
  BY DEF RevertStep, Revert, FindActiveSessions, MarkRevertInProgress, MarkOpenFails,
     GiveUpRevert, AllMarked, CheckBackup,
     DeleteActive, ActiveIsEmpty, RenameBackup, RestoreFails, FinishRevert, FinishOpenFails,
     ReturnFromRevert,
     CommitSucceeds, CommitFails, OpenFails
<1>4. \A q \in Procs \ {Main} : write'[q] = NoWrite \/ write'[q].state # "ACTIVATED"
  BY <1>2 DEF InstalledParts, ActivatedByMain
<1>5. ASSUME pc'[Main] \in RevertLabels, pc[Main] \in RevertLabels, Activated' \subseteq Activated,
             write'[Main] = NoWrite \/ write'[Main].state # "ACTIVATED",
             active' = active \/ Activated = {}
      PROVE  InstalledParts'
  <2>1. LinkedSoFar' /\ ActivatedAreMounted'
    BY <1>5 DEF LinkedSoFar, ActivatedAreMounted, AfterActivation, Booted, RevertLabels
  <2>2. InstalledWhenDue'
    BY <1>5 DEF InstalledParts, InstalledWhenDue, Installed, RevertLabels
  <2>3. \A q \in Procs : write'[q] = NoWrite \/ write'[q].state # "ACTIVATED"
    BY <1>4, <1>5
  <2> QED
    BY <2>1, <2>2, <2>3 DEF InstalledParts, ActivatedByMain
<1>6. ASSUME pc'[Main] \in ReturnsTo,
             Activated' = {}, write'[Main] = NoWrite
      PROVE  InstalledParts'
  <2>1. LinkedSoFar'
    BY <1>6 DEF LinkedSoFar, ReturnsTo
  <2> QED
    BY <1>4, <1>6, <2>1, NothingInstalled
<1>7. \A c \in Callers : ReturnOk[c] \in ReturnsTo /\ ReturnError[c] \in ReturnsTo
  BY ReturnsThere
<1>8. CASE FindActiveSessions(Main)
  <2>1. CASE ActiveSessions = {}
    <3>1. Activated' = {}
      BY <1>8, <2>1, ActiveSessionsAre DEF FindActiveSessions, Activated, SessionsInState,
         ActiveStates, OpenStates
    <3> QED
      BY <1>1, <1>6, <1>7, <1>8, <2>1, <3>1 DEF FindActiveSessions, TypeOK
  <2>2. CASE ActiveSessions # {}
    BY <1>1, <1>5, <1>8, <2>2 DEF FindActiveSessions, RevertLabels, Activated, SessionsInState,
       TypeOK
  <2> QED
    BY <2>1, <2>2
<1>9. CASE MarkRevertInProgress(Main) \/ FinishRevert(Main)
  <2>1. pc'[Main] = pc[Main] /\ pc[Main] \in RevertLabels /\ active' = active
    BY <1>9 DEF MarkRevertInProgress, FinishRevert, RevertLabels
  <2>2. Activated' \subseteq Activated /\ write'[Main].state # "ACTIVATED"
    BY <1>1, <1>9 DEF MarkRevertInProgress, FinishRevert, UpdateStateAndCommit, Activated,
       SessionsInState, TypeOK
  <2> QED
    BY <1>5, <2>1, <2>2
<1>10. CASE AllMarked(Main) \/ CheckBackup(Main) \/ ActiveIsEmpty(Main) \/ RestoreFails(Main)
  BY <1>1, <1>5, <1>10 DEF AllMarked, CheckBackup, ActiveIsEmpty, RestoreFails, RevertLabels,
     Activated, SessionsInState, TypeOK
<1>11. CASE DeleteActive(Main) \/ RenameBackup(Main)
  <2>1. Activated = {} /\ Activated' = Activated
    BY <1>1, <1>11 DEF DeleteActive, RenameBackup, Held, TodoHeld, Restoring, SessionsInState,
       OpenStates, Activated
  <2> QED
    BY <1>1, <1>5, <1>11, <2>1 DEF DeleteActive, RenameBackup, RevertLabels, TypeOK
<1>12. CASE ReturnFromRevert(Main)
  <2>1. Activated' = {}
    BY <1>1, <1>12 DEF ReturnFromRevert, Held, TodoHeld, Restoring, SessionsInState,
       OpenStates, Activated
  <2> QED
    BY <1>1, <1>6, <1>7, <1>12, <2>1 DEF ReturnFromRevert, TypeOK
<1>13. CASE CommitFails(Main)
  <2>1. write'[Main] = NoWrite /\ Activated' \subseteq Activated /\ active' = active
    BY <1>1, <1>13 DEF CommitFails, GiveUpRevert, TypeOK, Activated, SessionsInState
  <2>2. CASE GiveUpRevert(Main)
    <3>1. Activated' = {}
      BY <1>13, <2>1, ActiveSessionsAre DEF CommitFails, NoneActive, Activated, SessionsInState,
         ActiveStates, OpenStates
    <3> QED
      BY <1>1, <1>6, <1>7, <2>1, <2>2, <3>1 DEF GiveUpRevert, TypeOK
  <2>3. CASE UNCHANGED pc
    <3>1. UNCHANGED <<pc, sessionState, active, todo, session, files>>
      BY <1>13, <2>3 DEF CommitFails
    <3>2. InstalledWhenDue' /\ LinkedSoFar' /\ ActivatedAreMounted'
      BY <1>3, <2>1, <3>1 DEF InstalledParts, InstalledWhenDue, Installed, LinkedSoFar,
         ActivatedAreMounted, SessionsInState, Chosen
    <3> QED
      BY <1>4, <2>1, <3>2 DEF InstalledParts, ActivatedByMain
  <2> QED
    BY <1>13, <2>2, <2>3 DEF CommitFails
<1>14. CASE CommitSucceeds(Main)
  <2>1. /\ write[Main].id \in SessionIds /\ sessionState[write[Main].id] = "UNKNOWN"
        /\ ActiveSessions = {} /\ write'[Main] = NoWrite
        /\ UNCHANGED <<pc, active, todo, session, files>>
        /\ unrecorded' = unrecorded \ {write[Main].id}
    BY <1>1, <1>14 DEF CommitSucceeds, Held, WriteHeld, NoneActive, TypeOK
  <2>2. /\ sessionState'[write[Main].id] = write[Main].state
        /\ \A u \in SessionIds \ {write[Main].id} : sessionState'[u] = sessionState[u]
    BY <1>1, <1>14, <2>1 DEF CommitSucceeds, TypeOK
  <2>3. Activated = {}
    BY <2>1, ActiveSessionsAre DEF Activated, SessionsInState, ActiveStates, OpenStates
  <2>4. pc[Main] \in {"next", "mark", "done", "fail", "idle"}
    BY <1>1, <1>14 DEF CommitSucceeds, Held, WriteHeld
  <2>5. LinkedSoFar'
    BY <2>1, <2>2, <2>4 DEF InstalledParts, LinkedSoFar, SessionsInState
  <2>6. CASE write[Main].state # "ACTIVATED"
    <3>1. Activated' = {}
      BY <2>1, <2>2, <2>3, <2>6 DEF Activated, SessionsInState
    <3> QED
      BY <1>4, <2>1, <2>5, <3>1, NothingInstalled
  <2>7. CASE write[Main].state = "ACTIVATED"
    <3>1. pc[Main] = "next" /\ Installed(write[Main].id)
      BY <1>1, <1>14, <2>7 DEF CommitSucceeds, InstalledParts, ActivatedByMain
    <3>2. Activated' = {write[Main].id}
      BY <2>1, <2>2, <2>3, <2>7 DEF Activated, SessionsInState
    <3>3. InstalledWhenDue' /\ ActivatedAreMounted'
      BY <2>1, <3>1, <3>2 DEF InstalledWhenDue, Installed, ActivatedAreMounted,
         AfterActivation, Booted
    <3> QED
      BY <1>4, <2>1, <2>5, <3>3 DEF InstalledParts, ActivatedByMain
  <2> QED
    BY <2>6, <2>7
<1>15. CASE MarkOpenFails(Main)
  <2>1. ActiveSessions \subseteq reverting[Main]
    BY <1>15 DEF MarkOpenFails, RevertsOne
  <2>2. Activated' = {}
    BY <1>15, <2>1, ActiveSessionsAre DEF MarkOpenFails, GiveUpRevert, Activated, SessionsInState,
       ActiveStates, OpenStates
  <2> QED
    BY <1>1, <1>6, <1>7, <1>15, <2>2 DEF MarkOpenFails, GiveUpRevert, TypeOK
<1>16. CASE FinishOpenFails(Main)
  BY <1>5, <1>16 DEF FinishOpenFails, RevertLabels, Activated, SessionsInState
<1>17. CASE OpenFails(Main)
  <2>1. /\ pc[Main] \in {"unstage", "removeOld"} /\ pc'[Main] = "next" /\ write'[Main] = NoWrite
        /\ UNCHANGED <<sessionState, session, todo, files>>
        /\ unrecorded' = unrecorded \cup {session[Main]}
    BY <1>1, <1>17 DEF OpenFails, TypeOK
  <2>2. session[Main] \in ActiveSessions
    BY <1>1, <2>1, ActiveSessionsAre DEF Held, SessionHeld, TypeInv, SessionKnown, WithSession,
       ActiveStates, OpenStates
  <2>3. Activated' = {}
    BY <2>1, <2>2, ActiveSessionsAre DEF OneActive, Activated, SessionsInState, ActiveStates,
       OpenStates
  <2>4. LinkedSoFar'
    BY <2>1 DEF InstalledParts, LinkedSoFar, SessionsInState
  <2> QED
    BY <1>4, <2>1, <2>3, <2>4, NothingInstalled
<1> QED
  BY <1>8, <1>9, <1>10, <1>11, <1>12, <1>13, <1>14, <1>15, <1>16, <1>17 DEF RevertStep, Revert

(* ScanStagedSessionsDirAndStage: with one session that is active, what is   *)
(* linked for it disturbs no other that is ACTIVATED.                       *)
LEMMA StagingInstalled ==
  ASSUME TypeInv, ~Overlap, InstallerKeepsTo, TurnInv, HeldInv, OneActive, InstalledParts, StagingStep
  PROVE  InstalledParts'
<1> USE DEF At, Goto, Visit, disk, vold, memory, locals, environment, history
<1>1. Main \in Procs /\ TypeOK /\ Held(Main)
  BY DEF Procs, TypeInv, HeldInv
<1>2. \A q \in Procs \ {Main} : write'[q] = NoWrite
  BY <1>1, ProcessActs, OthersWait DEF Acts, OthersStay, Busy
<1>3. CASE AskNeedsRollback \/ ScanStagedSessionsDir \/ AllStaged
  <2>1. /\ UNCHANGED <<sessionState, unrecorded, active, mounted, repo>> /\ write'[Main] = NoWrite
        /\ pc'[Main] \in {"revert", "scan", "next", "collect"}
    BY <1>1, <1>3 DEF AskNeedsRollback, CallRevert, ScanStagedSessionsDir, AllStaged, TypeOK
  <2>2. Activated' = Activated
    BY <2>1 DEF Activated, SessionsInState
  <2>3. pc'[Main] \in {"next", "collect"} /\ SupportsFsCheckpoints =>
          \A s \in Activated : s \in todo'[Main] \/ Installed(s)
    BY <1>1, <1>3 DEF AskNeedsRollback, CallRevert, ScanStagedSessionsDir, AllStaged, TypeOK,
       SessionsToActivate, SessionsInState, Activated, InstalledParts, InstalledWhenDue
  <2>4. InstalledWhenDue'
    BY <2>1, <2>2, <2>3 DEF InstalledParts, InstalledWhenDue, Installed
  <2>5. LinkedSoFar'
    BY <1>1, <1>3, <2>1 DEF AskNeedsRollback, CallRevert, ScanStagedSessionsDir, AllStaged,
       SessionsToActivate, SessionsInState, LinkedSoFar, TypeOK
  <2>6. ActivatedAreMounted'
    BY <2>1 DEF ActivatedAreMounted, AfterActivation, Booted
  <2> QED
    BY <1>2, <2>1, <2>4, <2>5, <2>6 DEF InstalledParts, ActivatedByMain
<1>4. CASE RejectSession \/ AcceptSession
  <2>1. PICK s \in todo[Main] :
          /\ session' = [session EXCEPT ![Main] = s]
          /\ Visit(Main, s)
    BY <1>4 DEF RejectSession, AcceptSession
  <2>2. /\ UNCHANGED <<sessionState, unrecorded, active>> /\ write'[Main] = NoWrite
        /\ pc[Main] = "next" /\ pc'[Main] \in {"unstage", "stage"} /\ session'[Main] = s
        /\ pc'[Main] = "stage" => files'[Main] = Staged[s]
        /\ todo'[Main] = todo[Main] \ {s}
    <3>1. todo'[Main] = todo[Main] \ {s} /\ session'[Main] = s
      BY <1>1, <2>1 DEF TypeOK
    <3>2. pc[Main] = "next" /\ pc'[Main] \in {"unstage", "stage"} /\ write'[Main] = NoWrite
      BY <1>1, <1>4 DEF RejectSession, AcceptSession, TypeOK
    <3>3. pc'[Main] = "stage" => files'[Main] = Staged[session'[Main]]
      <4>1. CASE RejectSession
        BY <1>1, <4>1 DEF RejectSession, TypeOK
      <4>2. CASE AcceptSession
        BY <1>1, <4>2 DEF AcceptSession, TypeOK
      <4> QED
        BY <1>4, <4>1, <4>2
    <3> QED
      BY <1>4, <3>1, <3>2, <3>3 DEF RejectSession, AcceptSession
  <2>3. InstalledWhenDue' /\ ActivatedAreMounted'
    BY <2>2 DEF InstalledParts, InstalledWhenDue, Installed, Activated, SessionsInState,
       ActivatedAreMounted, AfterActivation, Booted
  <2>4. LinkedSoFar'
    BY <2>1, <2>2 DEF InstalledParts, LinkedSoFar, SessionsInState
  <2> QED
    BY <1>2, <2>2, <2>3, <2>4 DEF InstalledParts, ActivatedByMain
<1>5. CASE \/ LinkStaged \/ LinkFails \/ UnlinkStaged \/ UnlinkStagedFails \/ AllLinked
           \/ UnlinkSuperseded \/ SupersedeFails
  <2>1. /\ pc[Main] \in {"stage", "unstage", "removeOld"}
        /\ pc'[Main] \in {"stage", "unstage", "removeOld"}
        /\ UNCHANGED <<sessionState, unrecorded, session, todo>> /\ write'[Main] = NoWrite
    BY <1>1, <1>5 DEF LinkStaged, LinkFails, UnlinkStaged, UnlinkStagedFails, AllLinked,
       UnlinkSuperseded, SupersedeFails, TypeOK
  <2>2. pc'[Main] = "stage" => Staged[session[Main]] \ files'[Main] \subseteq active'
    BY <1>1, <1>5 DEF LinkStaged, LinkFails, UnlinkStaged, UnlinkStagedFails, AllLinked,
       UnlinkSuperseded, SupersedeFails, TypeOK,
       InstalledParts, LinkedSoFar
  <2>3. pc'[Main] = "removeOld" => Staged[session[Main]] \subseteq active'
    BY <1>1, <1>5 DEF LinkStaged, LinkFails, UnlinkStaged, UnlinkStagedFails, AllLinked,
       UnlinkSuperseded, SupersedeFails, TypeOK,
       InstalledParts, LinkedSoFar, Superseded
  <2>4. LinkedSoFar'
    BY <2>1, <2>2, <2>3 DEF InstalledParts, LinkedSoFar, SessionsInState
  <2>5. ~SupportsFsCheckpoints => Activated = {}
    <3>1. session[Main] \in ActiveSessions /\ Activated \subseteq ActiveSessions
      BY <1>1, <2>1, ActiveSessionsAre DEF Held, SessionHeld, TypeInv, SessionKnown, WithSession,
         ActiveStates, OpenStates, Activated, SessionsInState
    <3>2. ~SupportsFsCheckpoints => session[Main] \notin Activated
      BY <2>1 DEF InstalledParts, LinkedSoFar, Activated, SessionsInState
    <3> QED
      BY <3>1, <3>2 DEF OneActive
  <2>6. InstalledWhenDue' /\ ActivatedAreMounted'
    BY <2>1, <2>5 DEF InstalledWhenDue, Activated, SessionsInState, ActivatedAreMounted,
       AfterActivation, Booted
  <2> QED
    BY <1>2, <2>1, <2>4, <2>6 DEF InstalledParts, ActivatedByMain
<1>6. CASE SessionStaged \/ SessionFails
  <2>1. /\ session[Main] \in ActiveSessions /\ session[Main] \in SessionIds
        /\ session[Main] \notin todo[Main]
    BY <1>1, <1>6, ActiveSessionsAre DEF SessionStaged, SessionFails, Held, SessionHeld, TodoHeld,
       TypeInv, SessionKnown, WithSession, ActiveStates, OpenStates
  <2>2. /\ pc'[Main] = "next" /\ UNCHANGED <<active, todo>> /\ write'[Main].id = session[Main]
        /\ sessionState' = [sessionState EXCEPT
                              ![session[Main]] = IF @ = "none" THEN @ ELSE "UNKNOWN"]
    BY <1>1, <1>6 DEF SessionStaged, SessionFails, FinishSession, UpdateStateAndCommit, TypeOK
  <2>3. Activated' = {}
    <3>1. ActiveSessions' = {}
      BY <1>1, <2>1, <2>2, OneTruncated, ActiveSessionsAre
    <3> QED
      BY <3>1, ActiveSessionsAre DEF Activated, SessionsInState, ActiveStates, OpenStates
  <2>4. LinkedSoFar'
    BY <1>1, <1>6, <2>1, <2>2 DEF SessionStaged, SessionFails, InstalledParts, LinkedSoFar,
       SessionsInState, TypeOK
  <2>5. CASE SessionStaged
    <3>1. Staged[session[Main]] \subseteq active /\ Superseded(session[Main]) = {}
      BY <2>5 DEF SessionStaged, InstalledParts, LinkedSoFar
    <3>2. Installed(session[Main])
      BY <2>1, <3>1 DEF Installed, Superseded, PackagesOf, InstallerKeepsTo
    <3>3. Installed(session[Main])'
      BY <2>2, <3>2, <2>5 DEF Installed, SessionStaged, FinishSession
    <3>4. ActivatedByMain'
      BY <1>2, <2>2, <3>3, <2>5 DEF ActivatedByMain, Installed, SessionStaged, FinishSession
    <3>5. InstalledWhenDue' /\ ActivatedAreMounted'
      BY <2>3 DEF InstalledWhenDue, ActivatedAreMounted
    <3> QED
      BY <2>4, <3>4, <3>5 DEF InstalledParts
  <2>6. CASE SessionFails
    <3>1. write'[Main].state = "ACTIVATION_FAILED"
      BY <1>1, <2>6 DEF SessionFails, FinishSession, UpdateStateAndCommit, TypeOK
    <3> QED
      BY <1>2, <2>3, <2>4, <3>1, NothingInstalled
  <2> QED
    BY <1>6, <2>5, <2>6
<1> QED
  BY <1>3, <1>4, <1>5, <1>6 DEF StagingStep

(* The rest of OnStart, and BootCompletedCleanup.                           *)
LEMMA BootInstalled ==
  ASSUME TypeInv, ~Overlap, InstallerKeepsTo, TurnInv, HeldInv, InstalledParts, BootStep
  PROVE  InstalledParts'
<1> USE DEF At, Goto, Visit, disk, vold, memory, locals, environment, history
<1>1. Main \in Procs /\ TypeOK
  BY DEF Procs, TypeInv
<1>2. \A q \in Procs \ {Main} : write'[q] = NoWrite
  BY <1>1, ProcessActs, OthersWait DEF Acts, OthersStay, Busy
<1>3. write'[Main] = NoWrite
  BY DEF BootStep, CollectDataApexes, ResumeRevertIfNeeded, CallRevert, ActivatePackages,
     ActivateMissing, UpdatableCrashing, SeeBootCompleted, ListDataApexes,
     RemoveInactiveDataApex, ListFinalizedSessions, DeleteFinalizedSession, JoinThreadPool
<1>4. Activated' \subseteq Activated
  BY <1>1 DEF BootStep, CollectDataApexes, ResumeRevertIfNeeded, CallRevert, ActivatePackages,
     ActivateMissing, UpdatableCrashing, SeeBootCompleted, ListDataApexes,
     RemoveInactiveDataApex, ListFinalizedSessions, DeleteFinalizedSession, JoinThreadPool,
     Activated, SessionsInState, TypeOK
<1>5. pc'[Main] \in {"resume", "activate", "revert"} \cup Booted
  BY <1>1 DEF BootStep, CollectDataApexes, ResumeRevertIfNeeded, CallRevert, ActivatePackages,
     ActivateMissing, UpdatableCrashing, SeeBootCompleted, ListDataApexes,
     RemoveInactiveDataApex, ListFinalizedSessions, DeleteFinalizedSession, JoinThreadPool,
     Booted, TypeOK
<1>6. LinkedSoFar' /\ ActivatedByMain'
  BY <1>2, <1>3, <1>5 DEF LinkedSoFar, ActivatedByMain, Booted
<1>7. CASE SupportsFsCheckpoints
  BY <1>5, <1>6, <1>7 DEF InstalledParts, InstalledWhenDue, ActivatedAreMounted, Booted
<1>8. CASE ~SupportsFsCheckpoints
  <2>1. \A s \in Activated : s \in SessionIds /\ Staged[s] \subseteq Apexes /\ Installed(s)
    BY <1>8, StagedAssumption DEF InstalledParts, InstalledWhenDue, Activated, SessionsInState
  <2>2. CASE CollectDataApexes
    <3>1. pc'[Main] = "resume" /\ active' = active /\ repo' = Highest(active)
      BY <1>1, <2>2 DEF CollectDataApexes, TypeOK
    <3>2. ASSUME NEW s \in Activated
          PROVE  Staged[s] \subseteq Chosen'
      <4>1. ASSUME NEW f \in Staged[s]
            PROVE  f \in Highest(active)
        <5>1. {g \in active : g.pkg = f.pkg} = {f}
          BY <2>1 DEF Installed
        <5>2. f \in Apexes /\ f.ver \in Nat
          BY <2>1, VersionsAssumption DEF Apexes
        <5> QED
          BY <5>1, <5>2 DEF Highest
      <4>2. \A f \in Staged[s] : f.ver >= PreVersion[f.pkg]
        BY <2>1 DEF InstallerKeepsTo
      <4> QED
        BY <3>1, <4>1, <4>2 DEF Chosen
    <3>3. InstalledWhenDue'
      BY <1>4, <2>1, <3>1 DEF InstalledWhenDue, Installed
    <3>4. ActivatedAreMounted'
      BY <1>4, <3>1, <3>2 DEF ActivatedAreMounted, AfterActivation, Booted
    <3> QED
      BY <1>6, <3>3, <3>4 DEF InstalledParts
  <2>3. CASE ActivatePackages
    <3>1. /\ pc[Main] = "activate" /\ active' = active /\ repo' = repo
          /\ pc'[Main] = "publish" => mounted' = Chosen
          /\ pc'[Main] \in {"publish", "revert"}
      BY <1>1, <2>3 DEF ActivatePackages, CallRevert, TypeOK
    <3>2. InstalledWhenDue'
      BY <1>4, <2>1, <3>1 DEF InstalledWhenDue, Installed
    <3>3. ActivatedAreMounted'
      BY <1>4, <1>8, <3>1 DEF InstalledParts, ActivatedAreMounted, AfterActivation, Booted
    <3> QED
      BY <1>6, <3>2, <3>3 DEF InstalledParts
  <2>4. CASE RemoveInactiveDataApex
    <3>1. PICK f \in files[Main] : active' = IF f \in mounted THEN active ELSE active \ {f}
      BY <2>4 DEF RemoveInactiveDataApex
    <3>2. UNCHANGED <<pc, sessionState, mounted, repo>> /\ pc[Main] = "cleanupFiles"
      BY <2>4 DEF RemoveInactiveDataApex
    <3>3. \A s \in Activated : Staged[s] \subseteq mounted
      BY <1>8, <3>2 DEF InstalledParts, ActivatedAreMounted, AfterActivation, Booted
    <3>4. \A s \in Activated : Installed(s)'
      BY <2>1, <3>1, <3>3 DEF Installed
    <3>5. InstalledWhenDue'
      BY <1>4, <3>4 DEF InstalledWhenDue
    <3>6. ActivatedAreMounted'
      BY <1>4, <3>2, <3>3 DEF ActivatedAreMounted
    <3> QED
      BY <1>6, <3>5, <3>6 DEF InstalledParts
  <2>5. CASE ~CollectDataApexes /\ ~ActivatePackages /\ ~RemoveInactiveDataApex
    <3>1. UNCHANGED <<active, mounted, repo>>
      BY <2>5 DEF BootStep, ResumeRevertIfNeeded, CallRevert, ActivateMissing, UpdatableCrashing,
         SeeBootCompleted, ListDataApexes, ListFinalizedSessions, DeleteFinalizedSession,
         JoinThreadPool
    <3>2. /\ pc[Main] \in {"resume"} \cup AfterActivation
          /\ pc'[Main] \in {"resume", "activate"} => pc[Main] = "resume"
          /\ pc'[Main] \in AfterActivation => pc[Main] \in AfterActivation
      BY <1>1, <2>5 DEF BootStep, ResumeRevertIfNeeded, CallRevert, ActivateMissing,
         UpdatableCrashing, SeeBootCompleted, ListDataApexes, ListFinalizedSessions,
         DeleteFinalizedSession, JoinThreadPool, AfterActivation, Booted, TypeOK
    <3>3. InstalledWhenDue'
      BY <1>4, <2>1, <3>1 DEF InstalledWhenDue, Installed
    <3>4. ActivatedAreMounted'
      BY <1>4, <1>8, <3>1, <3>2 DEF InstalledParts, ActivatedAreMounted, Chosen
    <3> QED
      BY <1>6, <3>3, <3>4 DEF InstalledParts
  <2> QED
    BY <2>2, <2>3, <2>4, <2>5
<1> QED
  BY <1>7, <1>8

(* vold takes away what was linked where there are checkpoints, and then the *)
(* next boot links it again.                                                *)
LEMMA DeviceInstalled ==
  ASSUME TypeInv, ~Overlap, OneSessionAtATime, TurnInv, BackupInv, InstalledParts,
         Boot \/ PowerLoss \/ Reboot \/ StartCheckpoint \/ CommitChanges \/ Publish
  PROVE  InstalledParts'
<1> USE DEF At, Goto, disk, vold, memory, locals, environment, history, TypeInv, TypeOK
<1>1. Main \in Procs /\ Activated' \subseteq Activated
  BY DEF Procs, Activated, SessionsInState, Boot, PowerLoss, Reboot, PowerOff, StartCheckpoint,
     CommitChanges, Publish
<1>2. ~SupportsFsCheckpoints => active' = active
  BY DEF BackupInv, Boot, PowerLoss, Reboot, PowerOff, StartCheckpoint, CommitChanges, Publish
<1>3. CASE StartCheckpoint \/ CommitChanges
  <2>1. UNCHANGED <<pc, write, todo, files, session, sessionState, active, mounted, repo>>
    BY <1>3 DEF StartCheckpoint, CommitChanges
  <2> QED
    BY <1>1, <2>1 DEF InstalledParts, InstalledWhenDue, Installed, LinkedSoFar, ActivatedByMain,
       ActivatedAreMounted, SessionsInState, Chosen
<1>4. CASE PowerLoss \/ Reboot \/ Boot \/ Publish
  <2>1. \A p \in Procs : write'[p] = NoWrite
    <3>1. CASE PowerLoss \/ Reboot
      BY <3>1 DEF PowerLoss, Reboot, PowerOff
    <3>2. CASE Boot
      BY <3>2 DEF Boot, TurnInv, OffTogether
    <3>3. CASE Publish
      <4>1. pc[Main] = "publish" /\ write[Main] = NoWrite /\ write' = write
        BY <3>3 DEF Publish
      <4> QED
        BY <1>1, <4>1 DEF TurnInv, OneBusy, Busy, Waiting
    <3> QED
      BY <1>4, <3>1, <3>2, <3>3
  <2>2. \/ pc'[Main] \in {"off", "start"}
        \/ pc'[Main] = "waitCrash" /\ pc[Main] = "publish" /\ mounted' = mounted
    BY <1>1, <1>4 DEF PowerLoss, Reboot, PowerOff, Boot, Publish
  <2>3. InstalledWhenDue'
    BY <1>1, <1>2, <2>2 DEF InstalledParts, InstalledWhenDue, Installed
  <2>4. LinkedSoFar' /\ ActivatedByMain'
    BY <2>1, <2>2 DEF LinkedSoFar, ActivatedByMain
  <2>5. ActivatedAreMounted'
    BY <1>1, <2>2 DEF InstalledParts, ActivatedAreMounted, AfterActivation, Booted
  <2> QED
    BY <2>3, <2>4, <2>5 DEF InstalledParts
<1> QED
  BY <1>3, <1>4

LEMMA InstalledInit == Init => InstalledInv
BY DEF Init, InstalledInv, InstalledParts, InstalledWhenDue, LinkedSoFar, ActivatedByMain,
   ActivatedAreMounted, Activated, SessionsInState, Procs, AfterActivation, Booted

LEMMA InstalledNext ==
  TypeInv /\ TurnInv /\ HeldInv /\ SessionInv /\ BackupInv /\ InstalledInv /\ [Next]_vars
    => InstalledInv'
<1> SUFFICES ASSUME TypeInv, TurnInv, HeldInv, SessionInv, BackupInv, InstalledInv, [Next]_vars,
                    ~Overlap, OneSessionAtATime, InstallerKeepsTo
             PROVE  InstalledParts'
  BY DEF InstalledInv, InstallerKeepsTo
<1>1. InstalledParts /\ OneActive /\ \A p \in Procs : NoneActive(p) /\ RevertsOne(p)
  BY DEF InstalledInv, SessionInv
<1>2. CASE UNCHANGED vars
  BY <1>1, <1>2 DEF vars, disk, vold, memory, locals, history, InstalledParts, InstalledWhenDue,
     Installed,
     LinkedSoFar, ActivatedByMain, ActivatedAreMounted, Activated, SessionsInState, Chosen
<1>3. CASE RevertStep(Main)
  BY <1>1, <1>3, RevertInstalled DEF Procs
<1>4. CASE StagingStep
  BY <1>1, <1>4, StagingInstalled
<1>5. CASE BootStep
  BY <1>1, <1>5, BootInstalled
<1>6. ASSUME NEW t \in Threads, RevertStep(t) \/ Request(t) \/ BackupStep(t) \/ SessionStep(t)
      PROVE  InstalledParts'
  BY <1>1, <1>6, ThreadInstalled
<1> QED
  BY <1>1, <1>2, <1>3, <1>4, <1>5, <1>6, NextSteps, DeviceInstalled DEF Procs

(* When the data APEXes are collected, those of every ACTIVATED session are  *)
(* in /data/apex/active, alone of their packages: with or without            *)
(* checkpoints, whatever was linked, reverted or lost on the way.  Excepted  *)
(* are the sessions whose failure or revert could not be recorded.          *)
THEOREM ActivatedStayInstalled ==
  ASSUME ~Overlap, OneSessionAtATime, InstallerKeepsTo
  PROVE  Spec => []ActivatedSessionsAreInstalled
<1>1. InstalledInv => ActivatedSessionsAreInstalled
  BY DEF InstalledInv, InstalledParts, InstalledWhenDue, LinkedSoFar, Installed, Activated,
     ActivatedSessionsAreInstalled
<1> QED
  BY <1>1, TypeInit, TypeNext, HeldInit, HeldNext, OneInit, OneNext, BackupInit, BackupNext,
     InstalledInit, InstalledNext, PTL DEF Spec
=============================================================================
