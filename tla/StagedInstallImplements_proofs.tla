-------------------- MODULE StagedInstallImplements_proofs --------------------
(* StagedInstall implements AtomicInstall for every value of the constants,  *)
(* on devices without checkpoints and for one client at a time.             *)
EXTENDS StagedInstallImplements, StagedInstall_proofs

-----------------------------------------------------------------------------
(* The setting, and what is known of it from StagedInstall_proofs.          *)
Setting == ~Overlap /\ OneSessionAtATime /\ ~SupportsFsCheckpoints /\ InstallerKeepsTo

Base == TypeInv /\ TurnInv /\ HeldInv /\ SessionInv /\ BackupInv /\ InstalledInv

LEMMA BaseInit == Init => Base
BY TypeInit, HeldInit, OneInit, BackupInit, InstalledInit DEF Base

LEMMA BaseNext == Base /\ [Next]_vars => Base'
BY TypeNext, HeldNext, OneNext, BackupNext, InstalledNext DEF Base

LEMMA BaseParts ==
  ASSUME Setting
  PROVE  /\ Base =>
              /\ TypeInv /\ TypeOK /\ TurnInv /\ HeldInv /\ NeverReopened /\ OneActive
              /\ AllBackedUp /\ ~journaling /\ InstalledParts
              /\ \A p \in Procs : Held(p) /\ NoneActive(p) /\ RevertsOne(p) /\ BackupHeld(p)
         /\ Base' =>
              /\ TypeInv' /\ TypeOK' /\ TurnInv' /\ HeldInv' /\ NeverReopened' /\ OneActive'
              /\ AllBackedUp' /\ ~journaling' /\ InstalledParts'
              /\ \A p \in Procs : Held(p)' /\ NoneActive(p)' /\ RevertsOne(p)' /\ BackupHeld(p)'
BY DEF Setting, Base, TypeInv, HeldInv, SessionInv, BackupInv, InstalledInv

(* One process acts, and the others wait with nothing to write.             *)
OnlyActs(p) ==
  /\ Acts(p)
  /\ \A q \in Procs \ {p} : /\ pc[q] \in Waiting /\ pc'[q] = pc[q]
                            /\ write[q] = NoWrite /\ write'[q] = NoWrite

LEMMA OneActs ==
  ASSUME Setting, Base
  PROVE  /\ \A p \in Procs : RevertStep(p) => OnlyActs(p)
         /\ StagingStep \/ BootStep => OnlyActs(Main)
         /\ \A t \in Threads : Request(t) \/ BackupStep(t) \/ SessionStep(t) => OnlyActs(t)
<1>1. \A p \in Procs : Acts(p) => OnlyActs(p)
  BY OthersWait DEF Setting, Base, Acts, OthersStay, OnlyActs, Busy
<1> QED
  BY <1>1, ProcessActs DEF Setting, Base, Procs

-----------------------------------------------------------------------------
(* How far a session has come, beyond its state.                            *)
ReadyStates == {"VERIFIED", "STAGED"}
Writes(p, states) == write[p] # NoWrite /\ write[p].state \in states
Undoing == SessionsInState({"REVERT_IN_PROGRESS"})
Staging == {"off", "start", "scan", "next", "stage", "unstage", "removeOld"}

(* A revert has no backup only when it has renamed it, or after a failure.   *)
MayRestore(s) == backupExists \/ s \in confirming \/ active = original[s] \/ faults > 0

(* A revert goes on without the state of a session only where the commit of  *)
(* it failed.                                                              *)
CommitFailed(s) == s \in unrecorded /\ faults > 0
LostIsKnown(s) == sessionState[s] = "UNKNOWN" => CommitFailed(s)

(* What the process in the middle of something knows besides Held.          *)
Concerned(p) ==
  /\ pc[p] \in Submitting =>
       active = original[session[p]] /\ session[p] \notin confirming \cup unrecorded
  /\ Writes(p, OpenStates) => write[p].id \notin confirming
  /\ Writes(p, ReadyStates) => pc[p] = "idle" /\ active \subseteq original[write[p].id]
  /\ Writes(p, {"REVERT_IN_PROGRESS"}) =>
       /\ pc[p] = "mark"
       /\ MayRestore(write[p].id)
  /\ pc[p] \in {"mark"} \cup Restoring => \E s \in SessionIds : reverting[p] = {s}
  /\ pc[p] = "mark" /\ write[p] = NoWrite =>
       \A s \in reverting[p] \ todo[p] : LostIsKnown(s)
  /\ pc[p] \in Restoring => \A s \in todo[p] : LostIsKnown(s)
  /\ pc[p] \in {"empty", "rename"} => backupExists
  /\ pc[p] = "rename" => active = {}
  /\ pc[p] = "fail" => faults > 0 \/ ~backupExists

(* Until the next boot stages a session, nothing that it brings is on /data. *)
NothingNew ==
  /\ \A s \in SessionsInState({"VERIFIED"}) : active \subseteq original[s]
  /\ \A s \in SessionsInState({"STAGED"}) \ unrecorded :
       /\ active \subseteq original[s] \cup Staged[s]
       /\ pc[Main] \notin Staging => active \subseteq original[s]
       /\ pc[Main] = "next" => s \in todo[Main]

ConfirmedOnce ==
  /\ \A s \in confirming : s \in allocated /\ sessionState[s] \notin ReadyStates
  /\ unrecorded \subseteq allocated

(* A revert that has begun goes on, in the next boot if need be, unless it   *)
(* could not be recorded.                                                  *)
RevertGoesOn ==
  \A s \in Undoing :
    /\ \/ pc[Main] \in Staging \cup {"collect", "resume"}
       \/ \E p \in Procs : pc[p] \in {"revert", "mark"} \/ (pc[p] \in Restoring /\ s \in todo[p])
       \/ CommitFailed(s)
    /\ MayRestore(s)

MainKnows ==
  /\ pc[Main] = "stage" => files[Main] \subseteq Staged[session[Main]]
  /\ pc[Main] = "unstage" => faults > 0
  /\ pc[Main] = "cleanupSessions" => todo[Main] \subseteq SessionsInState(FinalStates)

PhaseParts == NothingNew /\ ConfirmedOnce /\ RevertGoesOn /\ MainKnows
PhaseInv == PhaseParts /\ \A p \in Procs : Concerned(p)

LEMMA ConcernedKept ==
  ASSUME NEW p \in Procs, OnlyActs(p), PhaseParts', Concerned(p)'
  PROVE  PhaseInv'
<1>1. \A q \in Procs \ {p} : Concerned(q)'
  BY DEF OnlyActs, Waiting, Concerned, Writes, Submitting, Restoring
<1> QED
  BY <1>1 DEF PhaseInv

(* RevertActiveSessions.                                                   *)
LEMMA RevertPhase ==
  ASSUME Setting, Base, Base', PhaseInv, NEW p \in Procs, RevertStep(p)
  PROVE  PhaseInv'
<1> USE DEF At, Goto, Visit, disk, vold, memory, locals, environment, history, SessionsInState
<1>1. /\ TypeInv /\ TypeOK /\ NeverReopened /\ OneActive /\ AllBackedUp /\ InstalledParts
      /\ Held(p) /\ NoneActive(p) /\ RevertsOne(p) /\ BackupHeld(p) /\ Concerned(p) /\ PhaseParts
      /\ faults \in Nat
  BY BaseParts DEF PhaseInv, TypeOK
<1>2. TypeOK' /\ Held(p)' /\ NoneActive(p)' /\ BackupHeld(p)' /\ OneActive' /\ NeverReopened'
  BY BaseParts
<1>3. /\ OnlyActs(p) /\ Main \in Procs
      /\ \A q \in Procs \ {p} : /\ pc[q] \in Waiting /\ pc'[q] = pc[q]
                                /\ write[q] = NoWrite /\ write'[q] = NoWrite
  BY OneActs DEF OnlyActs, Procs
<1>4. pc[Main] # "off" /\ pc'[Main] # "off"
  BY <1>1, <1>3 DEF Base, Setting, TurnInv, OffTogether, OnlyActs, Acts
<1>5. CASE FindActiveSessions(p)
  <2>1. NothingNew' /\ ConfirmedOnce'
    BY <1>1, <1>3, <1>4, <1>5, ReturnsThere DEF FindActiveSessions, PhaseParts, NothingNew,
       ConfirmedOnce, Staging,
       ReturnsTo, TypeOK, Waiting
  <2>2. RevertGoesOn'
    BY <1>1, <1>3, <1>4, <1>5, ActiveSessionsAre DEF FindActiveSessions, PhaseParts, RevertGoesOn,
       MayRestore, Undoing, ActiveStates, TypeOK
  <2>3. MainKnows'
    BY <1>1, <1>3, <1>4, <1>5, ReturnsThere DEF FindActiveSessions, PhaseParts, MainKnows,
       ReturnsTo, TypeOK, Waiting
  <2>4. Concerned(p)'
    <3>1. ActiveSessions # {} => \E s \in SessionIds : ActiveSessions = {s}
      BY <1>1 DEF OneActive, ActiveSessions
    <3> QED
      BY <1>1, <1>5, <3>1, ReturnsThere DEF FindActiveSessions, Concerned, LostIsKnown,
         CommitFailed, Writes,
         ReturnsTo, Submitting, Restoring, TypeOK
  <2> QED
    BY <1>3, <2>1, <2>2, <2>3, <2>4, ConcernedKept DEF PhaseParts
<1>6. CASE MarkRevertInProgress(p)
  <2>1. PICK s \in todo[p] : UpdateStateAndCommit(p, s, "REVERT_IN_PROGRESS")
                             /\ Visit(p, s) /\ reverted' = reverted \cup {s}
    BY <1>6 DEF MarkRevertInProgress
  <2>2. s \in SessionIds /\ sessionState[s] \in ActiveStates /\ pc[p] = "mark" /\ write[p] = NoWrite
    BY <1>1, <1>6 DEF MarkRevertInProgress, Held, TodoHeld, TypeOK
  <2>3. /\ sessionState'[s] = "UNKNOWN"
        /\ \A u \in SessionIds \ {s} : sessionState'[u] = sessionState[u]
        /\ UNCHANGED <<active, backupExists, pc, session, reverting, files, faults, allocated,
                       original, confirming, unrecorded>>
    BY <1>1, <1>6, <2>1, <2>2 DEF MarkRevertInProgress, UpdateStateAndCommit, ActiveStates,
       OpenStates, TypeOK
  <2>4. /\ write'[p] = [id |-> s, state |-> "REVERT_IN_PROGRESS"] /\ write'[p] # NoWrite
    BY <1>1, <2>1, <2>2 DEF UpdateStateAndCommit, NoWrite, TypeOK
  <2>5. MayRestore(s)
    BY <1>1, <2>2 DEF MayRestore, PhaseParts, RevertGoesOn, Undoing, AllBackedUp, BackedUpAs,
       ActiveSessions,
       ActiveStates, OpenStates, States, FinalStates
  <2>6. Concerned(p)'
    BY <1>1, <2>2, <2>3, <2>4, <2>5 DEF Concerned, MayRestore, Writes, Submitting, Restoring,
       OpenStates, ReadyStates
  <2>7. \A u \in SessionIds : sessionState'[u] \in ActiveStates => FALSE
    BY <1>1, <2>2, <2>3, ActiveSessionsAre DEF OneActive, ActiveStates, OpenStates
  <2>8. NothingNew' /\ RevertGoesOn'
    BY <2>7 DEF NothingNew, RevertGoesOn, Undoing, ActiveStates, OpenStates
  <2>9. ConfirmedOnce'
    BY <1>1, <2>3, <1>2 DEF PhaseParts, ConfirmedOnce, ReadyStates, TypeOK
  <2>10. MainKnows'
    <3>1. pc[Main] # "cleanupSessions"
      BY <1>3, <2>2 DEF Waiting
    <3> QED
      BY <1>1, <2>3, <3>1 DEF PhaseParts, MainKnows
  <2> QED
    BY <1>3, <2>6, <2>8, <2>9, <2>10, ConcernedKept DEF PhaseParts
<1>7. CASE \/ AllMarked(p) \/ CheckBackup(p) \/ DeleteActive(p) \/ ActiveIsEmpty(p) \/ RenameBackup(p)
           \/ RestoreFails(p) \/ FinishRevert(p) \/ ReturnFromRevert(p)
  <2>1. \A s \in SessionIds : sessionState[s] \notin OpenStates
    BY <1>1, <1>7 DEF AllMarked, CheckBackup, DeleteActive, ActiveIsEmpty, RenameBackup,
       RestoreFails,
       FinishRevert, ReturnFromRevert, Held, TodoHeld, Restoring
  <2>2. /\ UNCHANGED <<session, files, confirming, allocated, original, reverting, unrecorded>>
        /\ \A s \in SessionIds : sessionState'[s] \in {sessionState[s], "UNKNOWN"}
    BY <1>1, <1>7 DEF AllMarked, CheckBackup, DeleteActive, ActiveIsEmpty, RenameBackup,
       RestoreFails,
       FinishRevert, ReturnFromRevert, UpdateStateAndCommit, TypeOK
  <2>3. pc[p] \in {"mark"} \cup Restoring /\ pc'[p] \in Restoring \cup ReturnsTo
    BY <1>1, <1>7, ReturnsThere DEF AllMarked, CheckBackup, DeleteActive, ActiveIsEmpty,
       RenameBackup,
       RestoreFails, FinishRevert, ReturnFromRevert, Restoring, TypeOK
  <2>4. NothingNew'
    BY <2>1, <2>2 DEF NothingNew, OpenStates
  <2>5. ConfirmedOnce'
    BY <1>1, <2>2 DEF PhaseParts, ConfirmedOnce, ReadyStates, TypeOK
  <2>6. MainKnows'
    BY <1>3, <2>3 DEF MainKnows, Waiting, Restoring, ReturnsTo
  <2>7. \A q \in Procs \ {p} : pc[q] \notin {"revert", "mark"} \cup Restoring
    BY <1>3 DEF Waiting, Restoring
  <2>8. \A s \in Undoing : /\ MayRestore(s) /\ reverting[p] = {s}
                           /\ pc[p] \in Restoring => s \in todo[p] \/ CommitFailed(s)
    <3> SUFFICES ASSUME NEW s \in Undoing
                 PROVE  /\ MayRestore(s) /\ reverting[p] = {s}
                        /\ pc[p] \in Restoring => s \in todo[p] \/ CommitFailed(s)
      OBVIOUS
    <3>1. s \in ActiveSessions
      BY ActiveSessionsAre DEF Undoing, ActiveStates
    <3>2. s \in reverting[p]
      BY <1>1, <2>3, <3>1 DEF RevertsOne
    <3>3. reverting[p] = {s}
      BY <1>1, <2>3, <3>2 DEF Concerned
    <3>4. pc[Main] \notin Staging \cup {"collect", "resume"}
      BY <1>3, <1>4, <2>3 DEF Staging, Waiting, Restoring
    <3>5. pc[p] \in {"revert", "mark"} \/ (pc[p] \in Restoring /\ s \in todo[p]) \/ CommitFailed(s)
      BY <1>1, <2>7, <3>4 DEF PhaseParts, RevertGoesOn
    <3> QED
      BY <1>1, <3>3, <3>5 DEF PhaseParts, RevertGoesOn, Restoring
  <2>9. CASE AllMarked(p)
    <3>1. pc'[p] = "restore" /\ todo'[p] = reverting[p]
          /\ UNCHANGED <<sessionState, active, backupExists, write, faults>>
      BY <1>1, <2>9 DEF AllMarked, Setting, TypeOK
    <3>2. RevertGoesOn' /\ Concerned(p)'
      BY <1>1, <2>2, <2>8, <2>9, <3>1 DEF RevertGoesOn, CommitFailed, MayRestore, Undoing,
         Concerned, LostIsKnown, CommitFailed,
         Writes, Submitting, Restoring, AllMarked
    <3> QED
      BY <1>3, <2>4, <2>5, <2>6, <3>2, ConcernedKept DEF PhaseParts
  <2>10. CASE CheckBackup(p) \/ ActiveIsEmpty(p) \/ RestoreFails(p)
    <3>1. /\ pc[p] \in Restoring \ {"done", "fail"} /\ pc'[p] \in Restoring
          /\ pc'[p] = "fail" => faults' > 0 \/ ~backupExists
          /\ pc'[p] = "empty" => backupExists
          /\ pc'[p] = "rename" => backupExists /\ active = {}
          /\ faults > 0 => faults' > 0
          /\ UNCHANGED <<sessionState, active, backupExists, write, todo>> /\ write[p] = NoWrite
      BY <1>1, <2>10 DEF CheckBackup, ActiveIsEmpty, RestoreFails, Fault, TypeOK, Restoring,
         Concerned
    <3>2. RevertGoesOn' /\ Concerned(p)'
      BY <1>1, <2>2, <2>8, <3>1 DEF RevertGoesOn, CommitFailed, MayRestore, Undoing, Concerned,
         LostIsKnown, CommitFailed,
         Writes, Submitting, Restoring
    <3> QED
      BY <1>3, <2>4, <2>5, <2>6, <3>2, ConcernedKept DEF PhaseParts
  <2>11. CASE DeleteActive(p)
    <3>1. /\ pc[p] = "empty" /\ backupExists /\ write[p] = NoWrite
          /\ UNCHANGED <<pc, sessionState, backupExists, write, todo, faults>>
      BY <1>1, <2>11 DEF DeleteActive, Concerned
    <3>2. RevertGoesOn' /\ Concerned(p)'
      BY <1>1, <2>2, <2>8, <3>1 DEF RevertGoesOn, CommitFailed, MayRestore, Undoing, Concerned,
         LostIsKnown, CommitFailed,
         Writes, Submitting, Restoring
    <3> QED
      BY <1>3, <2>4, <2>5, <2>6, <3>2, ConcernedKept DEF PhaseParts
  <2>12. CASE RenameBackup(p)
    <3>1. /\ pc[p] = "rename" /\ pc'[p] \in {"done", "fail"} /\ write[p] = NoWrite
          /\ faults > 0 => faults' > 0
          /\ UNCHANGED <<sessionState, write, todo>> /\ active' = backup /\ backupExists /\ ~backupExists'
      BY <1>1, <2>12 DEF RenameBackup, Fault, TypeOK
    <3>2. \A s \in Undoing : s \in confirming \/ backup = original[s]
      BY <1>1, <3>1, ActiveSessionsAre DEF AllBackedUp, BackedUpAs, Undoing, ActiveStates
    <3>3. RevertGoesOn' /\ Concerned(p)'
      BY <1>1, <2>2, <2>8, <3>1, <3>2 DEF RevertGoesOn, CommitFailed, MayRestore, Undoing,
         Concerned, LostIsKnown, CommitFailed,
         Writes, Submitting, Restoring
    <3> QED
      BY <1>3, <2>4, <2>5, <2>6, <3>3, ConcernedKept DEF PhaseParts
  <2>13. CASE FinishRevert(p)
    <3>1. PICK s \in todo[p] : /\ UpdateStateAndCommit(p, s, IF pc[p] = "done" THEN "REVERTED" ELSE "REVERT_FAILED")
                              /\ Visit(p, s)
      BY <2>13 DEF FinishRevert
    <3>2. /\ s \in SessionIds /\ s \in reverting[p] /\ pc[p] \in {"done", "fail"}
          /\ todo' = [todo EXCEPT ![p] = @ \ {s}]
          /\ sessionState'[s] = "UNKNOWN" /\ UNCHANGED <<pc, active, backupExists, faults>>
          /\ write'[p].state \in {"REVERTED", "REVERT_FAILED"}
          /\ \A u \in SessionIds \ {s} : sessionState'[u] = sessionState[u]
      <4>1. /\ s \in SessionIds /\ s \in reverting[p] /\ pc[p] \in {"done", "fail"}
            /\ sessionState[s] # "none" /\ UNCHANGED <<pc, active, backupExists, faults>>
        BY <1>1, <2>13, <3>1 DEF FinishRevert, TypeOK, Held, TodoHeld, Restoring
      <4>2. /\ sessionState'[s] = "UNKNOWN" /\ \A u \in SessionIds \ {s} : sessionState'[u] = sessionState[u]
            /\ write'[p].state \in {"REVERTED", "REVERT_FAILED"}
        BY <1>1, <3>1, <4>1 DEF UpdateStateAndCommit, TypeOK
      <4> QED
        BY <3>1, <4>1, <4>2
    <3>3. Undoing' = {}
      BY <1>1, <3>2, ActiveSessionsAre DEF Undoing, RevertsOne, ActiveStates, Restoring
    <3>4. RevertGoesOn' /\ Concerned(p)'
      BY <1>1, <2>2, <3>2, <3>3 DEF RevertGoesOn, Concerned, LostIsKnown, CommitFailed, Writes,
         Submitting, Restoring,
         ReadyStates, OpenStates, TypeOK
    <3> QED
      BY <1>3, <2>4, <2>5, <2>6, <3>4, ConcernedKept DEF PhaseParts
  <2>14. CASE ReturnFromRevert(p)
    <3>1. /\ pc[p] \in {"done", "fail"} /\ todo[p] = {} /\ write[p] = NoWrite
          /\ UNCHANGED <<sessionState, write, active, backupExists, faults>> /\ pc'[p] \in ReturnsTo
      BY <1>1, <2>14, ReturnsThere DEF ReturnFromRevert, TypeOK
    <3>2. \A s \in Undoing' : CommitFailed(s)
      BY <2>8, <3>1 DEF Undoing, Restoring
    <3>3. RevertGoesOn' /\ Concerned(p)'
      BY <1>1, <2>2, <2>8, <3>1, <3>2 DEF RevertGoesOn, CommitFailed, MayRestore, Undoing,
         Concerned, Writes, Submitting,
         Restoring, ReturnsTo
    <3> QED
      BY <1>3, <2>4, <2>5, <2>6, <3>3, ConcernedKept DEF PhaseParts
  <2> QED
    BY <1>7, <2>9, <2>10, <2>11, <2>12, <2>13, <2>14
<1>8. CASE CommitSucceeds(p)
  <2>1. PICK s \in SessionIds, st \in States :
          /\ write[p] = [id |-> s, state |-> st] /\ sessionState[s] = "UNKNOWN"
          /\ sessionState'[s] = st /\ \A u \in SessionIds \ {s} : sessionState'[u] = sessionState[u]
          /\ UNCHANGED <<pc, session, todo, reverting, files, confirming, allocated, original, active,
                         backupExists, faults>>
          /\ write[p] # NoWrite /\ write'[p] = NoWrite /\ unrecorded' = unrecorded \ {s}
    BY <1>1, <1>8 DEF CommitSucceeds, TypeOK, Held, WriteHeld
  <2>2. \A u \in SessionIds : sessionState[u] \notin ActiveStates
    BY <1>1, <2>1, ActiveSessionsAre DEF NoneActive
  <2>3. pc[p] \in {"next", "mark", "done", "fail", "idle"} /\ pc[p] \notin Submitting
    BY <1>1, <2>1 DEF Held, WriteHeld, Submitting
  <2>4. st \in ReadyStates => pc[p] = "idle" /\ active \subseteq original[s]
    BY <1>1, <2>1 DEF Concerned, Writes
  <2>10. st \in ReadyStates => s \notin confirming
    BY <1>1, <2>1 DEF Concerned, Writes, ReadyStates, OpenStates
  <2>5. NothingNew'
    <3>1. \A u \in SessionIds : sessionState'[u] \in ReadyStates => u = s /\ st \in ReadyStates
      BY <2>1, <2>2 DEF ReadyStates, ActiveStates, OpenStates
    <3>2. st \in ReadyStates => pc'[Main] \in Waiting
      BY <1>3, <2>1, <2>4 DEF Waiting
    <3> QED
      BY <2>1, <2>4, <3>1, <3>2 DEF NothingNew, ReadyStates, Waiting
  <2>6. ConfirmedOnce'
    BY <1>1, <2>1, <2>10 DEF PhaseParts, ConfirmedOnce, TypeOK
  <2>7. RevertGoesOn'
    BY <1>1, <2>1, <2>2, <2>3 DEF RevertGoesOn, CommitFailed, MayRestore, Undoing, Concerned,
       Writes, ActiveStates
  <2>8. MainKnows'
    BY <1>1, <1>3, <2>1, <2>3 DEF PhaseParts, MainKnows, FinalStates, Waiting
  <2>9. Concerned(p)'
    <3>1. pc[p] = "mark" => reverting[p] = {s} /\ st = "REVERT_IN_PROGRESS"
      BY <1>1, <2>1 DEF RevertsOne, Concerned, Held, WriteHeld
    <3>2. pc[p] \in Restoring => s \notin todo[p]
      BY <1>1, <2>1, <2>3 DEF Held, WriteHeld, Restoring
    <3>3. todo[p] \subseteq SessionIds
      BY <1>1 DEF TypeOK
    <3> QED
      BY <1>1, <2>1, <2>3, <3>1, <3>2, <3>3 DEF Concerned, LostIsKnown, CommitFailed, Writes,
         Submitting, Restoring
  <2> QED
    BY <1>3, <2>5, <2>6, <2>7, <2>8, <2>9, ConcernedKept DEF PhaseParts
<1>9. CASE CommitFails(p)
  <2>1. PICK s \in SessionIds :
          /\ write[p].id = s /\ sessionState[s] = "UNKNOWN"
          /\ UNCHANGED <<sessionState, session, todo, reverting, files, confirming, allocated, original,
                         active, backupExists>>
          /\ write[p] # NoWrite /\ write'[p] = NoWrite /\ faults' > 0
          /\ pc'[p] \in {pc[p]} \cup ReturnsTo
          /\ s \in unrecorded' /\ unrecorded \subseteq unrecorded' /\ unrecorded' \subseteq unrecorded \cup {s}
    <3>1. PICK s \in SessionIds : write[p].id = s /\ write[p] # NoWrite /\ sessionState[s] = "UNKNOWN"
      BY <1>1, <1>9 DEF CommitFails, Held, WriteHeld, TypeOK
    <3>2. /\ UNCHANGED <<sessionState, session, todo, reverting, files, confirming, allocated, original,
                         active, backupExists>>
          /\ write'[p] = NoWrite /\ faults' > 0
      BY <1>1, <1>9, <3>1 DEF CommitFails, Fault, TypeOK
    <3>3. /\ pc'[p] \in {pc[p]} \cup ReturnsTo
          /\ \/ unrecorded' = unrecorded \cup {s}
             \/ write[p].state = "REVERT_IN_PROGRESS" /\ unrecorded' = unrecorded \cup reverting[p]
      BY <1>1, <1>9, <3>1, ReturnsThere DEF CommitFails, GiveUpRevert, TypeOK
    <3>4. write[p].state = "REVERT_IN_PROGRESS" => reverting[p] = {s}
      BY <1>1, <3>1 DEF RevertsOne, Concerned, Writes
    <3> QED
      BY <3>1, <3>2, <3>3, <3>4
  <2>2. \A u \in SessionIds : sessionState[u] \notin ActiveStates
    BY <1>1, <2>1, ActiveSessionsAre DEF NoneActive
  <2>3. pc[p] \in {"next", "mark", "done", "fail", "idle"}
    BY <1>1, <2>1 DEF Held, WriteHeld
  <2>4. NothingNew' /\ RevertGoesOn'
    BY <2>1, <2>2 DEF NothingNew, RevertGoesOn, Undoing, ActiveStates, OpenStates
  <2>5. ConfirmedOnce'
    BY <1>1, <2>1 DEF PhaseParts, ConfirmedOnce, NeverReopened
  <2>6. MainKnows'
    BY <1>1, <1>3, <2>1, <2>3 DEF MainKnows, Waiting, ReturnsTo
  <2>7. Concerned(p)'
    <3>1. pc[p] = "mark" => reverting[p] = {s}
      BY <1>1, <2>1 DEF RevertsOne, Concerned
    <3> QED
      BY <1>1, <2>1, <2>3, <3>1 DEF Concerned, LostIsKnown, CommitFailed, Writes, Submitting,
         Restoring, ReturnsTo
  <2> QED
    BY <1>3, <2>4, <2>5, <2>6, <2>7, ConcernedKept DEF PhaseParts
<1>10. CASE MarkOpenFails(p)
  <2>1. PICK s \in SessionIds : sessionState[s] \in ActiveStates /\ reverting[p] = {s} /\ pc[p] = "mark"
    <3>1. PICK s \in SessionIds : reverting[p] = {s}
      BY <1>1, <1>10 DEF MarkOpenFails, Concerned
    <3> QED
      BY <1>1, <1>10, <3>1 DEF MarkOpenFails, Held, TodoHeld
  <2>2. /\ UNCHANGED <<sessionState, session, todo, reverting, files, confirming, allocated, original,
                       active, backupExists, write>>
        /\ faults' > 0 /\ unrecorded' = unrecorded \cup {s} /\ write[p] = NoWrite /\ pc'[p] \in ReturnsTo
    BY <1>1, <1>10, <2>1, ReturnsThere DEF MarkOpenFails, GiveUpRevert, Fault, TypeOK
  <2>3. \A u \in SessionIds : sessionState[u] \in ActiveStates => u = s
    BY <1>1, <2>1, ActiveSessionsAre DEF OneActive
  <2>4. NothingNew'
    BY <1>1, <2>2, <2>3 DEF PhaseParts, NothingNew, ActiveStates, OpenStates
  <2>5. ConfirmedOnce'
    BY <1>1, <2>1, <2>2 DEF PhaseParts, ConfirmedOnce, NeverReopened, ActiveStates, OpenStates
  <2>6. RevertGoesOn'
    BY <2>2, <2>3 DEF RevertGoesOn, CommitFailed, MayRestore, Undoing, ActiveStates
  <2>7. MainKnows'
    BY <1>3, <2>1, <2>2 DEF MainKnows, Waiting, ReturnsTo
  <2>8. Concerned(p)'
    BY <2>2 DEF Concerned, Writes, Submitting, Restoring, ReturnsTo
  <2> QED
    BY <1>3, <2>4, <2>5, <2>6, <2>7, <2>8, ConcernedKept DEF PhaseParts
<1>11. CASE FinishOpenFails(p)
  <2>1. PICK s \in todo[p] : Visit(p, s) /\ unrecorded' = unrecorded \cup {s}
    BY <1>11 DEF FinishOpenFails
  <2>2. /\ UNCHANGED <<sessionState, session, reverting, files, confirming, allocated, original,
                       active, backupExists, write, pc>>
        /\ faults' > 0 /\ write[p] = NoWrite /\ pc[p] \in {"done", "fail"}
        /\ s \in SessionIds /\ todo'[p] \subseteq todo[p] /\ reverting[p] = {s}
        /\ sessionState[s] \in {"REVERT_IN_PROGRESS", "UNKNOWN"}
    <3>1. reverting[p] = {s}
      BY <1>1, <1>11, <2>1 DEF FinishOpenFails, Held, TodoHeld, Concerned, Restoring
    <3> QED
      BY <1>1, <1>11, <2>1, <3>1 DEF FinishOpenFails, Fault, Held, TodoHeld, Restoring, TypeOK
  <2>3. \A u \in SessionIds : sessionState[u] \in ActiveStates => u = s
    BY <1>1, <2>2, ActiveSessionsAre DEF RevertsOne, Restoring
  <2>4. NothingNew'
    BY <2>2, <2>3 DEF NothingNew, ActiveStates, OpenStates
  <2>5. ConfirmedOnce'
    BY <1>1, <2>1, <2>2 DEF PhaseParts, ConfirmedOnce, NeverReopened
  <2>6. RevertGoesOn'
    BY <2>1, <2>2, <2>3 DEF RevertGoesOn, CommitFailed, MayRestore, Undoing, ActiveStates
  <2>7. MainKnows'
    BY <1>3, <2>2 DEF MainKnows, Waiting
  <2>8. Concerned(p)'
    BY <1>1, <2>1, <2>2 DEF Concerned, LostIsKnown, CommitFailed, Writes, Submitting, Restoring
  <2> QED
    BY <1>3, <2>4, <2>5, <2>6, <2>7, <2>8, ConcernedKept DEF PhaseParts
<1>12. CASE OpenFails(p)
  <2>1. /\ UNCHANGED <<sessionState, session, todo, files, confirming, allocated, original, active,
                       backupExists, write>>
        /\ faults' > 0 /\ unrecorded' = unrecorded \cup {session[p]} /\ write[p] = NoWrite
        /\ pc[p] \in {"unstage", "removeOld", "ready", "confirm"}
        /\ p = Main => pc'[p] = "next"
        /\ p # Main => pc'[p] = "idle"
    BY <1>1, <1>12 DEF OpenFails, Fault, TypeOK
  <2>2. session[p] \in SessionIds /\ sessionState[session[p]] \in OpenStates
    BY <1>1, <1>12, <2>1 DEF OpenFails, TypeInv, SessionKnown, WithSession, CallLabels, Held,
       SessionHeld, OpenStates
  <2>3. \A u \in SessionIds : sessionState[u] \in ActiveStates => u = session[p]
    BY <1>1, <2>2, ActiveSessionsAre DEF OneActive, ActiveStates
  <2>4. NothingNew'
    BY <1>1, <2>1, <2>2, <2>3 DEF PhaseParts, NothingNew, ActiveStates, OpenStates
  <2>5. ConfirmedOnce'
    BY <1>1, <2>1, <2>2 DEF PhaseParts, ConfirmedOnce, NeverReopened, OpenStates
  <2>6. RevertGoesOn'
    BY <2>1, <2>2, <2>3 DEF RevertGoesOn, Undoing, ActiveStates, OpenStates
  <2>7. MainKnows'
    BY <1>3, <2>1 DEF MainKnows, Waiting
  <2>8. Concerned(p)'
    BY <2>1 DEF Concerned, Writes, Submitting, Restoring
  <2> QED
    BY <1>3, <2>4, <2>5, <2>6, <2>7, <2>8, ConcernedKept DEF PhaseParts
<1> QED
  BY <1>5, <1>6, <1>7, <1>8, <1>9, <1>10, <1>11, <1>12 DEF RevertStep, Revert

(* Where nobody is at a revert, nothing is being reverted but what could not *)
(* be recorded.                                                            *)
LEMMA NothingUndone ==
  ASSUME PhaseInv, NEW p \in Procs, OnlyActs(p), pc[Main] \notin Staging \cup {"collect", "resume"},
         pc[p] \notin {"revert", "mark"} \cup Restoring
  PROVE  \A s \in Undoing : CommitFailed(s)
<1>1. \A q \in Procs : pc[q] \notin {"revert", "mark"} \cup Restoring
  BY DEF OnlyActs, Waiting, Restoring
<1> QED
  BY <1>1 DEF PhaseInv, PhaseParts, RevertGoesOn

LEMMA StagingPhase ==
  ASSUME Setting, Base, Base', PhaseInv, StagingStep
  PROVE  PhaseInv'
<1> USE DEF At, Goto, Visit, disk, vold, memory, locals, environment, history, SessionsInState
<1>1. /\ TypeInv /\ TypeOK /\ OneActive /\ LinkedSoFar /\ Held(Main) /\ PhaseParts
      /\ Main \in Procs /\ faults \in Nat
  BY BaseParts DEF PhaseInv, Procs, InstalledParts, TypeOK
<1>2. TypeOK'
  BY BaseParts
<1>3. OnlyActs(Main)
  BY OneActs
<1>4. /\ pc[Main] \in Staging \ {"off"} /\ pc'[Main] \in (Staging \ {"off", "start"}) \cup {"collect"}
      /\ UNCHANGED <<backupExists, original, confirming, allocated, unrecorded>> /\ faults' >= faults
      /\ write'[Main] = NoWrite \/ write'[Main].state \in {"ACTIVATED", "ACTIVATION_FAILED"}
  BY <1>1 DEF StagingStep, AskNeedsRollback, ScanStagedSessionsDir, RejectSession, AcceptSession,
     LinkStaged,
     LinkFails, UnlinkStaged, UnlinkStagedFails, AllLinked, UnlinkSuperseded, SupersedeFails,
     SessionStaged,
     SessionFails, FinishSession, AllStaged, Fault, UpdateStateAndCommit, TypeOK, Staging, Setting
<1>5. CASE AskNeedsRollback \/ ScanStagedSessionsDir \/ RejectSession \/ AcceptSession \/ AllStaged
  <2>1. UNCHANGED <<sessionState, active>> /\ write'[Main] = NoWrite /\ write' = write
    BY <1>5 DEF AskNeedsRollback, ScanStagedSessionsDir, RejectSession, AcceptSession, AllStaged
  <2>2. NothingNew'
    BY <1>1, <1>5, <2>1 DEF Setting, AskNeedsRollback, ScanStagedSessionsDir, RejectSession,
       AcceptSession,
       AllStaged, PhaseParts, NothingNew, SessionsToActivate, Staging, TypeOK
  <2>3. ConfirmedOnce'
    BY <1>1, <1>4, <2>1 DEF PhaseParts, ConfirmedOnce
  <2>4. RevertGoesOn'
    <3>1. faults > 0 => faults' > 0
      BY <1>1, <1>2, <1>4 DEF TypeOK
    <3>2. \A s \in SessionIds : MayRestore(s) => MayRestore(s)'
      BY <1>4, <2>1, <3>1 DEF MayRestore
    <3>3. pc'[Main] \in Staging \cup {"collect"}
      BY <1>4
    <3> QED
      BY <1>1, <2>1, <3>2, <3>3 DEF PhaseParts, RevertGoesOn, Undoing
  <2>5. MainKnows'
    BY <1>1, <1>5, <2>1 DEF Setting, AskNeedsRollback, ScanStagedSessionsDir, RejectSession,
       AcceptSession,
       AllStaged, PhaseParts, MainKnows, MayInstall, Fault, TypeOK
  <2>6. Concerned(Main)'
    BY <1>4, <2>1 DEF Concerned, Writes, Staging, Submitting, Restoring
  <2> QED
    BY <1>1, <1>3, <2>2, <2>3, <2>4, <2>5, <2>6, ConcernedKept DEF PhaseParts
<1>6. CASE \/ LinkStaged \/ LinkFails \/ UnlinkStaged \/ UnlinkStagedFails \/ AllLinked
           \/ UnlinkSuperseded \/ SupersedeFails
  <2>1. /\ UNCHANGED <<sessionState, session, todo, write>> /\ write'[Main] = NoWrite
        /\ pc[Main] \in {"stage", "unstage", "removeOld"} /\ pc'[Main] \in {"stage", "unstage", "removeOld"}
    BY <1>1, <1>6 DEF LinkStaged, LinkFails, UnlinkStaged, UnlinkStagedFails, AllLinked,
       UnlinkSuperseded,
       SupersedeFails, TypeOK
  <2>2. session[Main] \in SessionIds /\ sessionState[session[Main]] = "STAGED"
    BY <1>1, <2>1 DEF Setting, LinkedSoFar, TypeInv, SessionKnown, WithSession
  <2>3. \A s \in SessionIds : sessionState[s] \in ActiveStates => s = session[Main]
    BY <1>1, <2>2, ActiveSessionsAre DEF OneActive, ActiveStates, OpenStates
  <2>4. active' \subseteq active \cup Staged[session[Main]]
    BY <1>1, <1>6 DEF LinkStaged, LinkFails, UnlinkStaged, UnlinkStagedFails, AllLinked,
       UnlinkSuperseded,
       SupersedeFails, PhaseParts, MainKnows
  <2>5. NothingNew'
    BY <1>1, <1>4, <2>1, <2>2, <2>3, <2>4 DEF PhaseParts, NothingNew, Staging, ActiveStates,
       OpenStates
  <2>6. ConfirmedOnce'
    BY <1>1, <1>4, <2>1 DEF PhaseParts, ConfirmedOnce
  <2>7. RevertGoesOn'
    BY <1>4, <2>1, <2>2, <2>3 DEF RevertGoesOn, Undoing, ActiveStates
  <2>8. MainKnows'
    BY <1>1, <1>2, <1>6 DEF LinkStaged, LinkFails, UnlinkStaged, UnlinkStagedFails, AllLinked,
       UnlinkSuperseded,
       SupersedeFails, PhaseParts,
       MainKnows, TypeOK, Fault
  <2>9. Concerned(Main)'
    BY <1>4, <2>1 DEF Concerned, Writes, Staging, Submitting, Restoring
  <2> QED
    BY <1>1, <1>3, <2>5, <2>6, <2>7, <2>8, <2>9, ConcernedKept DEF PhaseParts
<1>7. CASE SessionStaged \/ SessionFails
  <2>1. PICK s \in SessionIds, st \in {"ACTIVATED", "ACTIVATION_FAILED"} :
          /\ UpdateStateAndCommit(Main, s, st) /\ sessionState[s] = "STAGED"
          /\ pc'[Main] = "next" /\ UNCHANGED active
    BY <1>1, <1>7 DEF Setting, SessionStaged, SessionFails, FinishSession, LinkedSoFar, TypeInv,
       SessionKnown, WithSession, TypeOK
  <2>2. /\ write'[Main] = [id |-> s, state |-> st] /\ write'[Main] # NoWrite
        /\ sessionState'[s] = "UNKNOWN" /\ \A u \in SessionIds \ {s} : sessionState'[u] = sessionState[u]
    BY <1>1, <2>1 DEF UpdateStateAndCommit, TypeOK, NoWrite
  <2>3. \A u \in SessionIds : sessionState'[u] \notin ActiveStates
    BY <1>1, <2>1, <2>2, ActiveSessionsAre DEF OneActive, ActiveStates, OpenStates
  <2>4. NothingNew' /\ RevertGoesOn'
    BY <2>3 DEF NothingNew, RevertGoesOn, Undoing, ActiveStates, OpenStates
  <2>5. ConfirmedOnce'
    BY <1>1, <1>4, <2>2 DEF PhaseParts, ConfirmedOnce, ReadyStates, TypeOK
  <2>6. MainKnows'
    BY <2>1 DEF MainKnows
  <2>7. s \notin confirming
    BY <1>1, <2>1 DEF PhaseParts, ConfirmedOnce, ReadyStates
  <2>8. Concerned(Main)'
    BY <1>4, <2>1, <2>2, <2>7 DEF Concerned, Writes, ReadyStates, Submitting, Restoring
  <2> QED
    BY <1>1, <1>3, <2>4, <2>5, <2>6, <2>8, ConcernedKept DEF PhaseParts
<1> QED
  BY <1>5, <1>6, <1>7 DEF StagingStep

LEMMA BootPhase ==
  ASSUME Setting, Base, Base', PhaseInv, BootStep
  PROVE  PhaseInv'
<1> USE DEF At, Goto, Visit, disk, vold, memory, locals, environment, history, SessionsInState
<1>1. /\ TypeInv /\ TypeOK /\ PhaseParts /\ Main \in Procs
  BY BaseParts DEF PhaseInv, Procs
<1>2. OnlyActs(Main)
  BY OneActs
<1>3. /\ pc[Main] \in {"collect", "resume"} \cup AfterActivation \cup {"activate"}
      /\ pc'[Main] \in {"resume", "revert", "activate"} \cup AfterActivation
      /\ write'[Main] = NoWrite
      /\ UNCHANGED <<backupExists, original, confirming, allocated, unrecorded, faults>>
      /\ active' \subseteq active
      /\ \A s \in SessionIds : sessionState'[s] \in {sessionState[s], "none"}
  BY <1>1 DEF BootStep, CollectDataApexes, ResumeRevertIfNeeded, CallRevert, ActivatePackages,
     ActivateMissing, UpdatableCrashing, SeeBootCompleted, ListDataApexes, RemoveInactiveDataApex,
     ListFinalizedSessions, DeleteFinalizedSession, JoinThreadPool, AfterActivation, Booted, TypeOK
<1>4. NothingNew'
  BY <1>1, <1>3 DEF PhaseParts, NothingNew, Staging, AfterActivation, Booted
<1>5. ConfirmedOnce'
  BY <1>1, <1>3 DEF PhaseParts, ConfirmedOnce, ReadyStates, TypeOK
<1>6. RevertGoesOn'
  <2>1. CASE CollectDataApexes
    BY <1>1, <2>1 DEF CollectDataApexes, PhaseParts, RevertGoesOn, MayRestore, CommitFailed,
       Undoing, TypeOK
  <2>2. CASE ResumeRevertIfNeeded
    BY <1>1, <2>2 DEF ResumeRevertIfNeeded, CallRevert, PhaseParts, RevertGoesOn, MayRestore,
       CommitFailed, Undoing, TypeOK
  <2>3. CASE ~CollectDataApexes /\ ~ResumeRevertIfNeeded
    <3>1. pc[Main] \in AfterActivation \cup {"activate"}
      BY <2>3 DEF BootStep, ActivatePackages,
         ActivateMissing, UpdatableCrashing, SeeBootCompleted, ListDataApexes,
         RemoveInactiveDataApex,
         ListFinalizedSessions, DeleteFinalizedSession, JoinThreadPool, AfterActivation, Booted
    <3>2. \A s \in Undoing : CommitFailed(s)
      BY <1>1, <1>2, <3>1, NothingUndone DEF AfterActivation, Booted, Staging, Restoring
    <3> QED
      BY <1>3, <3>2 DEF RevertGoesOn, MayRestore, CommitFailed, Undoing
  <2> QED
    BY <2>1, <2>2, <2>3
<1>7. MainKnows'
  <2>1. pc'[Main] \notin {"stage", "unstage"}
    BY <1>3 DEF AfterActivation, Booted
  <2>2. pc'[Main] = "cleanupSessions" => ListFinalizedSessions \/ DeleteFinalizedSession
    BY <1>1 DEF BootStep, CollectDataApexes, ResumeRevertIfNeeded, CallRevert, ActivatePackages,
     ActivateMissing, UpdatableCrashing, SeeBootCompleted, ListDataApexes, RemoveInactiveDataApex,
     JoinThreadPool, TypeOK
  <2>3. pc'[Main] = "cleanupSessions" => todo'[Main] \subseteq SessionsInState(FinalStates)'
    BY <1>1, <2>2 DEF ListFinalizedSessions, DeleteFinalizedSession, PhaseParts, MainKnows, TypeOK
  <2> QED
    BY <2>1, <2>3 DEF MainKnows
<1>8. Concerned(Main)'
  BY <1>3 DEF Concerned, Writes, AfterActivation, Booted, Submitting, Restoring
<1> QED
  BY <1>1, <1>2, <1>4, <1>5, <1>6, <1>7, <1>8, ConcernedKept DEF PhaseParts

LEMMA ThreadPhase ==
  ASSUME Setting, Base, Base', PhaseInv, NEW t \in Threads,
         Request(t) \/ BackupStep(t) \/ SessionStep(t)
  PROVE  PhaseInv'
<1> USE DEF At, Goto, Visit, disk, vold, memory, locals, environment, history, SessionsInState
<1>1. /\ TypeInv /\ TypeOK /\ PhaseParts /\ t \in Procs /\ Main \in Procs /\ t # Main
      /\ NeverReopened /\ Held(t) /\ Concerned(t) /\ NoneActive(t) /\ faults \in Nat
  BY BaseParts, MainAssumption DEF PhaseInv, Procs, TypeOK
<1>2. OnlyActs(t)
  BY OneActs
<1>3. pc[Main] \in Waiting \ {"off"} /\ pc'[Main] = pc[Main]
  <2>1. pc[Main] # "off"
    BY <1>1, <1>2 DEF OnlyActs, Acts, Setting, Base, TurnInv, OffTogether
  <2> QED
    BY <1>1, <1>2, <2>1 DEF OnlyActs
<1>4. \A s \in Undoing : CommitFailed(s)
  <2>1. pc[t] \in {"idle"} \cup CallLabels
    BY DEF Request, SubmitStagedSession, MarkStagedSessionReady, MarkStagedSessionSuccessful,
       AbortStagedSession, ReadSession, RevertActiveSessions, UnstagePackages, MarkBootCompleted,
       Serve,
       BackupStep, DeleteBackup, DeleteBackupFails, BackupDeleted, LinkBackup, LinkBackupFails,
       BackedUp,
       SessionStep, CreateVerifiedSession, VerifyFails, CommitReady, CommitSuccess, DeleteSession,
       CallLabels
  <2> QED
    BY <1>1, <1>2, <1>3, <2>1, NothingUndone DEF Waiting, Staging, CallLabels, Restoring
<1>5. MainKnows'
  BY <1>3 DEF MainKnows, Waiting
<1>6. ASSUME NEW s \in SessionIds, SubmitStagedSession(t, s)
      PROVE  PhaseInv'
  <2>1. /\ UNCHANGED <<sessionState, active, confirming, unrecorded>> /\ s \notin allocated /\ allocated' = allocated \cup {s}
        /\ pc'[t] = "backup" /\ session'[t] = s /\ original'[s] = active /\ write'[t] = NoWrite
    BY <1>1, <1>6 DEF SubmitStagedSession, MaySubmit, Serve, Setting, TypeOK
  <2>2. \A u \in SessionIds : sessionState[u] \notin ActiveStates
    BY <1>6 DEF SubmitStagedSession, MaySubmit, Setting, ActiveStates, OpenStates, FinalStates
  <2>3. NothingNew' /\ RevertGoesOn' /\ ConfirmedOnce'
    BY <1>1, <2>1, <2>2 DEF NothingNew, RevertGoesOn, Undoing, PhaseParts, ConfirmedOnce,
       ActiveStates, OpenStates
  <2>4. s \notin confirming \cup unrecorded
    BY <1>1, <2>1 DEF PhaseParts, ConfirmedOnce
  <2>5. Concerned(t)'
    BY <2>1, <2>4 DEF Concerned, Writes, Submitting, Restoring
  <2> QED
    BY <1>1, <1>2, <1>5, <2>3, <2>5, ConcernedKept DEF PhaseParts
<1>7. ASSUME NEW s \in SessionIds,
             \/ MarkStagedSessionReady(t, s) \/ MarkStagedSessionSuccessful(t, s) \/ AbortStagedSession(t, s)
      PROVE  PhaseInv'
  <2>1. /\ UNCHANGED <<sessionState, active, allocated, original, unrecorded, backupExists, faults>>
        /\ write'[t] = NoWrite
        /\ pc'[t] \in {"ready", "confirm", "abort"} /\ confirming \subseteq confirming'
        /\ \A u \in confirming' \ confirming : u = s /\ sessionState[s] = "ACTIVATED"
    BY <1>1, <1>7 DEF MarkStagedSessionReady, MarkStagedSessionSuccessful, AbortStagedSession,
       ReadSession,
       Serve, TypeOK
  <2>2. NothingNew' /\ RevertGoesOn'
    BY <1>1, <1>3, <1>4, <2>1 DEF PhaseParts, NothingNew, RevertGoesOn, MayRestore, CommitFailed,
       Undoing, Waiting, Staging
  <2>3. ConfirmedOnce'
    BY <1>1, <2>1 DEF PhaseParts, ConfirmedOnce, ReadyStates, NeverReopened
  <2>4. Concerned(t)'
    BY <2>1 DEF Concerned, Writes, Submitting, Restoring
  <2> QED
    BY <1>1, <1>2, <1>5, <2>2, <2>3, <2>4, ConcernedKept DEF PhaseParts
<1>8. CASE RevertActiveSessions(t) \/ UnstagePackages(t) \/ MarkBootCompleted(t) \/ BackupStep(t) \/ VerifyFails(t)
  <2>1. /\ UNCHANGED <<sessionState, active, allocated, original, confirming, session, unrecorded>>
        /\ write'[t] = NoWrite /\ faults' >= faults /\ backupExists' = backupExists
        /\ pc'[t] \in {pc[t], "revert", "idle", "link", "discard", "verify"}
        /\ pc[t] \in {"idle", "backup", "link", "discard", "verify", "confirm"}
        /\ pc'[t] \in Submitting => pc[t] \in Submitting
    BY <1>1, <1>8 DEF RevertActiveSessions, CallRevert, UnstagePackages, MarkBootCompleted,
       BackupStep,
       DeleteBackup, DeleteBackupFails, BackupDeleted, LinkBackup, LinkBackupFails, BackedUp,
       VerifyFails,
       Serve, Setting, InstallerKeepsTo, TypeOK, Submitting, Fault
  <2>2. NothingNew' /\ ConfirmedOnce'
    BY <1>1, <1>3, <2>1 DEF PhaseParts, NothingNew, ConfirmedOnce, Waiting, Staging
  <2>3. RevertGoesOn'
    <3>1. faults' \in Nat
      BY BaseParts DEF TypeOK
    <3>2. \A s \in Undoing : CommitFailed(s)' /\ MayRestore(s)'
      BY <1>1, <1>4, <2>1, <3>1 DEF MayRestore, CommitFailed, Undoing
    <3> QED
      BY <2>1, <3>2 DEF RevertGoesOn, Undoing
  <2>4. Concerned(t)'
    BY <1>1, <2>1 DEF Concerned, Writes, Submitting, Restoring
  <2> QED
    BY <1>1, <1>2, <1>5, <2>2, <2>3, <2>4, ConcernedKept DEF PhaseParts
<1>9. CASE CreateVerifiedSession(t) \/ CommitReady(t) \/ CommitSuccess(t) \/ DeleteSession(t)
  <2>1. session[t] \in SessionIds
    BY <1>1, <1>9 DEF CreateVerifiedSession, CommitReady, CommitSuccess, DeleteSession, TypeInv,
       SessionKnown,
       WithSession, CallLabels
  <2>2. /\ UNCHANGED <<active, allocated, original, confirming, unrecorded, backupExists, faults>>
        /\ pc'[t] = "idle"
        /\ \A u \in SessionIds : sessionState'[u] \in {sessionState[u], "none", "UNKNOWN"}
    BY <1>1, <1>9 DEF CreateVerifiedSession, CommitReady, CommitSuccess, DeleteSession,
       UpdateStateAndCommit, TypeOK
  <2>3. write'[t] # NoWrite =>
          /\ write'[t].id = session[t] /\ write'[t].state \in {"VERIFIED", "STAGED", "SUCCESS"}
          /\ write'[t].state \in ReadyStates =>
               pc[t] = "verify" \/ (pc[t] = "ready" /\ sessionState[session[t]] = "VERIFIED")
    BY <1>1, <1>9 DEF CreateVerifiedSession, CommitReady, CommitSuccess, DeleteSession,
       UpdateStateAndCommit, TypeOK,
       Held, SessionHeld, ReadyStates
  <2>4. write'[t] # NoWrite /\ write'[t].state \in ReadyStates =>
          active \subseteq original[session[t]] /\ session[t] \notin confirming
    BY <1>1, <2>1, <2>3 DEF Concerned, PhaseParts, NothingNew, ConfirmedOnce, ReadyStates,
       Submitting
  <2>5. NothingNew' /\ RevertGoesOn' /\ ConfirmedOnce'
    BY <1>1, <1>3, <1>4, <2>2 DEF PhaseParts, NothingNew, RevertGoesOn, MayRestore, CommitFailed,
       Undoing, ConfirmedOnce,
       ReadyStates, TypeOK, Waiting, Staging
  <2>6. Concerned(t)'
    BY <2>2, <2>3, <2>4 DEF Concerned, Writes, Submitting, Restoring, ReadyStates, OpenStates
  <2> QED
    BY <1>1, <1>2, <1>5, <2>5, <2>6, ConcernedKept DEF PhaseParts
<1> QED
  BY <1>6, <1>7, <1>8, <1>9 DEF Request, SessionStep

LEMMA DevicePhase ==
  ASSUME Setting, Base, Base', PhaseInv,
         Boot \/ PowerLoss \/ Reboot \/ StartCheckpoint \/ CommitChanges \/ Publish
  PROVE  PhaseInv'
<1> USE DEF At, Goto, disk, vold, memory, locals, environment, history, SessionsInState
<1>1. TypeOK /\ TurnInv /\ ~journaling /\ PhaseParts /\ Main \in Procs
  BY BaseParts DEF PhaseInv, Procs
<1>2. ~StartCheckpoint /\ ~CommitChanges
  BY <1>1 DEF StartCheckpoint, CommitChanges, Setting
<1>3. UNCHANGED <<sessionState, active, backupExists, allocated, original, confirming, faults>>
  BY <1>1, <1>2 DEF Boot, PowerLoss, Reboot, PowerOff, Publish
<1>8. /\ unrecorded \subseteq unrecorded' /\ unrecorded' \subseteq allocated
      /\ Publish => unrecorded' = unrecorded
  <2>1. \A p \in Procs : write[p] # NoWrite => write[p].id \in allocated
    BY <1>1, BaseParts DEF Held, WriteHeld, NeverReopened, TypeOK
  <2> QED
    BY <1>1, <1>2, <2>1 DEF Boot, PowerLoss, Reboot, PowerOff, Publish, PhaseParts, ConfirmedOnce
<1>4. \A p \in Procs : pc'[p] \in {"off", "start", "idle", "waitCrash"} /\ write'[p] = NoWrite
  <2>1. CASE PowerLoss \/ Reboot
    BY <2>1 DEF PowerLoss, Reboot, PowerOff
  <2>2. CASE Boot
    BY <1>1, <2>2 DEF Boot, Setting, TurnInv, OffTogether, TypeOK
  <2>3. CASE Publish
    BY <1>1, <2>3 DEF Publish, Setting, TurnInv, OneBusy, Busy, Waiting
  <2> QED
    BY <1>2, <2>1, <2>2, <2>3
<1>5. \/ pc'[Main] \in {"off", "start"}
      \/ pc'[Main] = "waitCrash" /\ pc[Main] = "publish" /\ \A s \in Undoing : CommitFailed(s)
  <2>1. CASE Publish
    <3>1. pc[Main] = "publish" /\ \A q \in Procs \ {Main} : pc[q] \in Waiting
      BY <1>1, <2>1 DEF Publish, Setting, TurnInv, OneBusy, Busy, Waiting
    <3> QED
      BY <1>1, <2>1, <3>1 DEF Publish, PhaseParts, RevertGoesOn, Staging, Restoring, Waiting
  <2> QED
    BY <1>1, <1>2, <2>1 DEF Boot, PowerLoss, Reboot, PowerOff, TypeOK
<1>6. NothingNew' /\ ConfirmedOnce' /\ RevertGoesOn' /\ MainKnows'
  BY <1>1, <1>3, <1>5, <1>8 DEF PhaseParts, NothingNew, ConfirmedOnce, RevertGoesOn, MayRestore,
     CommitFailed, MainKnows,
     Undoing, Staging
<1>7. \A p \in Procs : Concerned(p)'
  BY <1>4 DEF Concerned, Writes, Submitting, Restoring
<1> QED
  BY <1>6, <1>7 DEF PhaseInv, PhaseParts

LEMMA PhaseInit == Init => PhaseInv
BY DEF Init, PhaseInv, PhaseParts, NothingNew, ConfirmedOnce, RevertGoesOn, MainKnows, Undoing,
   Concerned, Writes,
   Submitting, Restoring, SessionsInState, Procs

LEMMA PhaseNext == ASSUME Setting PROVE Base /\ PhaseInv /\ [Next]_vars => PhaseInv'
<1> SUFFICES ASSUME Base, PhaseInv, [Next]_vars PROVE PhaseInv'
  OBVIOUS
<1>1. Base'
  BY BaseNext
<1>2. CASE UNCHANGED vars
  BY <1>2 DEF vars, disk, vold, memory, locals, environment, history, PhaseInv, PhaseParts,
     NothingNew,
     ConfirmedOnce, RevertGoesOn, MayRestore, CommitFailed, MainKnows, Undoing, Concerned,
     LostIsKnown, CommitFailed, Writes, SessionsInState
<1> QED
  BY <1>1, <1>2, NextSteps, RevertPhase, StagingPhase, BootPhase, ThreadPhase, DevicePhase

-----------------------------------------------------------------------------
(* The state of a session, through the file that holds it and the process    *)
(* that is about to write it: at most the one that acts.                    *)
OthersWriteNothing(p) == \A q \in Procs \ {p} : write[q] = NoWrite

LEMMA StateOfIs ==
  ASSUME NEW p \in Procs
  PROVE  /\ OthersWriteNothing(p) =>
              \A s \in SessionIds : StateOf(s) =
                IF sessionState[s] = "UNKNOWN" /\ write[p] # NoWrite /\ write[p].id = s
                  THEN write[p].state ELSE sessionState[s]
         /\ OthersWriteNothing(p)' =>
              \A s \in SessionIds : StateOf(s)' =
                IF sessionState'[s] = "UNKNOWN" /\ write'[p] # NoWrite /\ write'[p].id = s
                  THEN write'[p].state ELSE sessionState'[s]
<1>1. ASSUME OthersWriteNothing(p), NEW s \in SessionIds
      PROVE  StateOf(s) = IF sessionState[s] = "UNKNOWN" /\ write[p] # NoWrite /\ write[p].id = s
                            THEN write[p].state ELSE sessionState[s]
  <2>1. Writers(s) = IF write[p] # NoWrite /\ write[p].id = s THEN {p} ELSE {}
    BY <1>1 DEF Writers, OthersWriteNothing
  <2>2. Writers(s) = {p} => (CHOOSE q \in Writers(s) : TRUE) = p
    OBVIOUS
  <2> QED
    BY <2>1, <2>2 DEF StateOf, Writing
<1>2. ASSUME OthersWriteNothing(p)', NEW s \in SessionIds
      PROVE  StateOf(s)' = IF sessionState'[s] = "UNKNOWN" /\ write'[p] # NoWrite /\ write'[p].id = s
                             THEN write'[p].state ELSE sessionState'[s]
  <2>1. Writers(s)' = IF write'[p] # NoWrite /\ write'[p].id = s THEN {p} ELSE {}
    BY <1>2 DEF Writers, OthersWriteNothing
  <2>2. Writers(s)' = {p} => (CHOOSE q \in Writers(s)' : TRUE) = p
    OBVIOUS
  <2> QED
    BY <2>1, <2>2 DEF StateOf, Writing
<1> QED
  BY <1>1, <1>2

(* What the steps of a process do to the states.                            *)
SameState(s) == StateOf(s)' = StateOf(s) /\ sessionState'[s] = sessionState[s]
SameStates(S) == \A s \in S : SameState(s)

LEMMA QuietStates ==
  ASSUME UNCHANGED <<sessionState, write>>
  PROVE  SameStates(SessionIds)
BY DEF SameStates, SameState, StateOf, Writing, Writers

LEMMA TruncatedState ==
  ASSUME TypeOK, NEW p \in Procs, OnlyActs(p), NEW s \in SessionIds, NEW st \in States,
         UpdateStateAndCommit(p, s, st), write[p] = NoWrite, sessionState[s] # "none"
  PROVE  /\ sessionState'[s] = "UNKNOWN" /\ StateOf(s)' = st
         /\ StateOf(s) = sessionState[s]
         /\ SameStates(SessionIds \ {s})
<1>1. OthersWriteNothing(p) /\ OthersWriteNothing(p)'
  BY DEF OnlyActs, OthersWriteNothing
<1>2. /\ write'[p] = [id |-> s, state |-> st] /\ write'[p] # NoWrite
      /\ sessionState'[s] = "UNKNOWN"
      /\ \A u \in SessionIds \ {s} : sessionState'[u] = sessionState[u]
  BY DEF UpdateStateAndCommit, TypeOK, NoWrite, States
<1> QED
  BY <1>1, <1>2, StateOfIs DEF SameStates, SameState

LEMMA WrittenState ==
  ASSUME TypeOK, NEW p \in Procs, OnlyActs(p), Held(p), CommitSucceeds(p) \/ CommitFails(p)
  PROVE  \E s \in SessionIds :
           /\ write[p].id = s /\ write[p] # NoWrite /\ sessionState[s] = "UNKNOWN"
           /\ StateOf(s) = write[p].state
           /\ SameStates(SessionIds \ {s})
           /\ \A u \in SessionIds \ {s} : StateOf(u) = sessionState[u]
           /\ CommitSucceeds(p) => sessionState'[s] = write[p].state /\ StateOf(s)' = StateOf(s)
           /\ CommitFails(p) => /\ sessionState'[s] = "UNKNOWN" /\ StateOf(s)' = "UNKNOWN"
                                /\ faults' = faults + 1
<1>1. OthersWriteNothing(p) /\ OthersWriteNothing(p)'
  BY DEF OnlyActs, OthersWriteNothing
<1>2. /\ write[p] # NoWrite /\ write[p].id \in SessionIds /\ sessionState[write[p].id] = "UNKNOWN"
      /\ write'[p] = NoWrite
  BY DEF CommitSucceeds, CommitFails, TypeOK, Held, WriteHeld
<1>3. CASE CommitSucceeds(p)
  <2>1. /\ sessionState'[write[p].id] = write[p].state /\ ~CommitFails(p)
        /\ \A u \in SessionIds \ {write[p].id} : sessionState'[u] = sessionState[u]
    BY <1>2, <1>3 DEF CommitSucceeds, CommitFails, TypeOK, Fault, environment
  <2> QED
    BY <1>1, <1>2, <1>3, <2>1, StateOfIs DEF SameStates, SameState
<1>4. CASE CommitFails(p)
  <2>1. sessionState' = sessionState /\ faults' = faults + 1 /\ ~CommitSucceeds(p)
    BY <1>2, <1>4 DEF CommitSucceeds, CommitFails, Fault, disk, environment, TypeOK
  <2> QED
    BY <1>1, <1>2, <1>4, <2>1, StateOfIs DEF SameStates, SameState
<1> QED
  BY <1>3, <1>4

LEMMA OneChanged ==
  ASSUME NEW p \in Procs, OnlyActs(p), NEW s \in SessionIds, write[p] = NoWrite,
         write'[p] = NoWrite \/ write'[p].id = s,
         \A u \in SessionIds \ {s} : sessionState'[u] = sessionState[u]
  PROVE  /\ StateOf(s) = sessionState[s] /\ SameStates(SessionIds \ {s})
         /\ StateOf(s)' = IF sessionState'[s] = "UNKNOWN" /\ write'[p] # NoWrite
                            THEN write'[p].state ELSE sessionState'[s]
<1>1. OthersWriteNothing(p) /\ OthersWriteNothing(p)'
  BY DEF OnlyActs, OthersWriteNothing
<1> QED
  BY <1>1, StateOfIs DEF SameStates, SameState

-----------------------------------------------------------------------------
(* BootCompletedCleanup keeps what the device runs: what was activated, but  *)
(* for packages of which an APEX may have failed to activate.  That holds    *)
(* until a session is reverted or has failed, which excuses the rest.       *)
Spoiled == {"REVERT_IN_PROGRESS", "REVERTED", "REVERT_FAILED", "ACTIVATION_FAILED"}
ExcusedBy(s) == StateOf(s) \in Spoiled \/ (StateOf(s) = "UNKNOWN" /\ faults > 0)
Excused == \E s \in SessionIds : ExcusedBy(s)

AccountedFor == \A f \in Runs(active) : f \in mounted \/ f.pkg \in PackagesOf(Flaky)
AfterFailure == {"fallback", "publish", "waitCrash", "waitBoot", "cleanup", "cleanupFiles"}
InRevert(callers) == pc[Main] \in RevertLabels /\ caller[Main] \in callers

RunsInv ==
  /\ pc[Main] \in {"resume", "activate"} => Chosen = Runs(active) \/ Excused
  /\ InRevert({"resume"}) => Excused
  /\ pc[Main] \in AfterFailure \/ InRevert({"activate", "waitCrash"}) => AccountedFor \/ Excused

(* Only after a failure is a session astray.                               *)
StrayInv == \A s \in SessionIds : Astray(s) => faults > 0

Inv == Base /\ PhaseInv /\ RunsInv /\ StrayInv

(* The other sessions excuse what they did.                                  *)
LEMMA StillExcused ==
  ASSUME TypeOK, TypeOK', faults' >= faults, NEW s \in SessionIds, SameStates(SessionIds \ {s}),
         ExcusedBy(s) => ExcusedBy(s)'
  PROVE  Excused => Excused'
<1>1. \A u \in SessionIds \ {s} : ExcusedBy(u) => ExcusedBy(u)'
  BY DEF ExcusedBy, SameStates, SameState, TypeOK
<1> QED
  BY <1>1 DEF Excused

LEMMA SameExcuse ==
  ASSUME TypeOK, TypeOK', faults' >= faults, SameStates(SessionIds)
  PROVE  Excused => Excused'
BY DEF Excused, ExcusedBy, SameStates, SameState, TypeOK

(* A revert that empties /data/apex/active excuses what goes.               *)
LEMMA RevertExcuses ==
  ASSUME Setting, Base, Base', PhaseInv, NEW p \in Procs, RevertStep(p)
  PROVE  /\ Excused => Excused'
         /\ active' = active \/ Excused'
         /\ UNCHANGED <<repo, mounted, caller>>
<1> USE DEF At, Goto, Visit, disk, vold, memory, locals, environment, history
<1>1. /\ TypeOK /\ TypeOK' /\ Held(p) /\ BackupHeld(p) /\ Concerned(p) /\ OnlyActs(p)
  BY BaseParts, OneActs DEF PhaseInv
<1>2. UNCHANGED <<repo, mounted, caller>> /\ faults' >= faults
  BY <1>1 DEF RevertStep, Revert, FindActiveSessions, MarkRevertInProgress, MarkOpenFails,
     AllMarked,
     CheckBackup, DeleteActive, ActiveIsEmpty, RenameBackup, RestoreFails, FinishRevert,
     FinishOpenFails,
     ReturnFromRevert, CommitSucceeds, CommitFails, OpenFails, Fault, TypeOK
<1>3. CASE \/ FindActiveSessions(p) \/ MarkOpenFails(p) \/ AllMarked(p) \/ CheckBackup(p)
           \/ ActiveIsEmpty(p) \/ RestoreFails(p) \/ FinishOpenFails(p) \/ ReturnFromRevert(p)
           \/ OpenFails(p)
  <2>1. UNCHANGED <<active, sessionState, write>>
    BY <1>3 DEF FindActiveSessions, MarkOpenFails, AllMarked, CheckBackup, ActiveIsEmpty,
       RestoreFails,
       FinishOpenFails, ReturnFromRevert, OpenFails
  <2> QED
    BY <1>1, <1>2, <2>1, QuietStates, SameExcuse
<1>4. CASE MarkRevertInProgress(p) \/ FinishRevert(p)
  <2>1. PICK s \in SessionIds, st \in Spoiled :
          /\ UpdateStateAndCommit(p, s, st) /\ write[p] = NoWrite /\ sessionState[s] # "none"
          /\ active' = active
    BY <1>1, <1>4 DEF MarkRevertInProgress, FinishRevert, Spoiled, Held, TodoHeld, ActiveStates,
       OpenStates,
       Restoring, TypeOK
  <2>2. StateOf(s)' = st
    BY <1>1, <2>1, TruncatedState DEF Spoiled, States
  <2> QED
    BY <1>2, <2>1, <2>2 DEF Excused, ExcusedBy
<1>5. CASE DeleteActive(p) \/ RenameBackup(p)
  <2>1. PICK s \in SessionIds :
          sessionState[s] = "REVERT_IN_PROGRESS" \/ (sessionState[s] = "UNKNOWN" /\ faults > 0)
    <3>1. pc[p] \in {"empty", "rename"} /\ pc[p] \in Restoring
      BY <1>5 DEF DeleteActive, RenameBackup, Restoring
    <3>2. PICK s \in SessionIds : reverting[p] = {s} /\ todo[p] = {s}
      BY <1>1, <3>1 DEF Concerned, BackupHeld
    <3>3. sessionState[s] \in {"REVERT_IN_PROGRESS", "UNKNOWN"} /\ LostIsKnown(s)
      BY <1>1, <3>1, <3>2 DEF Concerned, Held, TodoHeld
    <3> QED
      BY <3>3 DEF LostIsKnown, CommitFailed
  <2>2. StateOf(s) = sessionState[s] /\ UNCHANGED <<sessionState, write>>
    BY <1>1, <1>5, StateOfIs DEF DeleteActive, RenameBackup, OnlyActs, OthersWriteNothing
  <2>3. Excused
    BY <2>1, <2>2 DEF Excused, ExcusedBy, Spoiled
  <2> QED
    BY <1>1, <1>2, <2>2, <2>3, QuietStates, SameExcuse
<1>6. CASE CommitSucceeds(p) \/ CommitFails(p)
  <2>1. active' = active
    BY <1>6 DEF CommitSucceeds, CommitFails
  <2>2. PICK s \in SessionIds : /\ SameStates(SessionIds \ {s})
                               /\ \/ StateOf(s)' = StateOf(s)
                                  \/ StateOf(s)' = "UNKNOWN" /\ faults' > 0
    <3>1. PICK s \in SessionIds :
            /\ SameStates(SessionIds \ {s})
            /\ CommitSucceeds(p) => StateOf(s)' = StateOf(s)
            /\ CommitFails(p) => StateOf(s)' = "UNKNOWN" /\ faults' = faults + 1
      BY <1>1, <1>6, WrittenState
    <3>2. faults \in Nat /\ faults' \in Nat
      BY <1>1 DEF TypeOK
    <3>3. StateOf(s)' = StateOf(s) \/ (StateOf(s)' = "UNKNOWN" /\ faults' > 0)
      BY <1>6, <3>1, <3>2
    <3> QED
      BY <3>1, <3>3
  <2> QED
    BY <1>1, <1>2, <2>1, <2>2, StillExcused DEF ExcusedBy, TypeOK
<1> QED
  BY <1>2, <1>3, <1>4, <1>5, <1>6 DEF RevertStep, Revert

LEMMA RevertRuns ==
  ASSUME Setting, Base, Base', PhaseInv, RunsInv, NEW p \in Procs, RevertStep(p)
  PROVE  RunsInv'
<1> USE DEF At, Goto
<1>1. Main \in Procs /\ TypeOK /\ TypeOK' /\ Held(p) /\ Concerned(p)
  BY BaseParts DEF Procs, PhaseInv
<1>2. /\ Excused => Excused'
      /\ active' = active \/ Excused'
      /\ UNCHANGED <<repo, mounted, caller>>
  BY RevertExcuses
<1>3. \/ pc'[Main] = pc[Main]
      \/ pc[Main] \in RevertLabels /\ pc'[Main] \in RevertLabels
      \/ pc[Main] \in RevertLabels /\ pc'[Main] \in {ReturnOk[caller[Main]], ReturnError[caller[Main]]}
      \/ pc'[Main] = "next"
  <2>1. CASE p = Main
    BY <1>1, <2>1 DEF RevertStep, Revert, FindActiveSessions, MarkRevertInProgress, MarkOpenFails,
       AllMarked, CheckBackup, DeleteActive, ActiveIsEmpty, RenameBackup, RestoreFails,
       FinishRevert,
       FinishOpenFails, ReturnFromRevert, GiveUpRevert, CommitSucceeds, CommitFails, OpenFails,
       RevertLabels, TypeOK, Concerned, Writes
  <2>2. CASE p # Main
    BY <1>1, <2>2, OneActs DEF OnlyActs
  <2> QED
    BY <2>1, <2>2
<1>4. pc'[Main] \in {"resume", "activate"} \cup AfterFailure /\ pc'[Main] # pc[Main] =>
        /\ pc'[Main] # "resume"
        /\ pc'[Main] = "activate" => caller[Main] = "resume"
        /\ pc'[Main] \in AfterFailure => caller[Main] \in {"activate", "waitCrash"}
  BY <1>1, <1>3 DEF ReturnOk, ReturnError, Callers, RevertLabels, AfterFailure, TypeOK
<1>5. pc'[Main] \in {"resume", "activate"} => Chosen' = Runs(active)' \/ Excused'
  <2>1. Chosen' = Chosen
    BY <1>2 DEF Chosen
  <2> QED
    <3>1. active' = active => Runs(active)' = Runs(active)
      BY DEF Runs, Highest
    <3>2. CASE pc[Main] \in RevertLabels
      BY <1>2, <1>4, <3>2 DEF RunsInv, InRevert, RevertLabels
    <3>3. CASE pc[Main] \notin RevertLabels
      BY <1>2, <1>3, <2>1, <3>1, <3>3 DEF RunsInv
    <3> QED
      BY <3>2, <3>3
<1>6. InRevert({"resume"})' => Excused'
  BY <1>2, <1>3 DEF RunsInv, InRevert, RevertLabels
<1>7. pc'[Main] \in AfterFailure \/ InRevert({"activate", "waitCrash"})' => AccountedFor' \/ Excused'
  <2>1. active' = active /\ AccountedFor => AccountedFor'
    BY <1>2 DEF AccountedFor, Runs, Highest
  <2> QED
    BY <1>2, <1>3, <1>4, <2>1 DEF RunsInv, InRevert, RevertLabels, AfterFailure
<1> QED
  BY <1>5, <1>6, <1>7 DEF RunsInv

(* Without f, what was hidden behind it comes forward.                      *)
LEMMA RunsWithout ==
  ASSUME NEW S \in SUBSET Apexes, NEW f \in Apexes
  PROVE  /\ Runs(S) \ Runs(S \ {f}) \subseteq {f}
         /\ \A g \in Runs(S \ {f}) \ Runs(S) :
              f \in Runs(S) /\ g \in S /\ g.pkg = f.pkg /\ f.ver > g.ver
<1>1. \A g \in S \cup {f} : g.ver \in Nat /\ PreVersion[g.pkg] \in Nat
  BY VersionsAssumption DEF Apexes
<1>2. Runs(S) \ Runs(S \ {f}) \subseteq {f}
  BY DEF Runs, Highest
<1>3. ASSUME NEW g \in Runs(S \ {f}) \ Runs(S)
      PROVE  f \in Runs(S) /\ g \in S /\ g.pkg = f.pkg /\ f.ver > g.ver
  <2>1. g \in S \ {f} /\ g.ver >= PreVersion[g.pkg] /\ \A h \in S \ {f} : h.pkg = g.pkg => h.ver <= g.ver
    BY DEF Runs, Highest
  <2>2. f \in S /\ f.pkg = g.pkg /\ ~(f.ver <= g.ver)
    BY <1>3, <2>1 DEF Runs, Highest
  <2>3. f.ver > g.ver
    BY <1>1, <2>1, <2>2
  <2>4. \A h \in S : h.pkg = f.pkg => h.ver <= f.ver
    BY <1>1, <2>1, <2>2, <2>3
  <2>5. f.ver >= PreVersion[f.pkg]
    BY <1>1, <2>1, <2>2, <2>3
  <2> QED
    BY <2>1, <2>2, <2>3, <2>4, <2>5 DEF Runs, Highest
<1> QED
  BY <1>2, <1>3

LEMMA BootRuns ==
  ASSUME Setting, Base, Base', PhaseInv, RunsInv, BootStep
  PROVE  RunsInv'
<1> USE DEF At, Goto, Visit, disk, vold, memory, locals, environment, history
<1>1. Main \in Procs /\ TypeOK /\ TypeOK' /\ Callers = {"start", "resume", "activate", "waitCrash", "idle"}
  BY BaseParts DEF Procs, Callers, ReturnOk
<1>2. CASE ListFinalizedSessions \/ DeleteFinalizedSession \/ JoinThreadPool
  <2>1. pc'[Main] \in {"cleanupSessions", "idle"}
    BY <1>1, <1>2 DEF ListFinalizedSessions, DeleteFinalizedSession, JoinThreadPool, TypeOK
  <2> QED
    BY <2>1 DEF RunsInv, AfterFailure, InRevert, RevertLabels
<1>3. CASE ~ListFinalizedSessions /\ ~DeleteFinalizedSession /\ ~JoinThreadPool
  <2>1. UNCHANGED <<sessionState, write, faults>>
    BY <1>3 DEF BootStep, CollectDataApexes, ResumeRevertIfNeeded, ActivatePackages,
       ActivateMissing,
       UpdatableCrashing, SeeBootCompleted, ListDataApexes, RemoveInactiveDataApex
  <2>2. Excused => Excused'
    BY <1>1, <2>1, QuietStates, SameExcuse DEF TypeOK
  <2>3. CASE CollectDataApexes
    <3>1. pc'[Main] = "resume" /\ repo' = Highest(active) /\ active' = active
      BY <1>1, <2>3 DEF CollectDataApexes, TypeOK
    <3>2. Chosen' = Runs(active)'
      BY <3>1 DEF Chosen, Runs, Highest
    <3> QED
      BY <3>1, <3>2 DEF RunsInv, AfterFailure, InRevert, RevertLabels
  <2>4. CASE ResumeRevertIfNeeded
    <3>1. /\ pc[Main] = "resume" /\ UNCHANGED <<active, repo>>
          /\ \/ pc'[Main] = "activate"
             \/ pc'[Main] = "revert" /\ caller'[Main] = "resume" /\ SessionsInState({"REVERT_IN_PROGRESS"}) # {}
      BY <1>1, <2>4 DEF ResumeRevertIfNeeded, CallRevert, TypeOK
    <3>2. pc'[Main] = "revert" => Excused
      BY <3>1 DEF SessionsInState, Excused, ExcusedBy, Spoiled, StateOf
    <3>3. Chosen = Runs(active) => Chosen' = Runs(active)'
      BY <3>1 DEF Chosen, Runs, Highest
    <3> QED
      BY <2>2, <3>1, <3>2, <3>3 DEF RunsInv, AfterFailure, InRevert, RevertLabels
  <2>5. CASE ActivatePackages
    <3>1. /\ pc[Main] = "activate" /\ UNCHANGED active /\ pc'[Main] \in {"publish", "revert"}
          /\ pc'[Main] = "revert" => caller'[Main] = "activate"
      BY <1>1, <2>5 DEF ActivatePackages, CallRevert, TypeOK
    <3>2. PICK bad \in SUBSET (Chosen \cap Flaky) : mounted' = Chosen \ (bad \cup (Chosen \ active))
      BY <2>5 DEF ActivatePackages
    <3>3. Runs(active) \subseteq active /\ Runs(active)' = Runs(active)
      BY <3>1 DEF Runs, Highest
    <3>4. Chosen = Runs(active) => AccountedFor'
      BY <3>2, <3>3 DEF AccountedFor, PackagesOf
    <3> QED
      BY <2>2, <3>1, <3>4 DEF RunsInv, AfterFailure, InRevert, RevertLabels
  <2>6. CASE ActivateMissing \/ UpdatableCrashing \/ SeeBootCompleted \/ ListDataApexes
    <3>1. /\ pc[Main] \in AfterFailure /\ UNCHANGED <<active, mounted>>
          /\ pc'[Main] \notin {"resume", "activate"}
          /\ pc'[Main] = "revert" => caller'[Main] = "waitCrash"
      BY <1>1, <2>6 DEF ActivateMissing, UpdatableCrashing, SeeBootCompleted, ListDataApexes,
         CallRevert,
         AfterFailure, TypeOK
    <3>2. pc'[Main] \notin RevertLabels \ {"revert"}
      BY <1>1, <2>6 DEF ActivateMissing, UpdatableCrashing, SeeBootCompleted, ListDataApexes,
         CallRevert,
         RevertLabels, TypeOK
    <3>3. AccountedFor => AccountedFor'
      BY <3>1 DEF AccountedFor, Runs, Highest
    <3> QED
      BY <2>2, <3>1, <3>2, <3>3 DEF RunsInv, InRevert
  <2>7. CASE RemoveInactiveDataApex
    <3>1. PICK f \in files[Main] : active' = IF f \in mounted THEN active ELSE active \ {f}
      BY <2>7 DEF RemoveInactiveDataApex
    <3>2. pc'[Main] = "cleanupFiles" /\ pc[Main] = "cleanupFiles" /\ mounted' = mounted
      BY <2>7 DEF RemoveInactiveDataApex
    <3>3. active \in SUBSET Apexes /\ f \in Apexes
      BY <1>1 DEF TypeOK
    <3>4. Runs(active)' = Runs(active')
      BY DEF Runs, Highest
    <3>5. ASSUME AccountedFor PROVE AccountedFor'
      <4>1. CASE active' = active
        BY <3>2, <3>4, <3>5, <4>1 DEF AccountedFor
      <4>2. CASE f \notin mounted /\ active' = active \ {f}
        <5>1. \A g \in Runs(active \ {f}) \ Runs(active) : f \in Runs(active) /\ g.pkg = f.pkg
          BY <3>3, RunsWithout
        <5>2. ASSUME NEW g \in Runs(active \ {f})
              PROVE  g \in mounted \/ g.pkg \in PackagesOf(Flaky)
          <6>1. CASE g \in Runs(active)
            BY <3>5, <6>1 DEF AccountedFor
          <6>2. CASE g \notin Runs(active)
            <7>1. f \in Runs(active) /\ g.pkg = f.pkg
              BY <5>1, <5>2, <6>2
            <7>2. f \in mounted \/ f.pkg \in PackagesOf(Flaky)
              BY <3>5, <7>1 DEF AccountedFor
            <7>3. f \notin mounted
              BY <4>2
            <7> QED
              BY <7>1, <7>2, <7>3
          <6> QED
            BY <6>1, <6>2
        <5> QED
          BY <3>2, <3>4, <4>2, <5>2 DEF AccountedFor
      <4> QED
        BY <3>1, <4>1, <4>2
    <3> QED
      BY <2>2, <3>2, <3>5 DEF RunsInv, AfterFailure, InRevert, RevertLabels
  <2> QED
    BY <1>3, <2>3, <2>4, <2>5, <2>6, <2>7 DEF BootStep
<1> QED
  BY <1>2, <1>3

LEMMA ThreadRuns ==
  ASSUME Setting, Base, Base', PhaseInv, RunsInv, NEW t \in Threads,
         Request(t) \/ BackupStep(t) \/ SessionStep(t)
  PROVE  RunsInv'
<1> USE DEF At, Goto, disk, vold, memory, locals, environment, history
<1>1. /\ TypeInv /\ TypeOK /\ TypeOK' /\ t \in Procs /\ Main \in Procs /\ t # Main /\ Held(t) /\ OnlyActs(t)
  BY BaseParts, MainAssumption, OneActs DEF Procs
<1>2. /\ UNCHANGED <<active, mounted, repo>> /\ faults' >= faults /\ caller'[Main] = caller[Main]
      /\ pc'[Main] = pc[Main]
  <2>1. UNCHANGED <<active, mounted, repo>> /\ faults' >= faults /\ caller'[Main] = caller[Main]
    BY <1>1 DEF Request, SubmitStagedSession, MarkStagedSessionReady,
       MarkStagedSessionSuccessful, AbortStagedSession, ReadSession, RevertActiveSessions,
       CallRevert,
       UnstagePackages, Serve, Setting, InstallerKeepsTo, MarkBootCompleted, BackupStep,
       DeleteBackup,
       DeleteBackupFails, BackupDeleted, LinkBackup, LinkBackupFails, BackedUp, SessionStep, Fault,
       CreateVerifiedSession, VerifyFails, CommitReady, CommitSuccess, DeleteSession, TypeOK
  <2> QED
    BY <1>1, <2>1 DEF OnlyActs
<1>3. Excused => Excused'
  <2>1. CASE Request(t) \/ BackupStep(t) \/ VerifyFails(t)
    <3>1. UNCHANGED <<sessionState, write>>
      BY <2>1 DEF Request, SubmitStagedSession, MarkStagedSessionReady,
       MarkStagedSessionSuccessful, AbortStagedSession, ReadSession, RevertActiveSessions,
         CallRevert,
       UnstagePackages, Serve, MarkBootCompleted, BackupStep, DeleteBackup,
       DeleteBackupFails, BackupDeleted, LinkBackup, LinkBackupFails, BackedUp, VerifyFails
    <3> QED
      BY <1>1, <1>2, <3>1, QuietStates, SameExcuse
  <2>2. CASE CreateVerifiedSession(t) \/ CommitReady(t) \/ CommitSuccess(t) \/ DeleteSession(t)
    <3>1. session[t] \in SessionIds /\ sessionState[session[t]] \in {"none"} \cup OpenStates
      BY <1>1, <2>2 DEF CreateVerifiedSession, CommitReady, CommitSuccess, DeleteSession, TypeInv,
         SessionKnown,
         WithSession, CallLabels, Held, SessionHeld, Submitting, OpenStates
    <3>2. ~ExcusedBy(session[t])
      BY <3>1 DEF ExcusedBy, StateOf, Spoiled, OpenStates
    <3>3. \A u \in SessionIds \ {session[t]} : SameState(u)
      <4>1. CASE CommitReady(t) \/ CommitSuccess(t)
        <5>1. \E st \in States : UpdateStateAndCommit(t, session[t], st)
          BY <4>1 DEF CommitReady, CommitSuccess, States
        <5>2. write[t] = NoWrite /\ sessionState[session[t]] # "none"
          BY <1>1, <4>1 DEF CommitReady, CommitSuccess, Held, SessionHeld
        <5> QED
          BY <1>1, <3>1, <5>1, <5>2, TruncatedState DEF SameStates
      <4>2. CASE CreateVerifiedSession(t) \/ DeleteSession(t)
        <5>1. /\ write[t] = NoWrite
              /\ write'[t] = NoWrite \/ write'[t].id = session[t]
              /\ \A u \in SessionIds \ {session[t]} : sessionState'[u] = sessionState[u]
          BY <1>1, <4>2 DEF CreateVerifiedSession, DeleteSession, TypeOK
        <5> QED
          BY <1>1, <3>1, <5>1, OneChanged DEF SameStates
      <4> QED
        BY <2>2, <4>1, <4>2
    <3> QED
      BY <1>1, <1>2, <3>1, <3>2, <3>3, StillExcused DEF SameStates
  <2> QED
    BY <2>1, <2>2 DEF SessionStep
<1>4. /\ Runs(active)' = Runs(active) /\ Chosen' = Chosen /\ AccountedFor' = AccountedFor
  BY <1>2 DEF Runs, Highest, Chosen, AccountedFor
<1> QED
  BY <1>2, <1>3, <1>4 DEF RunsInv, InRevert

LEMMA RunsInit == Init => RunsInv
BY DEF Init, RunsInv, InRevert, AfterFailure, RevertLabels, Procs

LEMMA RunsNext == ASSUME Setting PROVE Base /\ PhaseInv /\ RunsInv /\ [Next]_vars => RunsInv'
<1> SUFFICES ASSUME Base, PhaseInv, RunsInv, [Next]_vars PROVE RunsInv'
  OBVIOUS
<1>1. Base' /\ TypeOK /\ Main \in Procs /\ ~journaling
  BY BaseNext, BaseParts DEF Procs
<1>2. CASE UNCHANGED vars
  <2>1. UNCHANGED <<sessionState, write, faults, active, repo, mounted, pc, caller>>
    BY <1>2 DEF vars, disk, memory, locals, environment
  <2>2. Runs(active)' = Runs(active) /\ Chosen' = Chosen /\ AccountedFor' = AccountedFor
    BY <2>1 DEF Runs, Highest, Chosen, AccountedFor
  <2>3. Excused' = Excused
    BY <2>1 DEF Excused, ExcusedBy, StateOf, Writing, Writers
  <2> QED
    BY <2>1, <2>2, <2>3 DEF RunsInv, InRevert
<1>3. CASE StagingStep
  <2>1. pc'[Main] \in (Staging \ {"off"}) \cup {"collect"}
    BY <1>1, <1>3 DEF StagingStep, AskNeedsRollback, ScanStagedSessionsDir, RejectSession,
       AcceptSession, LinkStaged,
       LinkFails, UnlinkStaged, UnlinkStagedFails, AllLinked, UnlinkSuperseded, SupersedeFails,
       SessionStaged, SessionFails, FinishSession, AllStaged, TypeOK, Staging, Setting, At, Goto
  <2> QED
    BY <2>1 DEF RunsInv, InRevert, AfterFailure, RevertLabels, Staging
<1>4. CASE Boot \/ PowerLoss \/ Reboot
  <2>1. pc'[Main] \in {"off", "start"}
    BY <1>1, <1>4 DEF Boot, PowerLoss, Reboot, PowerOff, Goto, TypeOK
  <2> QED
    BY <2>1 DEF RunsInv, InRevert, AfterFailure, RevertLabels
<1>5. CASE Publish
  <2>1. UNCHANGED <<sessionState, write, faults, active, mounted>> /\ pc[Main] = "publish" /\ pc'[Main] = "waitCrash"
    BY <1>1, <1>5 DEF Publish, At, disk, memory, locals, environment
  <2>2. AccountedFor' = AccountedFor
    BY <2>1 DEF AccountedFor, Runs, Highest
  <2>3. Excused' = Excused
    BY <2>1 DEF Excused, ExcusedBy, StateOf, Writing, Writers
  <2> QED
    BY <2>1, <2>2, <2>3 DEF RunsInv, InRevert, AfterFailure, RevertLabels
<1>6. ~StartCheckpoint /\ ~CommitChanges
  BY <1>1 DEF StartCheckpoint, CommitChanges, Setting
<1> QED
  BY <1>1, <1>2, <1>3, <1>4, <1>5, <1>6, NextSteps, RevertRuns, BootRuns, ThreadRuns

-----------------------------------------------------------------------------
(* A session is astray through its record and through the revert that goes   *)
(* on without one.                                                         *)
Reverting == RevertLabels \ {"revert"}
SameRecord(s) == SameState(s) /\ (s \in unrecorded' <=> s \in unrecorded)

LEMMA AstrayStays ==
  ASSUME NEW s, SameRecord(s), StateOf(s) # "UNKNOWN" \/ (BeingReverted(s)' <=> BeingReverted(s))
  PROVE  Astray(s)' <=> Astray(s)
BY DEF SameRecord, SameState, Astray

LEMMA NobodyReverts ==
  ASSUME NEW p \in Procs, OnlyActs(p)
  PROVE  /\ pc[p] \notin Reverting => \A s : ~BeingReverted(s)
         /\ pc'[p] \notin Reverting => \A s : ~BeingReverted(s)'
<1>1. \A q \in Procs \ {p} : pc[q] \notin Reverting /\ pc'[q] \notin Reverting
  BY DEF OnlyActs, Waiting, Reverting, RevertLabels
<1> QED
  BY <1>1 DEF BeingReverted, Reverting

LEMMA QuietStrays ==
  ASSUME NEW p \in Procs, OnlyActs(p), pc[p] \notin Reverting, pc'[p] \notin Reverting
  PROVE  \A s : SameRecord(s) => (Astray(s)' <=> Astray(s))
BY NobodyReverts, AstrayStays

(* A revert takes no session astray, or back, but those it has in hand when  *)
(* it returns and those it records or fails to.                            *)
LEMMA RevertStrays ==
  ASSUME Setting, Base, Base', NEW p \in Procs, RevertStep(p)
  PROVE  \A s \in SessionIds :
           SameRecord(s) /\ (pc[p] \notin Reverting \/ pc'[p] \in Reverting \/ s \notin reverting[p])
             => (Astray(s)' <=> Astray(s))
<1> USE DEF At, Goto, Visit, disk, vold, memory, locals, environment, history
<1>1. TypeOK /\ OnlyActs(p)
  BY BaseParts, OneActs
<1>2. \A q \in Procs \ {p} : pc[q] \notin Reverting /\ pc'[q] \notin Reverting
  BY <1>1 DEF OnlyActs, Waiting, Reverting, RevertLabels
<1>3. \A s : /\ BeingReverted(s) <=> pc[p] \in Reverting /\ s \in reverting[p]
             /\ BeingReverted(s)' <=> pc'[p] \in Reverting /\ s \in reverting'[p]
  BY <1>2 DEF BeingReverted, Reverting
<1>4. CASE FindActiveSessions(p)
  <2>1. pc[p] \notin Reverting /\ reverting'[p] = ActiveSessions
    BY <1>1, <1>4 DEF FindActiveSessions, Reverting, TypeOK
  <2>2. \A s \in reverting'[p] : StateOf(s) # "UNKNOWN"
    BY <2>1 DEF ActiveSessions, SessionsInState, StateOf
  <2> QED
    BY <1>3, <2>1, <2>2, AstrayStays
<1>5. CASE ~FindActiveSessions(p)
  <2>1. /\ reverting' = reverting
        /\ pc[p] \notin Reverting => pc'[p] \notin Reverting
    <3>1. reverting' = reverting
      BY <1>5 DEF RevertStep, Revert, MarkRevertInProgress, MarkOpenFails, AllMarked, CheckBackup,
         DeleteActive, ActiveIsEmpty, RenameBackup, RestoreFails, FinishRevert, FinishOpenFails,
         ReturnFromRevert, CommitSucceeds, CommitFails, OpenFails
    <3>2. CASE Revert(p)
      BY <1>5, <3>2 DEF Revert, MarkRevertInProgress, MarkOpenFails, AllMarked, CheckBackup,
         DeleteActive, ActiveIsEmpty, RenameBackup, RestoreFails, FinishRevert, FinishOpenFails,
         ReturnFromRevert, Reverting, RevertLabels
    <3>3. CASE CommitSucceeds(p) \/ CommitFails(p) \/ OpenFails(p)
      <4>1. pc'[p] \in {pc[p], "next", "idle"} \cup ReturnsTo
        BY <1>1, <3>3, ReturnsThere DEF CommitSucceeds, CommitFails, GiveUpRevert, OpenFails, TypeOK
      <4> QED
        BY <3>1, <4>1 DEF ReturnsTo, Reverting, RevertLabels
    <3> QED
      BY <3>1, <3>2, <3>3 DEF RevertStep
  <2> QED
    BY <1>3, <2>1, AstrayStays
<1> QED
  BY <1>4, <1>5

(* The sessions that a step is not about.                                   *)
LEMMA OthersQuiet ==
  ASSUME NEW p \in Procs, OnlyActs(p), pc[p] \notin Reverting, pc'[p] \notin Reverting,
         NEW s, SameStates(SessionIds \ {s}), unrecorded' \ {s} = unrecorded \ {s}
  PROVE  \A u \in SessionIds \ {s} : Astray(u)' <=> Astray(u)
BY QuietStrays DEF SameRecord, SameStates

LEMMA OthersRevert ==
  ASSUME Setting, Base, Base', NEW p \in Procs, RevertStep(p),
         NEW s \in SessionIds, SameStates(SessionIds \ {s}), unrecorded' \ {s} = unrecorded \ {s},
         pc[p] \notin Reverting \/ pc'[p] \in Reverting \/ reverting[p] = {s}
  PROVE  \A u \in SessionIds \ {s} : Astray(u)' <=> Astray(u)
BY RevertStrays DEF SameRecord, SameStates

(* The sessions a revert has still to finish are marked, or astray.         *)
LEMMA MarkedOrAstray ==
  ASSUME NEW p \in Procs, OnlyActs(p), Held(p), Concerned(p), pc[p] \in Restoring, write[p] = NoWrite,
         NEW s \in todo[p], s \in SessionIds
  PROVE  sessionState[s] = "REVERT_IN_PROGRESS" \/ (sessionState[s] = "UNKNOWN" /\ Astray(s))
<1>1. sessionState[s] \in {"REVERT_IN_PROGRESS", "UNKNOWN"} /\ s \in reverting[p]
  BY DEF Held, TodoHeld
<1>2. CASE sessionState[s] = "UNKNOWN"
  <2>1. s \in unrecorded
    BY <1>2 DEF Concerned, LostIsKnown, CommitFailed
  <2>2. BeingReverted(s)
    BY <1>1 DEF BeingReverted, RevertLabels, Restoring
  <2>3. StateOf(s) = "UNKNOWN"
    BY <1>2, StateOfIs DEF OnlyActs, OthersWriteNothing
  <2> QED
    BY <1>2, <2>1, <2>2, <2>3 DEF Astray
<1> QED
  BY <1>1, <1>2

(* What is recorded without a failure is not astray.                        *)
LEMMA RevertKeepsCourse ==
  ASSUME Setting, Base, Base', PhaseInv, StrayInv, NEW p \in Procs, RevertStep(p)
  PROVE  StrayInv'
<1> USE DEF At, Goto, Visit, disk, vold, memory, locals, environment, history
<1>1. /\ TypeOK /\ TypeOK' /\ OnlyActs(p) /\ Held(p) /\ Concerned(p) /\ faults \in Nat
  BY BaseParts, OneActs DEF PhaseInv, TypeOK
<1>2. faults' \in Nat /\ faults' >= faults
  BY <1>1 DEF RevertStep, Revert, FindActiveSessions, MarkRevertInProgress, MarkOpenFails,
     AllMarked,
     CheckBackup, DeleteActive, ActiveIsEmpty, RenameBackup, RestoreFails, FinishRevert,
     FinishOpenFails,
     ReturnFromRevert, CommitSucceeds, CommitFails, OpenFails, Fault, TypeOK
<1>3. SUFFICES ASSUME NEW s \in SessionIds, Astray(s)', faults' = 0 PROVE FALSE
  BY <1>2 DEF StrayInv
<1>4. faults = 0 /\ ~Astray(s)
  BY <1>1, <1>2, <1>3 DEF StrayInv
<1>5. /\ ~MarkOpenFails(p) /\ ~FinishOpenFails(p) /\ ~OpenFails(p)
      /\ unrecorded' \subseteq unrecorded
  <2>1. ~CommitFails(p)
    BY <1>1, <1>3, <1>4 DEF CommitFails, Fault, Held, WriteHeld, TypeOK
  <2> QED
    BY <1>1, <1>3, <1>4, <2>1 DEF MarkOpenFails, FinishOpenFails, OpenFails, Fault, RevertStep,
       Revert,
       FindActiveSessions, MarkRevertInProgress, AllMarked, CheckBackup, DeleteActive,
       ActiveIsEmpty,
       RenameBackup, RestoreFails, FinishRevert, ReturnFromRevert, CommitSucceeds
<1>6. ~SameState(s) \/ (pc[p] \in Reverting /\ pc'[p] \notin Reverting)
  <2>1. s \in unrecorded' /\ s \in unrecorded
    BY <1>3, <1>5 DEF Astray
  <2> QED
    BY <1>3, <1>4, <2>1, RevertStrays DEF SameRecord
<1>7. s \in unrecorded
  BY <1>3, <1>5 DEF Astray
<1>8. CASE \/ FindActiveSessions(p) \/ AllMarked(p) \/ CheckBackup(p) \/ DeleteActive(p) \/ ActiveIsEmpty(p)
           \/ RenameBackup(p) \/ RestoreFails(p) \/ ReturnFromRevert(p)
  <2>1. UNCHANGED <<sessionState, write, unrecorded>>
    BY <1>8 DEF FindActiveSessions, AllMarked, CheckBackup, DeleteActive, ActiveIsEmpty,
       RenameBackup,
       RestoreFails, ReturnFromRevert
  <2>2. SameState(s)
    BY <2>1, QuietStates DEF SameStates
  <2>3. ~BeingReverted(s)'
    BY <1>1, <1>6, <2>2, NobodyReverts
  <2> QED
    BY <1>3, <1>4, <1>7, <2>2, <2>3 DEF Astray, SameState
<1>9. CASE MarkRevertInProgress(p) \/ FinishRevert(p)
  <2>1. PICK u \in todo[p], st \in States : UpdateStateAndCommit(p, u, st)
    BY <1>9 DEF MarkRevertInProgress, FinishRevert, States
  <2>2. /\ u \in SessionIds /\ write[p] = NoWrite /\ pc' = pc
        /\ sessionState[u] \in ActiveStates
    <3>1. u \in SessionIds /\ write[p] = NoWrite /\ pc' = pc /\ pc[p] \in {"mark"} \cup Restoring
      BY <1>1, <1>9, <2>1 DEF MarkRevertInProgress, FinishRevert, Restoring, TypeOK
    <3>2. pc[p] = "mark" => sessionState[u] \in ActiveStates
      BY <1>1, <2>1, <3>1 DEF Held, TodoHeld
    <3>3. pc[p] \in Restoring => sessionState[u] \in {"REVERT_IN_PROGRESS", "UNKNOWN"} /\ LostIsKnown(u)
      BY <1>1, <2>1, <3>1 DEF Held, TodoHeld, Concerned
    <3> QED
      BY <1>4, <3>1, <3>2, <3>3 DEF LostIsKnown, CommitFailed, ActiveStates
  <2>3. sessionState[u] # "none" /\ StateOf(u) = sessionState[u] /\ SameStates(SessionIds \ {u})
    BY <1>1, <2>1, <2>2, TruncatedState DEF ActiveStates, OpenStates
  <2>4. s = u
    BY <1>6, <2>2, <2>3 DEF SameStates
  <2> QED
    BY <1>4, <1>7, <2>2, <2>3, <2>4 DEF Astray, ActiveStates, OpenStates
<1>10. CASE CommitSucceeds(p)
  <2>1. write[p] # NoWrite /\ pc' = pc /\ unrecorded' = unrecorded \ {write[p].id}
    BY <1>10 DEF CommitSucceeds
  <2>2. PICK u \in SessionIds : write[p].id = u /\ SameStates(SessionIds \ {u})
    BY <1>1, <1>10, WrittenState
  <2> QED
    BY <1>3, <1>6, <2>1, <2>2 DEF SameStates, Astray
<1>11. ~CommitFails(p)
  BY <1>1, <1>3, <1>4 DEF CommitFails, Fault, Held, WriteHeld, TypeOK
<1> QED
  BY <1>5, <1>8, <1>9, <1>10, <1>11 DEF RevertStep, Revert

LEMMA StrayInit == Init => StrayInv
BY DEF Init, StrayInv, Astray

LEMMA StrayNext == ASSUME Setting PROVE Base /\ PhaseInv /\ StrayInv /\ [Next]_vars => StrayInv'
<1> SUFFICES ASSUME Base, PhaseInv, StrayInv, [Next]_vars PROVE StrayInv'
  OBVIOUS
<1> USE DEF At, Goto, Visit, disk, vold, memory, locals, environment, history
<1>1. /\ Base' /\ TypeOK /\ TypeOK' /\ TypeInv /\ OneBusy /\ OffTogether /\ ~journaling /\ Main \in Procs
      /\ \A p \in Procs : Held(p) /\ Concerned(p)
  BY BaseNext, BaseParts DEF PhaseInv, Procs, Setting, TurnInv
<1>2. CASE UNCHANGED vars
  BY <1>2 DEF vars, StrayInv, Astray, BeingReverted, StateOf, Writing, Writers
<1>3. ASSUME UNCHANGED unrecorded, faults' >= faults, \A s \in SessionIds : ~BeingReverted(s)',
             \A s \in unrecorded : StateOf(s)' \in {StateOf(s), "none", "UNKNOWN"} \/ Astray(s)
      PROVE  StrayInv'
  <2> SUFFICES ASSUME NEW s \in SessionIds, Astray(s)' PROVE faults' > 0
    BY DEF StrayInv
  <2>1. s \in unrecorded /\ StateOf(s)' \notin {"none", "UNKNOWN"}
    BY <1>3 DEF Astray
  <2>2. Astray(s)
    BY <1>3, <2>1 DEF Astray
  <2>3. faults > 0 /\ faults \in Nat /\ faults' \in Nat
    BY <1>1, <2>2 DEF StrayInv, TypeOK
  <2> QED
    BY <1>3, <2>3
<1>4. CASE StagingStep
  <2>1. OnlyActs(Main)
    BY <1>4, OneActs
  <2>2. pc'[Main] \in Staging \cup {"collect"}
    BY <1>1, <1>4 DEF StagingStep, AskNeedsRollback, ScanStagedSessionsDir, RejectSession,
       AcceptSession,
       LinkStaged, LinkFails, UnlinkStaged, UnlinkStagedFails, AllLinked, UnlinkSuperseded,
       SupersedeFails,
       SessionStaged, SessionFails, FinishSession, AllStaged, TypeOK, Staging, Setting
  <2>3. UNCHANGED unrecorded /\ faults' >= faults
    BY <1>1, <1>4 DEF StagingStep, AskNeedsRollback, ScanStagedSessionsDir, RejectSession,
       AcceptSession,
       LinkStaged, LinkFails, UnlinkStaged, UnlinkStagedFails, AllLinked, UnlinkSuperseded,
       SupersedeFails,
       SessionStaged, SessionFails, FinishSession, AllStaged, Fault, TypeOK, Setting
  <2>4. \A s \in SessionIds : ~BeingReverted(s)'
    BY <1>1, <2>1, <2>2, NobodyReverts DEF Staging, Reverting, RevertLabels
  <2>5. CASE SessionStaged \/ SessionFails
    <3>1. PICK s \in SessionIds, st \in States : UpdateStateAndCommit(Main, s, st) /\ sessionState[s] = "STAGED"
      BY <1>1, <2>5, BaseParts DEF Setting, SessionStaged, SessionFails, FinishSession,
         LinkedSoFar, TypeInv,
         SessionKnown, WithSession, InstalledParts, States
    <3>2. write[Main] = NoWrite
      BY <2>5 DEF SessionStaged, SessionFails
    <3>3. StateOf(s) = "STAGED" /\ SameStates(SessionIds \ {s})
      BY <1>1, <2>1, <3>1, <3>2, TruncatedState
    <3>4. s \in unrecorded => Astray(s)
      BY <3>3 DEF Astray
    <3> QED
      BY <1>1, <1>3, <2>3, <2>4, <3>3, <3>4 DEF SameStates, SameState, TypeOK
  <2>6. CASE ~SessionStaged /\ ~SessionFails
    <3>1. UNCHANGED <<sessionState, write>>
      BY <1>4, <2>6 DEF StagingStep, AskNeedsRollback, ScanStagedSessionsDir, RejectSession,
         AcceptSession,
         LinkStaged, LinkFails, UnlinkStaged, UnlinkStagedFails, AllLinked, UnlinkSuperseded,
         SupersedeFails,
         AllStaged
    <3> QED
      BY <1>1, <1>3, <2>3, <2>4, <3>1, QuietStates DEF SameStates, SameState, TypeOK
  <2> QED
    BY <2>5, <2>6
<1>5. CASE BootStep
  <2>1. OnlyActs(Main)
    BY <1>5, OneActs
  <2>2. /\ pc'[Main] \in {"resume", "revert", "activate"} \cup AfterActivation
        /\ UNCHANGED <<unrecorded, faults, write>> /\ write[Main] = NoWrite
    BY <1>1, <1>5 DEF BootStep, CollectDataApexes, ResumeRevertIfNeeded, CallRevert,
       ActivatePackages,
       ActivateMissing, UpdatableCrashing, SeeBootCompleted, ListDataApexes, RemoveInactiveDataApex,
       ListFinalizedSessions, DeleteFinalizedSession, JoinThreadPool, AfterActivation, Booted,
       TypeOK
  <2>3. \A s \in SessionIds : sessionState'[s] \in {sessionState[s], "none"}
    BY <1>1, <1>5 DEF BootStep, CollectDataApexes, ResumeRevertIfNeeded, CallRevert,
       ActivatePackages,
       ActivateMissing, UpdatableCrashing, SeeBootCompleted, ListDataApexes, RemoveInactiveDataApex,
       ListFinalizedSessions, DeleteFinalizedSession, JoinThreadPool, TypeOK
  <2>4. \A s \in SessionIds : ~BeingReverted(s)'
    BY <1>1, <2>1, <2>2, NobodyReverts DEF AfterActivation, Booted, Reverting, RevertLabels
  <2>5. \A s \in SessionIds : StateOf(s) = sessionState[s] /\ StateOf(s)' = sessionState'[s]
    BY <1>1, <2>1, <2>2, StateOfIs DEF OnlyActs, OthersWriteNothing
  <2> QED
    BY <1>1, <1>3, <2>2, <2>3, <2>4, <2>5 DEF TypeOK
<1>6. ASSUME NEW t \in Threads, Request(t) \/ BackupStep(t) \/ SessionStep(t)
      PROVE  StrayInv'
  <2>1. OnlyActs(t) /\ t \in Procs
    BY <1>6, OneActs DEF Procs
  <2>2. pc'[t] \in {"idle", "revert"} \cup CallLabels /\ UNCHANGED unrecorded /\ faults' >= faults
    BY <1>1, <1>6, <2>1 DEF Request, SubmitStagedSession, MarkStagedSessionReady,
       MarkStagedSessionSuccessful,
       AbortStagedSession, ReadSession, RevertActiveSessions, CallRevert, UnstagePackages,
       MarkBootCompleted,
       Serve, BackupStep, DeleteBackup, DeleteBackupFails, BackupDeleted, LinkBackup,
       LinkBackupFails,
       BackedUp, SessionStep, CreateVerifiedSession, VerifyFails, CommitReady, CommitSuccess,
       DeleteSession,
       CallLabels, Fault, TypeOK
  <2>3. \A s \in SessionIds : ~BeingReverted(s)'
    BY <2>1, <2>2, NobodyReverts DEF CallLabels, Reverting, RevertLabels
  <2>4. CASE Request(t) \/ BackupStep(t) \/ VerifyFails(t)
    <3>1. UNCHANGED <<sessionState, write>>
      BY <2>4 DEF Request, SubmitStagedSession, MarkStagedSessionReady, MarkStagedSessionSuccessful,
         AbortStagedSession, ReadSession, RevertActiveSessions, CallRevert, UnstagePackages,
         MarkBootCompleted,
         Serve, BackupStep, DeleteBackup, DeleteBackupFails, BackupDeleted, LinkBackup,
         LinkBackupFails,
         BackedUp, VerifyFails
    <3> QED
      BY <1>1, <1>3, <2>2, <2>3, <3>1, QuietStates DEF SameStates, SameState, TypeOK
  <2>5. CASE CreateVerifiedSession(t) \/ CommitReady(t) \/ CommitSuccess(t) \/ DeleteSession(t)
    <3>1. PICK s \in SessionIds : s = session[t]
      BY <1>1, <2>1, <2>5 DEF CreateVerifiedSession, CommitReady, CommitSuccess, DeleteSession,
         TypeInv,
         SessionKnown, WithSession, CallLabels
    <3>2. /\ write[t] = NoWrite
          /\ write'[t] = NoWrite \/ write'[t].id = s
          /\ \A u \in SessionIds \ {s} : sessionState'[u] = sessionState[u]
      BY <1>1, <2>1, <2>5, <3>1 DEF CreateVerifiedSession, CommitReady, CommitSuccess,
         DeleteSession,
         UpdateStateAndCommit, TypeOK
    <3>3. StateOf(s) = sessionState[s] /\ SameStates(SessionIds \ {s})
      BY <2>1, <3>2, OneChanged
    <3>4. s \notin unrecorded \/ sessionState[s] \in OpenStates
      BY <1>1, <2>1, <2>5, <3>1 DEF CreateVerifiedSession, CommitReady, CommitSuccess,
         DeleteSession, Held,
         SessionHeld, Concerned, Submitting, OpenStates
    <3>5. s \notin unrecorded \/ Astray(s)
      BY <3>3, <3>4 DEF Astray, OpenStates
    <3> QED
      BY <1>1, <1>3, <2>2, <2>3, <3>3, <3>5 DEF SameStates, SameState, TypeOK
  <2> QED
    BY <1>6, <2>4, <2>5 DEF SessionStep
<1>7. CASE PowerLoss \/ Reboot
  <2>1. /\ UNCHANGED <<sessionState, faults>> /\ \A q \in Procs : write'[q] = NoWrite /\ pc'[q] = "off"
        /\ unrecorded' = unrecorded \cup {write[q].id : q \in {r \in Procs : write[r] # NoWrite}}
    BY <1>1, <1>7 DEF PowerLoss, Reboot, PowerOff
  <2>2. \A s \in SessionIds : StateOf(s)' = sessionState[s] /\ ~BeingReverted(s)'
    BY <1>1, <2>1, StateOfIs DEF OthersWriteNothing, BeingReverted, RevertLabels
  <2>3. ASSUME NEW s \in SessionIds, Astray(s)'
        PROVE  Astray(s)
    <3>1. sessionState[s] \notin {"none", "UNKNOWN"} /\ StateOf(s) = sessionState[s]
      BY <2>2, <2>3 DEF Astray, StateOf
    <3>2. s \in unrecorded
      BY <1>1, <2>1, <2>3, <3>1 DEF Astray, Held, WriteHeld
    <3> QED
      BY <3>1, <3>2 DEF Astray
  <2> QED
    BY <2>1, <2>3 DEF StrayInv
<1>8. CASE Boot \/ Publish
  <2>1. UNCHANGED <<sessionState, write, unrecorded, faults>>
    BY <1>8 DEF Boot, Publish
  <2>2. \A q \in Procs : pc'[q] \in {"off", "start", "idle", "waitCrash"}
    BY <1>1, <1>8 DEF Boot, Publish, OffTogether, TypeOK
  <2>3. \A s \in SessionIds : ~BeingReverted(s)'
    BY <2>2 DEF BeingReverted, RevertLabels
  <2> QED
    BY <1>1, <1>3, <2>1, <2>3, QuietStates DEF SameStates, SameState, TypeOK
<1>9. ~StartCheckpoint /\ ~CommitChanges
  BY <1>1 DEF StartCheckpoint, CommitChanges, Setting
<1> QED
  BY <1>1, <1>2, <1>4, <1>5, <1>6, <1>7, <1>8, <1>9, NextSteps, RevertKeepsCourse

-----------------------------------------------------------------------------
(* The steps of AtomicInstall, in terms of what StagedInstall maps to it.   *)
OnDevice == Runs(Owed)
Kept == OnDevice' = OnDevice
Becomes(s, from, to) == PhaseOf(s) \in from /\ PhaseOf(s)' = to
OthersKeep(u) == \A s \in SessionIds \ {u} : PhaseOf(s)' = PhaseOf(s)
Counts == faults \in Nat /\ faults' \in Nat /\ faults' >= faults

LEMMA Moved ==
  ASSUME NEW u \in SessionIds, OthersKeep(u), NEW from, NEW to, Becomes(u, from, to)
  PROVE  Atomic!Moves(u, from, to)
BY DEF OthersKeep, Becomes, Atomic!Moves

LEMMA UndoKept ==
  ASSUME UNCHANGED original, \A s \in SessionIds : PhaseOf(s)' = "none" <=> PhaseOf(s) = "none"
  PROVE  UNCHANGED [s \in SessionIds |-> IF PhaseOf(s) = "none" THEN {} ELSE original[s]]
OBVIOUS

LEMMA Outcomes ==
  ASSUME NEW u \in SessionIds, OthersKeep(u), Counts, UNCHANGED original,
         \/ /\ Becomes(u, {"pending"}, "taken")
            /\ OnDevice' = {f \in OnDevice : \A g \in Staged[u] : g.pkg # f.pkg} \cup Staged[u]
         \/ Becomes(u, {"taken"}, "closing") /\ Kept
         \/ Becomes(u, {"pending", "taken", "closing"}, "undoing") /\ Kept
         \/ Becomes(u, {"undoing"}, "back") /\ OnDevice' = Runs(original[u])
         \/ Becomes(u, {"closing"}, "kept") /\ Kept
         \/ Becomes(u, {"back"}, "reverted") /\ Kept
         \/ /\ Becomes(u, {"pending", "taken", "undoing", "kept", "reverted", "failed"}, "lost")
            /\ Kept
         \/ Becomes(u, {"back"}, "undoing")
         \/ Becomes(u, {"back", "undoing"}, "failed") /\ Kept
         \/ Becomes(u, {"pending", "taken", "back"}, "failed") /\ faults' > 0
         \/ Becomes(u, {"failed"}, "pending") /\ faults' > 0
         \/ Becomes(u, {"failed"}, "taken") /\ faults' > 0
  PROVE  Atomic!Next
<1>1. faults > 0 => faults' > 0
  BY DEF Counts
<1>2. UNCHANGED [s \in SessionIds |-> IF PhaseOf(s) = "none" THEN {} ELSE original[s]]
  BY UndoKept DEF OthersKeep, Becomes
<1>3. CASE /\ Becomes(u, {"pending"}, "taken")
           /\ OnDevice' = {f \in OnDevice : \A g \in Staged[u] : g.pkg # f.pkg} \cup Staged[u]
  <2>1. Atomic!Take(u)
    BY <1>2, <1>3, Moved DEF Atomic!Take, Atomic!With, OnDevice
  <2> QED
    BY <1>1, <2>1 DEF Atomic!Next
<1>4. CASE Becomes(u, {"taken"}, "closing") /\ Kept
  <2>1. Atomic!BeginToConfirm(u)
    BY <1>2, <1>4, Moved DEF Atomic!BeginToConfirm, Kept, OnDevice
  <2> QED
    BY <1>1, <2>1 DEF Atomic!Next
<1>5. CASE Becomes(u, {"pending", "taken", "closing"}, "undoing") /\ Kept
  <2>1. Atomic!BeginToUndo(u)
    BY <1>2, <1>5, Moved DEF Atomic!BeginToUndo, Kept, OnDevice
  <2> QED
    BY <1>1, <2>1 DEF Atomic!Next
<1>6. CASE Becomes(u, {"undoing"}, "back") /\ OnDevice' = Runs(original[u])
  <2>1. Atomic!TakeBack(u)
    BY <1>2, <1>6, Moved DEF Atomic!TakeBack, OnDevice, Becomes
  <2> QED
    BY <1>1, <2>1 DEF Atomic!Next
<1>7. CASE (Becomes(u, {"closing"}, "kept") \/ Becomes(u, {"back"}, "reverted")) /\ Kept
  <2>1. Atomic!Report(u)
    BY <1>2, <1>7, Moved DEF Atomic!Report, Kept, OnDevice
  <2> QED
    BY <1>1, <2>1 DEF Atomic!Next
<1>8. CASE /\ Becomes(u, {"pending", "taken", "undoing", "kept", "reverted", "failed"}, "lost")
           /\ Kept
  <2>1. Atomic!Lose(u)
    BY <1>2, <1>8, Moved DEF Atomic!Lose, Kept, OnDevice
  <2> QED
    BY <1>1, <2>1 DEF Atomic!Next
<1>9. CASE Becomes(u, {"back"}, "undoing") \/ (Becomes(u, {"back", "undoing"}, "failed") /\ Kept)
  <2>1. Becomes(u, {"back", "undoing"}, "failed") =>
          Becomes(u, {"back"}, "failed") \/ Becomes(u, {"undoing"}, "failed")
    BY DEF Becomes
  <2>2. Atomic!Relapse(u)
    BY <1>2, <1>9, <2>1, Moved DEF Atomic!Relapse, Kept, OnDevice
  <2> QED
    BY <1>1, <2>2 DEF Atomic!Next
<1>10. CASE /\ \/ Becomes(u, {"pending", "taken", "back"}, "failed") \/ Becomes(u, {"failed"}, "pending")
               \/ Becomes(u, {"failed"}, "taken")
            /\ faults' > 0
  <2>1. Atomic!Fail(u)
    BY <1>2, <1>10, Moved DEF Atomic!Fail
  <2> QED
    BY <1>1, <2>1 DEF Atomic!Next
<1> QED
  BY <1>3, <1>4, <1>5, <1>6, <1>7, <1>8, <1>9, <1>10

LEMMA Forgotten ==
  ASSUME NEW u \in SessionIds, OthersKeep(u), Counts, UNCHANGED original, Kept,
         Becomes(u, {"pending", "kept", "reverted", "failed"}, "none")
  PROVE  Atomic!Next
<1>1. faults > 0 => faults' > 0
  BY DEF Counts
<1>2. Atomic!Forget(u)
  BY Moved DEF Atomic!Forget, OthersKeep, Becomes, Kept, OnDevice
<1> QED
  BY <1>1, <1>2 DEF Atomic!Next

LEMMA Submitted ==
  ASSUME NEW u \in SessionIds, OthersKeep(u), Counts, UNCHANGED original, Kept,
         Becomes(u, {"none"}, "pending"), Runs(original[u]) = OnDevice
  PROVE  Atomic!Next
<1>1. faults > 0 => faults' > 0
  BY DEF Counts
<1>2. Atomic!Submit(u)
  BY Moved DEF Atomic!Submit, OthersKeep, Becomes, Kept, OnDevice
<1> QED
  BY <1>1, <1>2 DEF Atomic!Next

LEMMA Dropped ==
  ASSUME \A s \in SessionIds : PhaseOf(s)' = PhaseOf(s), Counts,
         \A s \in SessionIds : PhaseOf(s) # "none" => original'[s] = original[s],
         Kept \/ Atomic!Drifts
  PROVE  Atomic!Next
<1>1. faults > 0 => faults' > 0
  BY DEF Counts
<1>2. UNCHANGED [s \in SessionIds |-> IF PhaseOf(s) = "none" THEN {} ELSE original[s]]
  OBVIOUS
<1>3. UNCHANGED [s \in SessionIds |-> PhaseOf(s)]
  OBVIOUS
<1>4. Kept => Atomic!Drifts
  BY DEF Kept, OnDevice, Atomic!Drifts, Atomic!OnlyLess
<1> QED
  BY <1>1, <1>2, <1>3, <1>4 DEF Atomic!Next, Atomic!Drop

(* A session that is astray before or after a step may do anything.         *)
LEMMA Strayed ==
  ASSUME NEW u \in SessionIds, OthersKeep(u), Counts, UNCHANGED original, StrayInv, StrayInv',
         Astray(u) \/ (Astray(u)' /\ StateOf(u) # "none")
  PROVE  Atomic!Next
<1> DEFINE Undo == [s \in SessionIds |-> IF PhaseOf(s) = "none" THEN {} ELSE original[s]]
<1>1. faults' > 0
  BY DEF StrayInv, Counts
<1>2. PhaseOf(u) \in Atomic!Phases \ {"none"} /\ PhaseOf(u)' \in Atomic!Phases
  <2>1. Astray(u) => PhaseOf(u) = "astray"
    BY DEF PhaseOf
  <2>2. StateOf(u) # "none" => RecordedPhase(u) # "none"
    BY DEF RecordedPhase
  <2>3. RecordedPhase(u) \in Atomic!Phases /\ RecordedPhase(u)' \in Atomic!Phases
    BY DEF RecordedPhase, Atomic!Phases
  <2> QED
    BY <2>1, <2>2, <2>3 DEF PhaseOf, Atomic!Phases
<1>3. \A s \in SessionIds \ {u} : Undo'[s] = Undo[s]
  BY DEF OthersKeep
<1>4. CASE Astray(u)'
  <2>1. PhaseOf(u)' = "astray"
    BY <1>4 DEF PhaseOf
  <2>2. Atomic!Moves(u, Atomic!Phases \ {"none"}, "astray")
    BY <1>2, <2>1, Moved DEF Becomes
  <2>3. UNCHANGED Undo
    BY <1>2, <1>3, <2>1
  <2>4. Atomic!Stray(u)
    BY <1>1, <2>2, <2>3 DEF Atomic!Stray
  <2> QED
    BY <1>1, <2>4 DEF Atomic!Next
<1>5. CASE ~Astray(u)'
  <2>1. PhaseOf(u) = "astray"
    BY <1>5 DEF PhaseOf
  <2>2. Atomic!Moves(u, {"astray"}, PhaseOf(u)')
    BY <2>1, Moved DEF Becomes
  <2>3. Undo' = IF PhaseOf(u)' = "none" THEN [Undo EXCEPT ![u] = {}] ELSE Undo
    BY <1>2, <1>3
  <2>4. Atomic!Stray(u)
    BY <1>1, <1>2, <2>2, <2>3 DEF Atomic!Stray
  <2> QED
    BY <1>1, <2>4 DEF Atomic!Next
<1> QED
  BY <1>4, <1>5

-----------------------------------------------------------------------------
(* What /data owes the device, by the one session that is active, if any.   *)
State == Setting /\ Base /\ PhaseInv
OwedParts ==
  /\ \A s \in SessionIds :
       sessionState[s] = "REVERT_IN_PROGRESS" /\ s \notin confirming /\ ~Astray(s) => Owed = original[s]
  /\ \A s \in SessionIds : sessionState[s] = "STAGED" /\ ~Astray(s) =>
       Owed = IF Unstaging(s) THEN active
              ELSE IF Linked(s) THEN active \ Superseded(s) ELSE active \ (Staged[s] \ original[s])
  /\ (\A s \in SessionIds : /\ sessionState[s] = "STAGED" => Astray(s)
                            /\ sessionState[s] = "REVERT_IN_PROGRESS" => s \in confirming \/ Astray(s))
       => Owed = active

LEMMA OwedIs == State => OwedParts
<1> SUFFICES ASSUME State PROVE OwedParts
  OBVIOUS
<1> USE DEF SessionsInState
<1>1. /\ Setting /\ TypeOK /\ OneActive /\ LinkedSoFar /\ TypeInv /\ NothingNew
      /\ \A p \in Procs : NoneActive(p) /\ Concerned(p) /\ Held(p)
  BY BaseParts DEF State, PhaseInv, PhaseParts, InstalledParts
<1>2. \A s \in SessionIds : Unstaging(s) => sessionState[s] = "STAGED"
  BY <1>1 DEF Unstaging, LinkedSoFar, Setting
<1>3. InPhase("back") =
        {s \in SessionIds : sessionState[s] = "REVERT_IN_PROGRESS" /\ s \notin confirming /\ ~Astray(s)}
  BY <1>2 DEF InPhase, PhaseOf, RecordedPhase, StateOf, Truncated, Unstaging
<1>4. \A s \in InPhase("pending") :
        /\ s \in SessionIds /\ ~Unstaging(s) /\ ~Linked(s) /\ ~Astray(s)
        /\ \/ sessionState[s] \in ReadyStates
           \/ sessionState[s] = "UNKNOWN" /\ \E p \in Procs : Writes(p, ReadyStates) /\ write[p].id = s
  <2>1. ASSUME NEW s \in SessionIds, PhaseOf(s) = "pending"
        PROVE  /\ ~Unstaging(s) /\ ~Linked(s) /\ ~Astray(s) /\ StateOf(s) \in ReadyStates
    BY <2>1 DEF PhaseOf, RecordedPhase, ReadyStates, Unstaging
  <2>2. ASSUME NEW s \in SessionIds, sessionState[s] = "UNKNOWN", StateOf(s) \in ReadyStates
        PROVE  \E p \in Procs : Writes(p, ReadyStates) /\ write[p].id = s
    <3>1. Writers(s) # {} /\ StateOf(s) = write[CHOOSE p \in Writers(s) : TRUE].state
      BY <2>2 DEF StateOf, Writing, ReadyStates
    <3>2. (CHOOSE p \in Writers(s) : TRUE) \in Writers(s)
      BY <3>1
    <3> QED
      BY <2>2, <3>1, <3>2 DEF Writers, Writes
  <2> QED
    BY <2>1, <2>2 DEF InPhase, StateOf
<1>5. \A s \in SessionIds :
        sessionState[s] \in ReadyStates /\ ~Unstaging(s) /\ ~Linked(s) /\ ~Astray(s) => s \in InPhase("pending")
  BY DEF InPhase, PhaseOf, RecordedPhase, StateOf, ReadyStates, Unstaging
<1>6. SessionsInState({"STAGED"}) \cap InPhase("taken") =
        {s \in SessionIds : sessionState[s] = "STAGED" /\ Linked(s) /\ ~Unstaging(s) /\ ~Astray(s)}
  BY DEF InPhase, PhaseOf, RecordedPhase, StateOf, Unstaging
<1>7. \A s, u \in SessionIds : sessionState[s] \in ActiveStates /\ sessionState[u] \in ActiveStates => s = u
  BY <1>1, ActiveSessionsAre DEF OneActive
<1>8. ASSUME NEW s \in SessionIds, sessionState[s] = "REVERT_IN_PROGRESS", s \notin confirming, ~Astray(s)
      PROVE  Owed = original[s]
  <2>1. InPhase("back") = {s}
    BY <1>3, <1>7, <1>8 DEF ActiveStates
  <2> QED
    BY <2>1 DEF Owed
<1>9. ASSUME NEW s \in SessionIds, sessionState[s] = "STAGED", ~Astray(s)
      PROVE  Owed = IF Unstaging(s) THEN active
                    ELSE IF Linked(s) THEN active \ Superseded(s) ELSE active \ (Staged[s] \ original[s])
  <2>1. InPhase("back") = {}
    BY <1>3, <1>7, <1>9 DEF ActiveStates, OpenStates
  <2>2. \A p \in Procs : write[p] = NoWrite
    BY <1>1, <1>9, ActiveSessionsAre DEF NoneActive, ActiveStates, OpenStates
  <2>3. InPhase("pending") = IF Unstaging(s) \/ Linked(s) THEN {} ELSE {s}
    BY <1>4, <1>5, <1>7, <1>9, <2>2 DEF Writes, ReadyStates, ActiveStates, OpenStates
  <2>4. SessionsInState({"STAGED"}) \cap InPhase("taken") = IF Linked(s) /\ ~Unstaging(s) THEN {s} ELSE {}
    BY <1>6, <1>7, <1>9 DEF ActiveStates, OpenStates
  <2> QED
    BY <2>1, <2>3, <2>4 DEF Owed
<1>10. (\A s \in SessionIds : /\ sessionState[s] = "STAGED" => Astray(s)
                              /\ sessionState[s] = "REVERT_IN_PROGRESS" => s \in confirming \/ Astray(s))
         => Owed = active
  <2> SUFFICES ASSUME \A s \in SessionIds :
                        /\ sessionState[s] = "STAGED" => Astray(s)
                        /\ sessionState[s] = "REVERT_IN_PROGRESS" => s \in confirming \/ Astray(s)
               PROVE  Owed = active
    OBVIOUS
  <2>1. InPhase("back") = {}
    BY <1>3
  <2>2. SessionsInState({"STAGED"}) \cap InPhase("taken") = {}
    BY <1>6
  <2>3. ASSUME NEW s \in InPhase("pending")
        PROVE  active \subseteq original[s]
    <3>1. CASE sessionState[s] \in ReadyStates
      <4>1. sessionState[s] = "VERIFIED"
        BY <1>4, <3>1 DEF ReadyStates
      <4> QED
        BY <1>1, <1>4, <4>1 DEF NothingNew
    <3>2. CASE \E p \in Procs : Writes(p, ReadyStates) /\ write[p].id = s
      BY <1>1, <3>2 DEF Concerned
    <3> QED
      BY <1>4, <3>1, <3>2
  <2> QED
    BY <2>1, <2>2, <2>3 DEF Owed
<1> QED
  BY <1>8, <1>9, <1>10 DEF OwedParts

LEMMA OwedAfter == State' => OwedParts'
BY OwedIs, PTL

-----------------------------------------------------------------------------
(* What the device runs of a set of files, when some are added.             *)
LEMMA VersionsAre ==
  ASSUME NEW S \in SUBSET Apexes
  PROVE  \A f \in S : f.ver \in Nat /\ PreVersion[f.pkg] \in Nat
BY VersionsAssumption DEF Apexes

LEMMA RunsAdding ==
  ASSUME NEW S \in SUBSET Apexes, NEW f \in Apexes
  PROVE  /\ Runs(S \cup {f}) \ Runs(S) \subseteq {f}
         /\ \A g \in Runs(S) \ Runs(S \cup {f}) : g.pkg = f.pkg
<1>1. \A g \in Runs(S) : g \in S /\ g.ver >= PreVersion[g.pkg] /\ \A h \in S : h.pkg = g.pkg => h.ver <= g.ver
  BY DEF Runs, Highest
<1>2. \A g \in Runs(S \cup {f}) :
        /\ g \in S \cup {f} /\ g.ver >= PreVersion[g.pkg]
        /\ \A h \in S \cup {f} : h.pkg = g.pkg => h.ver <= g.ver
  BY DEF Runs, Highest
<1>3. ASSUME NEW g \in Runs(S \cup {f}), g # f
      PROVE  g \in Runs(S)
  BY <1>2, <1>3 DEF Runs, Highest
<1>4. ASSUME NEW g \in Runs(S), g.pkg # f.pkg
      PROVE  g \in Runs(S \cup {f})
  BY <1>1, <1>4 DEF Runs, Highest
<1> QED
  BY <1>3, <1>4

(* S1 is S0 with C in place of what it had of the packages of C.            *)
LEMMA RunsWith ==
  ASSUME NEW S0 \in SUBSET Apexes, NEW S1 \in SUBSET Apexes, NEW C \in SUBSET Apexes,
         \A f, g \in C : f.pkg = g.pkg => f = g,
         \A f \in C : f.ver >= PreVersion[f.pkg],
         C \subseteq S1,
         \A f \in S1 : f.pkg \in PackagesOf(C) => f \in C,
         \A f \in Apexes : f.pkg \notin PackagesOf(C) => (f \in S0 <=> f \in S1)
  PROVE  Runs(S1) = {f \in Runs(S0) : \A g \in C : g.pkg # f.pkg} \cup C
<1>1. \A f \in C : f.pkg \in PackagesOf(C)
  BY DEF PackagesOf
<1>2. \A f \in Apexes : f.pkg \notin PackagesOf(C) <=> \A g \in C : g.pkg # f.pkg
  BY DEF PackagesOf
<1>3. C \subseteq Runs(S1)
  <2> SUFFICES ASSUME NEW f \in C PROVE f \in Runs(S1)
    OBVIOUS
  <2>1. f \in S1 /\ f.ver \in Nat
    BY VersionsAre
  <2>2. \A g \in S1 : g.pkg = f.pkg => g = f
    BY <1>1
  <2>3. f.ver <= f.ver
    BY <2>1
  <2> QED
    BY <2>1, <2>2, <2>3 DEF Runs, Highest
<1>4. ASSUME NEW f \in Apexes, f.pkg \notin PackagesOf(C)
      PROVE  f \in Runs(S0) <=> f \in Runs(S1)
  <2>1. \A g \in Apexes : g.pkg = f.pkg => (g \in S0 <=> g \in S1)
    BY <1>4
  <2> QED
    BY <2>1 DEF Runs, Highest
<1>5. Runs(S0) \subseteq Apexes /\ Runs(S1) \subseteq S1
  BY DEF Runs, Highest
<1> QED
  BY <1>1, <1>2, <1>3, <1>4, <1>5

-----------------------------------------------------------------------------
(* Steps that leave the phases, or those of all sessions but one.           *)
LEMMA SamePhase ==
  ASSUME NEW s \in SessionIds, SameState(s), s \in confirming' <=> s \in confirming,
         Astray(s)' <=> Astray(s), Unstaging(s)' <=> Unstaging(s), Linked(s)' <=> Linked(s)
  PROVE  PhaseOf(s)' = PhaseOf(s)
BY DEF SameState, PhaseOf, RecordedPhase, Truncated

LEMMA OthersPhase ==
  ASSUME NEW u \in SessionIds, SameStates(SessionIds \ {u}), UNCHANGED original,
         \A s \in SessionIds \ {u} : s \in confirming' <=> s \in confirming,
         \A s \in SessionIds \ {u} : Astray(s)' <=> Astray(s),
         pc[Main] # "unstage" \/ session[Main] = u,
         pc'[Main] # "unstage" \/ session'[Main] = u,
         active' = active \/ \A s \in SessionIds \ {u} : sessionState[s] # "STAGED"
  PROVE  OthersKeep(u)
<1> SUFFICES ASSUME NEW s \in SessionIds \ {u} PROVE PhaseOf(s)' = PhaseOf(s)
  BY DEF OthersKeep
<1>1. SameState(s)
  BY DEF SameStates
<1>2. Unstaging(s)' <=> Unstaging(s)
  BY DEF Unstaging
<1>3. Linked(s)' <=> Linked(s)
  BY <1>1 DEF Linked, SameState
<1> QED
  BY <1>1, <1>2, <1>3, SamePhase

LEMMA Still ==
  ASSUME Counts, UNCHANGED <<active, confirming>>, SameStates(SessionIds),
         \A s \in SessionIds : Astray(s)' <=> Astray(s),
         pc[Main] # "unstage", pc'[Main] # "unstage",
         \A s \in SessionIds : sessionState[s] = "none" \/ original'[s] = original[s]
  PROVE  Atomic!Next
<1>1. \A s \in SessionIds : PhaseOf(s)' = PhaseOf(s)
  <2> SUFFICES ASSUME NEW s \in SessionIds PROVE PhaseOf(s)' = PhaseOf(s)
    OBVIOUS
  <2>1. SameState(s)
    BY DEF SameStates
  <2>2. Linked(s)' <=> Linked(s)
    BY <2>1 DEF Linked, SameState
  <2> QED
    BY <2>1, <2>2, SamePhase DEF Unstaging
<1>2. \A s \in SessionIds : PhaseOf(s) # "none" => original'[s] = original[s]
  BY DEF PhaseOf, RecordedPhase, Astray, StateOf, Unstaging
<1>3. Kept
  <2>1. \A p : InPhase(p)' = InPhase(p)
    BY <1>1 DEF InPhase
  <2>2. \A s \in InPhase("back") \cup InPhase("pending") : original'[s] = original[s]
    BY <1>2 DEF InPhase
  <2>3. SessionsInState({"STAGED"})' = SessionsInState({"STAGED"})
    BY DEF SessionsInState, SameStates, SameState
  <2>4. \A s : Superseded(s)' = Superseded(s)
    BY DEF Superseded
  <2>5. {original[s] : s \in InPhase("back")}' = {original[s] : s \in InPhase("back")}
    BY <2>1, <2>2
  <2>6. {Staged[s] \ original[s] : s \in InPhase("pending")}' = {Staged[s] \ original[s] : s \in InPhase("pending")}
    BY <2>1, <2>2
  <2>7. {Superseded(s) : s \in SessionsInState({"STAGED"}) \cap InPhase("taken")}'
          = {Superseded(s) : s \in SessionsInState({"STAGED"}) \cap InPhase("taken")}
    BY <2>1, <2>3, <2>4
  <2>8. Owed' = Owed
    BY <2>1, <2>5, <2>6, <2>7 DEF Owed
  <2> QED
    BY <2>8 DEF Kept, OnDevice, Runs, Highest
<1> QED
  BY <1>1, <1>2, <1>3, Dropped

(* What is owed decides what the device runs.                               *)
LEMMA DeviceAfter == OnDevice' = Runs(Owed')
BY DEF OnDevice, Runs, Highest

LEMMA OwedKept == Owed' = Owed => Kept
BY DEF Kept, OnDevice, Runs, Highest

-----------------------------------------------------------------------------
(* A state file that cannot be opened leads its session astray.             *)
LEMMA OpenFailsSimulates ==
  ASSUME Setting, Inv, Inv', NEW p \in Procs, OpenFails(p)
  PROVE  Atomic!Next
<1> USE DEF At, Goto, disk, vold, memory, locals, environment, history
<1>1. /\ TypeOK /\ TypeOK' /\ TypeInv /\ Main \in Procs /\ Held(p) /\ OnlyActs(p)
  BY BaseParts, OneActs DEF Inv, Procs, RevertStep
<1>2. /\ UNCHANGED <<sessionState, active, write, session, original, confirming>> /\ Counts
      /\ unrecorded' = unrecorded \cup {session[p]} /\ write[p] = NoWrite
      /\ pc[p] \in {"unstage", "removeOld", "ready", "confirm"} /\ pc'[p] \in {"next", "idle"}
  BY <1>1 DEF OpenFails, Fault, Counts, TypeOK
<1>3. PICK s \in SessionIds : s = session[p] /\ sessionState[s] \in OpenStates
  BY <1>1, <1>2 DEF OpenFails, TypeInv, SessionKnown, WithSession, CallLabels, Held, SessionHeld,
     OpenStates
<1>4. SameStates(SessionIds) /\ StateOf(s) = sessionState[s]
  BY <1>2, <1>3, QuietStates DEF StateOf, OpenStates
<1>5. Astray(s)' /\ StateOf(s) # "none"
  BY <1>2, <1>3, <1>4 DEF Astray, SameStates, SameState, OpenStates
<1>6. /\ pc[Main] # "unstage" \/ session[Main] = s
      /\ pc'[Main] # "unstage" \/ session'[Main] = s
  BY <1>1, <1>2, <1>3 DEF OnlyActs, Waiting
<1>7. \A u \in SessionIds \ {s} : Astray(u)' <=> Astray(u)
  BY <1>1, <1>2, <1>3, <1>4, OthersQuiet DEF SameStates, Reverting, RevertLabels
<1>8. OthersKeep(s)
  BY <1>2, <1>4, <1>6, <1>7, OthersPhase DEF SameStates
<1> QED
  BY <1>2, <1>5, <1>8, Strayed DEF Inv

(* RevertActiveSessions.                                                   *)
LEMMA RevertSimulates ==
  ASSUME Setting, Inv, Inv', NEW p \in Procs, RevertStep(p)
  PROVE  Atomic!Next
<1> USE DEF At, Goto, Visit, disk, vold, memory, locals, environment, history
<1>1. /\ TypeOK /\ TypeOK' /\ Main \in Procs /\ State /\ State' /\ OneActive /\ OneActive'
      /\ Held(p) /\ Held(p)' /\ NoneActive(p) /\ Concerned(p) /\ BackupHeld(p) /\ OnlyActs(p)
      /\ NothingNew /\ RevertGoesOn /\ RevertsOne(p) /\ StrayInv /\ StrayInv' /\ Base /\ Base'
  BY BaseParts, OneActs DEF Inv, State, PhaseInv, PhaseParts, Procs, Setting
<1>2. Counts /\ UNCHANGED <<original, confirming>>
  BY <1>1 DEF Counts, TypeOK, RevertStep, Revert, FindActiveSessions, MarkRevertInProgress,
     MarkOpenFails,
     AllMarked, CheckBackup, DeleteActive, ActiveIsEmpty, RenameBackup, RestoreFails, FinishRevert,
     FinishOpenFails, ReturnFromRevert, CommitSucceeds, CommitFails, OpenFails, Fault
<1>0. SUFFICES ASSUME ~OpenFails(p) PROVE Atomic!Next
  BY OpenFailsSimulates
<1>3. pc[Main] # "off" /\ pc[Main] # "unstage" /\ pc'[Main] # "unstage"
  <2>1. pc[Main] # "off"
    BY <1>1 DEF State, Base, Setting, TurnInv, OffTogether, OnlyActs, Acts
  <2>2. p # Main => pc[Main] \in Waiting /\ pc'[Main] = pc[Main]
    BY <1>1 DEF OnlyActs
  <2>3. pc[p] # "unstage"
    BY <1>0, <1>1 DEF RevertStep, Revert, FindActiveSessions, MarkRevertInProgress, MarkOpenFails,
       AllMarked,
       CheckBackup, DeleteActive, ActiveIsEmpty, RenameBackup, RestoreFails, FinishRevert,
       FinishOpenFails,
       ReturnFromRevert, CommitSucceeds, CommitFails, Held, WriteHeld
  <2>4. pc'[p] = pc[p] \/ pc'[p] \in {"mark"} \cup Restoring \cup ReturnsTo
    BY <1>0, <1>1, ReturnsThere DEF RevertStep, Revert, FindActiveSessions, MarkRevertInProgress,
       MarkOpenFails,
       AllMarked, CheckBackup, DeleteActive, ActiveIsEmpty, RenameBackup, RestoreFails,
       FinishRevert,
       FinishOpenFails, ReturnFromRevert, GiveUpRevert, CommitSucceeds, CommitFails, Restoring,
       TypeOK
  <2> QED
    BY <1>1, <2>1, <2>2, <2>3, <2>4 DEF Waiting, Restoring, ReturnsTo
<1>4. OwedParts /\ OwedParts'
  BY <1>1, OwedIs, OwedAfter
<1>5. CASE FindActiveSessions(p) \/ AllMarked(p) \/ CheckBackup(p) \/ ActiveIsEmpty(p) \/ RestoreFails(p)
  <2>1. UNCHANGED <<active, sessionState, write, unrecorded>>
    BY <1>5 DEF FindActiveSessions, AllMarked, CheckBackup, ActiveIsEmpty, RestoreFails
  <2>2. pc[p] \notin Reverting \/ pc'[p] \in Reverting
    BY <1>1, <1>5 DEF FindActiveSessions, AllMarked, CheckBackup, ActiveIsEmpty, RestoreFails,
       Reverting,
       RevertLabels, TypeOK
  <2>3. \A s \in SessionIds : Astray(s)' <=> Astray(s)
    BY <1>1, <2>1, <2>2, QuietStates, RevertStrays DEF SameRecord, SameStates
  <2> QED
    BY <1>2, <1>3, <2>1, <2>3, QuietStates, Still
<1>10. CASE ReturnFromRevert(p)
  <2>1. UNCHANGED <<active, sessionState, write, unrecorded>> /\ pc[p] \in Restoring /\ pc'[p] \notin Reverting
    BY <1>1, <1>10, ReturnsThere DEF ReturnFromRevert, Restoring, ReturnsTo, Reverting,
       RevertLabels, TypeOK
  <2>2. PICK s \in SessionIds : reverting[p] = {s}
    BY <1>1, <2>1 DEF Concerned
  <2>3. SameStates(SessionIds)
    BY <2>1, QuietStates
  <2>4. \A u \in SessionIds \ {s} : Astray(u)' <=> Astray(u)
    BY <1>1, <2>1, <2>2, <2>3, OthersRevert DEF SameStates
  <2>5. CASE Astray(s)
    <3>1. OthersKeep(s)
      BY <1>2, <1>3, <2>1, <2>3, <2>4, OthersPhase DEF SameStates
    <3> QED
      BY <1>1, <1>2, <2>5, <3>1, Strayed
  <2>6. CASE ~Astray(s)
    <3>1. ~Astray(s)'
      BY <1>1, <2>1, <2>3, <2>6, NobodyReverts DEF Astray, SameStates, SameState
    <3> QED
      BY <1>2, <1>3, <2>1, <2>3, <2>4, <2>6, <3>1, Still
  <2> QED
    BY <2>5, <2>6
<1>11. CASE MarkOpenFails(p)
  <2>1. PICK s \in SessionIds : reverting[p] = {s} /\ todo[p] = {s}
    BY <1>1, <1>11 DEF MarkOpenFails, Concerned, Held, TodoHeld
  <2>2. /\ UNCHANGED <<active, sessionState, write>> /\ unrecorded' = unrecorded \cup {s}
        /\ sessionState[s] \in ActiveStates
    BY <1>1, <1>11, <2>1 DEF MarkOpenFails, GiveUpRevert, Held, TodoHeld
  <2>3. SameStates(SessionIds) /\ StateOf(s) = sessionState[s]
    BY <2>2, QuietStates DEF StateOf, ActiveStates, OpenStates
  <2>4. \A u \in SessionIds \ {s} : Astray(u)' <=> Astray(u)
    BY <1>1, <2>1, <2>2, <2>3, OthersRevert DEF SameStates
  <2>5. OthersKeep(s)
    BY <1>2, <1>3, <2>2, <2>3, <2>4, OthersPhase DEF SameStates
  <2>6. Astray(s)' /\ StateOf(s) # "none"
    BY <2>2, <2>3 DEF Astray, SameStates, SameState, ActiveStates, OpenStates
  <2> QED
    BY <1>1, <1>2, <2>5, <2>6, Strayed
<1>12. CASE FinishOpenFails(p)
  <2>1. PICK s \in todo[p] : unrecorded' = unrecorded \cup {s}
    BY <1>12 DEF FinishOpenFails
  <2>2. /\ UNCHANGED <<active, sessionState, write, pc, reverting>> /\ pc[p] \in Restoring /\ write[p] = NoWrite
        /\ s \in SessionIds /\ s \in reverting[p]
        /\ sessionState[s] \in {"REVERT_IN_PROGRESS", "UNKNOWN"}
    BY <1>1, <1>12, <2>1 DEF FinishOpenFails, Restoring, Held, TodoHeld, TypeOK
  <2>3. SameStates(SessionIds) /\ StateOf(s) = sessionState[s]
    BY <1>1, <2>2, QuietStates, StateOfIs DEF OnlyActs, OthersWriteNothing
  <2>4. \A u \in SessionIds \ {s} : Astray(u)' <=> Astray(u)
    BY <1>1, <2>1, <2>2, <2>3, OthersRevert DEF SameStates, Reverting, RevertLabels, Restoring
  <2>5. OthersKeep(s)
    BY <1>2, <1>3, <2>2, <2>3, <2>4, OthersPhase DEF SameStates
  <2>6. BeingReverted(s)'
    BY <2>2 DEF BeingReverted, RevertLabels, Restoring
  <2>7. Astray(s)' /\ StateOf(s) # "none"
    BY <2>1, <2>2, <2>3, <2>6 DEF Astray, SameStates, SameState
  <2> QED
    BY <1>1, <1>2, <2>2, <2>5, <2>7, Strayed
<1>6. CASE MarkRevertInProgress(p)
  <2>1. PICK s \in todo[p] : UpdateStateAndCommit(p, s, "REVERT_IN_PROGRESS")
    BY <1>6 DEF MarkRevertInProgress
  <2>2. s \in SessionIds /\ sessionState[s] \in ActiveStates /\ write[p] = NoWrite
        /\ UNCHANGED <<active, original, confirming, unrecorded, pc>> /\ pc[p] = "mark"
    BY <1>1, <1>6 DEF MarkRevertInProgress, Held, TodoHeld, TypeOK
  <2>3. /\ sessionState'[s] = "UNKNOWN" /\ StateOf(s)' = "REVERT_IN_PROGRESS"
        /\ StateOf(s) = sessionState[s] /\ SameStates(SessionIds \ {s})
    BY <1>1, <2>1, <2>2, TruncatedState DEF States, ActiveStates, OpenStates
  <2>5. \A u \in SessionIds \ {s} : sessionState[u] \notin ActiveStates /\ sessionState'[u] = sessionState[u]
    BY <1>1, <2>2, <2>3, ActiveSessionsAre DEF OneActive, SameStates, SameState
  <2>12. \A u \in SessionIds \ {s} : Astray(u)' <=> Astray(u)
    BY <1>1, <2>2, <2>3, OthersRevert DEF Reverting, RevertLabels
  <2>6. OthersKeep(s)
    BY <1>3, <2>2, <2>3, <2>12, OthersPhase
  <2>0. SUFFICES ASSUME ~Astray(s), ~Astray(s)' PROVE Atomic!Next
    BY <1>1, <1>2, <2>2, <2>3, <2>6, Strayed DEF ActiveStates, OpenStates
  <2>4. PhaseOf(s)' = "undoing"
    BY <1>3, <2>0, <2>3 DEF PhaseOf, RecordedPhase, Unstaging, Truncated
  <2>13. StateOf(s) # "none" /\ StateOf(s) # "UNKNOWN"
    BY <2>2, <2>3 DEF ActiveStates, OpenStates
  <2>14. s \notin unrecorded
    BY <2>0, <2>13 DEF Astray
  <2>7. Owed' = active'
    BY <1>4, <2>3, <2>5 DEF OwedParts, ActiveStates, OpenStates
  <2>8. CASE sessionState[s] = "REVERT_IN_PROGRESS" /\ s \notin confirming
    <3>1. PhaseOf(s) = "back"
      BY <1>3, <2>0, <2>3, <2>8 DEF PhaseOf, RecordedPhase, Unstaging, Truncated
    <3> QED
      BY <1>2, <2>2, <2>4, <2>6, <3>1, Outcomes DEF Becomes
  <2>9. CASE sessionState[s] = "REVERT_IN_PROGRESS" /\ s \in confirming
    <3>1. PhaseOf(s) = "undoing"
      BY <1>3, <2>0, <2>3, <2>9 DEF PhaseOf, RecordedPhase, Unstaging, Truncated
    <3>2. Owed = active
      BY <1>4, <2>5, <2>9 DEF OwedParts, ActiveStates, OpenStates
    <3>3. \A u \in SessionIds : PhaseOf(u)' = PhaseOf(u)
      BY <2>4, <2>6, <3>1 DEF OthersKeep
    <3> QED
      BY <1>2, <2>2, <2>7, <3>2, <3>3, OwedKept, Dropped
  <2>10. CASE sessionState[s] = "STAGED"
    <3>1. active \subseteq original[s]
      <4>1. pc[Main] \notin Staging
        BY <1>1, <1>3, <1>6 DEF MarkRevertInProgress, Staging, OnlyActs, Waiting
      <4> QED
        BY <1>1, <2>2, <2>10, <2>14, <4>1 DEF NothingNew, SessionsInState
    <3>2. ~Linked(s) /\ ~Unstaging(s)
      BY <1>3, <3>1 DEF Linked, Unstaging
    <3>3. PhaseOf(s) = "pending"
      BY <2>0, <2>3, <2>10, <3>2 DEF PhaseOf, RecordedPhase
    <3>4. Owed = active
      <4>1. Owed = active \ (Staged[s] \ original[s])
        BY <1>4, <2>0, <2>2, <2>10, <3>2 DEF OwedParts
      <4> QED
        BY <3>1, <4>1
    <3> QED
      BY <1>2, <2>2, <2>4, <2>6, <2>7, <3>3, <3>4, OwedKept, Outcomes DEF Becomes
  <2>11. CASE sessionState[s] \in {"VERIFIED", "ACTIVATED"}
    <3>1. PhaseOf(s) \in {"pending", "taken", "closing"}
      BY <1>3, <2>0, <2>3, <2>11 DEF PhaseOf, RecordedPhase, Unstaging, Linked
    <3>2. Owed = active
      BY <1>4, <2>5, <2>11 DEF OwedParts, ActiveStates, OpenStates
    <3> QED
      BY <1>2, <2>2, <2>4, <2>6, <2>7, <3>1, <3>2, OwedKept, Outcomes DEF Becomes
  <2> QED
    BY <2>2, <2>8, <2>9, <2>10, <2>11 DEF ActiveStates, OpenStates
<1>7. CASE DeleteActive(p) \/ RenameBackup(p)
  <2>1. PICK s \in SessionIds : reverting[p] = {s} /\ todo[p] = {s}
    BY <1>1, <1>7 DEF DeleteActive, RenameBackup, Concerned, BackupHeld, Restoring
  <2>2. /\ UNCHANGED <<sessionState, write, original, confirming, unrecorded>> /\ write[p] = NoWrite
        /\ pc[p] \in Restoring /\ pc'[p] \in Restoring
    BY <1>1, <1>7 DEF DeleteActive, RenameBackup, Restoring, TypeOK
  <2>3. \A u \in SessionIds \ {s} : sessionState[u] \notin ActiveStates
    BY <1>1, <2>1, <2>2, ActiveSessionsAre DEF RevertsOne
  <2>4. SameStates(SessionIds) /\ StateOf(s) = sessionState[s]
    BY <1>1, <2>2, QuietStates, StateOfIs DEF OnlyActs, OthersWriteNothing
  <2>10. \A u \in SessionIds \ {s} : Astray(u)' <=> Astray(u)
    BY <1>1, <2>1, <2>2, <2>4, OthersRevert DEF SameStates
  <2>5. OthersKeep(s)
    BY <1>3, <2>2, <2>3, <2>4, <2>10, OthersPhase DEF SameStates, ActiveStates, OpenStates
  <2>0. SUFFICES ASSUME ~Astray(s), ~Astray(s)' PROVE Atomic!Next
    <3>1. sessionState[s] \in {"REVERT_IN_PROGRESS", "UNKNOWN"}
      BY <1>1, <2>1, <2>2, MarkedOrAstray
    <3> QED
      BY <1>1, <1>2, <2>4, <2>5, <3>1, Strayed
  <2>11. sessionState[s] = "REVERT_IN_PROGRESS" /\ sessionState'[s] = "REVERT_IN_PROGRESS"
    BY <1>1, <2>0, <2>1, <2>2, MarkedOrAstray
  <2>6. PhaseOf(s)' = PhaseOf(s) /\ (s \in confirming => PhaseOf(s) = "undoing")
    BY <1>3, <2>0, <2>2, <2>4, <2>11
       DEF PhaseOf, RecordedPhase, Unstaging, Truncated, SameStates, SameState
  <2>7. \A u \in SessionIds : PhaseOf(u)' = PhaseOf(u)
    BY <2>5, <2>6 DEF OthersKeep
  <2>8. CASE s \in confirming
    <3>1. Atomic!Drifts
      BY <2>6, <2>8 DEF Atomic!Drifts
    <3> QED
      BY <1>2, <2>2, <2>7, <3>1, Dropped
  <2>9. CASE s \notin confirming
    <3>1. Owed = original[s] /\ Owed' = original'[s]
      BY <1>4, <2>0, <2>2, <2>9, <2>11 DEF OwedParts
    <3> QED
      BY <1>2, <2>2, <2>7, <3>1, OwedKept, Dropped
  <2> QED
    BY <2>8, <2>9
<1>8. CASE FinishRevert(p)
  <2>1. PICK s \in todo[p] : UpdateStateAndCommit(p, s, IF pc[p] = "done" THEN "REVERTED" ELSE "REVERT_FAILED")
    BY <1>8 DEF FinishRevert
  <2>2. /\ s \in SessionIds /\ sessionState[s] \in {"REVERT_IN_PROGRESS", "UNKNOWN"} /\ write[p] = NoWrite
        /\ pc[p] \in {"done", "fail"} /\ pc[p] \in Restoring /\ reverting[p] = {s} /\ todo[p] = {s}
        /\ UNCHANGED <<active, original, confirming, unrecorded, pc>>
    BY <1>1, <1>8, <2>1 DEF FinishRevert, Held, TodoHeld, Restoring, TypeOK, Concerned
  <2>3. /\ sessionState'[s] = "UNKNOWN" /\ StateOf(s) = sessionState[s]
        /\ StateOf(s)' = (IF pc[p] = "done" THEN "REVERTED" ELSE "REVERT_FAILED")
        /\ SameStates(SessionIds \ {s})
    BY <1>1, <2>1, <2>2, TruncatedState DEF States
  <2>11. \A u \in SessionIds \ {s} : Astray(u)' <=> Astray(u)
    BY <1>1, <2>2, <2>3, OthersRevert DEF Reverting, RevertLabels
  <2>4. \A u \in SessionIds \ {s} : sessionState[u] \notin ActiveStates /\ sessionState'[u] = sessionState[u]
    BY <1>1, <2>2, <2>3, ActiveSessionsAre DEF RevertsOne, SameStates, SameState
  <2>5. OthersKeep(s)
    BY <1>3, <2>2, <2>3, <2>11, OthersPhase
  <2>0. SUFFICES ASSUME ~Astray(s), ~Astray(s)' PROVE Atomic!Next
    BY <1>1, <1>2, <2>2, <2>3, <2>5, Strayed
  <2>12. sessionState[s] = "REVERT_IN_PROGRESS"
    BY <1>1, <2>0, <2>1, <2>2, MarkedOrAstray
  <2>6. Owed' = active'
    BY <1>4, <2>3, <2>4 DEF OwedParts, ActiveStates, OpenStates
  <2>7. /\ PhaseOf(s) = (IF s \in confirming THEN "undoing" ELSE "back")
        /\ PhaseOf(s)' = (IF pc[p] = "done" /\ s \notin confirming THEN "reverted" ELSE "failed")
    BY <1>3, <2>0, <2>2, <2>3, <2>12 DEF PhaseOf, RecordedPhase, Unstaging, Truncated
  <2>8. CASE s \in confirming
    <3>1. Owed = active
      BY <1>4, <2>4, <2>8, <2>12 DEF OwedParts, ActiveStates, OpenStates
    <3> QED
      BY <1>2, <2>2, <2>5, <2>6, <2>7, <2>8, <3>1, OwedKept, Outcomes DEF Becomes
  <2>9. CASE s \notin confirming /\ active = original[s]
    <3>1. Owed = active
      BY <1>4, <2>0, <2>2, <2>9, <2>12 DEF OwedParts
    <3> QED
      BY <1>2, <2>2, <2>5, <2>6, <2>7, <2>9, <3>1, OwedKept, Outcomes DEF Becomes
  <2>10. CASE s \notin confirming /\ active # original[s]
    <3>1. pc[p] = "fail" /\ MayRestore(s)
      BY <1>1, <2>2, <2>10, <2>12 DEF BackupHeld, RevertGoesOn, Undoing, SessionsInState
    <3>3. faults > 0
      BY <1>1, <2>10, <3>1 DEF Concerned, MayRestore
    <3>2. faults' > 0
      BY <1>2, <3>3 DEF Counts
    <3> QED
      BY <1>2, <2>2, <2>5, <2>7, <2>10, <3>1, <3>2, Outcomes DEF Becomes
  <2> QED
    BY <2>8, <2>9, <2>10
<1>9. CASE CommitSucceeds(p) \/ CommitFails(p)
  <2>1. UNCHANGED <<active, original, confirming>>
    BY <1>9 DEF CommitSucceeds, CommitFails
  <2>2. PICK s \in SessionIds :
          /\ write[p].id = s /\ write[p] # NoWrite /\ sessionState[s] = "UNKNOWN"
          /\ StateOf(s) = write[p].state /\ SameStates(SessionIds \ {s})
          /\ CommitSucceeds(p) => sessionState'[s] = write[p].state /\ StateOf(s)' = StateOf(s)
          /\ CommitFails(p) => /\ sessionState'[s] = "UNKNOWN" /\ StateOf(s)' = "UNKNOWN"
    BY <1>1, <1>9, WrittenState
  <2>3. \A u \in SessionIds : sessionState[u] \notin ActiveStates
    BY <1>1, <2>2, ActiveSessionsAre DEF NoneActive
  <2>4. \A u \in SessionIds \ {s} : sessionState'[u] \notin ActiveStates
    BY <2>2, <2>3 DEF SameStates, SameState
  <2>5. Owed = active
    BY <1>4, <2>3 DEF OwedParts, ActiveStates, OpenStates
  <2>11. \A u \in SessionIds \ {s} : Astray(u)' <=> Astray(u)
    <3>1. CASE CommitSucceeds(p)
      BY <1>1, <2>2, <3>1, OthersRevert DEF CommitSucceeds
    <3>2. CASE CommitFails(p) /\ pc' = pc /\ unrecorded' = unrecorded \cup {write[p].id}
      BY <1>1, <2>2, <3>2, OthersRevert
    <3>3. CASE CommitFails(p) /\ write[p].state = "REVERT_IN_PROGRESS" /\ GiveUpRevert(p)
      <4>1. pc[p] = "mark" /\ reverting[p] = {s}
        BY <1>1, <2>2, <3>3 DEF Concerned, Writes, RevertsOne
      <4> QED
        BY <1>1, <2>2, <3>3, <4>1, OthersRevert DEF GiveUpRevert
    <3> QED
      BY <1>9, <3>1, <3>2, <3>3 DEF CommitFails
  <2>6. OthersKeep(s)
    BY <1>3, <2>1, <2>2, <2>11, OthersPhase
  <2>0. SUFFICES ASSUME ~Astray(s), ~Astray(s)' PROVE Atomic!Next
    <3>1. write[p].state # "none"
      BY <1>1, <2>2 DEF TypeOK, States
    <3> QED
      BY <1>1, <1>2, <2>2, <2>6, <3>1, Strayed
  <2>7. ~Linked(s) /\ ~Unstaging(s) /\ ~Unstaging(s)' /\ write[p].state \in States
    BY <1>1, <1>3, <2>2 DEF Linked, Unstaging, TypeOK
  <2>8. CASE CommitFails(p)
    <3>1. Owed' = active'
      BY <1>4, <2>2, <2>4, <2>8 DEF OwedParts, ActiveStates, OpenStates
    <3>2. PhaseOf(s)' = "lost"
      BY <2>0, <2>2, <2>7, <2>8 DEF PhaseOf, RecordedPhase
    <3>3. PhaseOf(s) \in {"pending", "taken", "undoing", "kept", "reverted", "failed", "lost"}
      <4>1. write[p].state = "ACTIVATED" => s \notin confirming
        BY <1>1, <2>2 DEF Concerned, Writes, OpenStates
      <4> QED
        BY <2>0, <2>2, <2>7, <4>1 DEF PhaseOf, RecordedPhase, Truncated, States
    <3>4. CASE PhaseOf(s) = "lost"
      <4>1. \A u \in SessionIds : PhaseOf(u)' = PhaseOf(u)
        BY <2>6, <3>2, <3>4 DEF OthersKeep
      <4> QED
        BY <1>2, <2>1, <2>5, <3>1, <4>1, OwedKept, Dropped
    <3>5. CASE PhaseOf(s) # "lost"
      BY <1>2, <2>1, <2>5, <2>6, <3>1, <3>2, <3>3, <3>5, OwedKept, Outcomes DEF Becomes
    <3> QED
      BY <3>4, <3>5
  <2>9. CASE CommitSucceeds(p) /\ write[p].state = "REVERT_IN_PROGRESS" /\ s \notin confirming
    <3>1. Owed' = original'[s]
      BY <1>4, <2>0, <2>1, <2>2, <2>9 DEF OwedParts
    <3>2. PhaseOf(s) = "undoing" /\ PhaseOf(s)' = "back"
      BY <2>0, <2>1, <2>2, <2>7, <2>9 DEF PhaseOf, RecordedPhase, Truncated
    <3>3. OnDevice' = Runs(original[s])
      BY <2>1, <3>1, DeviceAfter
    <3> QED
      BY <1>2, <2>1, <2>6, <3>2, <3>3, Outcomes DEF Becomes
  <2>10. CASE CommitSucceeds(p) /\ ~(write[p].state = "REVERT_IN_PROGRESS" /\ s \notin confirming)
    <3>1. write[p].state = "STAGED" => active \subseteq original[s]
      BY <1>1, <2>2 DEF Concerned, Writes, ReadyStates
    <3>2. ~Linked(s)'
      BY <2>1, <2>2, <2>10, <3>1 DEF Linked
    <3>3. Owed' = active'
      <4>1. CASE write[p].state = "STAGED"
        <5>1. Owed' = active' \ (Staged[s] \ original'[s])
          BY <1>4, <2>0, <2>2, <2>7, <2>10, <3>2, <4>1 DEF OwedParts
        <5> QED
          BY <2>1, <3>1, <4>1, <5>1
      <4>2. CASE write[p].state # "STAGED"
        BY <1>4, <2>1, <2>2, <2>4, <2>10, <4>2 DEF OwedParts, ActiveStates, OpenStates
      <4> QED
        BY <4>1, <4>2
    <3>4. PhaseOf(s)' = PhaseOf(s)
      BY <2>0, <2>1, <2>2, <2>7, <2>10, <3>2 DEF PhaseOf, RecordedPhase, Truncated
    <3>5. \A u \in SessionIds : PhaseOf(u)' = PhaseOf(u)
      BY <2>6, <3>4 DEF OthersKeep
    <3> QED
      BY <1>2, <2>1, <2>5, <3>3, <3>5, OwedKept, Dropped
  <2> QED
    BY <1>9, <2>8, <2>9, <2>10
<1> QED
  BY <1>0, <1>5, <1>6, <1>7, <1>8, <1>9, <1>10, <1>11, <1>12 DEF RevertStep, Revert

-----------------------------------------------------------------------------
(* The device.  What was not written is lost; what was about to be unlinked  *)
(* is linked again.                                                        *)
LEMMA PowerSimulates ==
  ASSUME Setting, Inv, Inv', PowerOff
  PROVE  Atomic!Next
<1>1. /\ TypeOK /\ Main \in Procs /\ State /\ State' /\ LinkedSoFar /\ TypeInv /\ OneBusy /\ MainKnows
      /\ StrayInv /\ StrayInv'
      /\ \A p \in Procs : Held(p) /\ NoneActive(p) /\ Concerned(p) /\ RevertsOne(p)
  BY BaseParts DEF Inv, State, PhaseInv, PhaseParts, Procs, Setting, Base, TurnInv, InstalledParts
<1>2. /\ UNCHANGED <<active, sessionState, original, confirming, faults>>
      /\ unrecorded' = unrecorded \cup {write[p].id : p \in {q \in Procs : write[q] # NoWrite}}
      /\ \A q \in Procs : write'[q] = NoWrite /\ pc'[q] = "off"
  BY <1>1, BaseParts DEF PowerOff, history, Inv
<1>3. Counts /\ OwedParts /\ OwedParts' /\ pc'[Main] # "unstage"
  BY <1>1, <1>2, OwedIs, OwedAfter DEF Counts, TypeOK
<1>4. \A s \in SessionIds : StateOf(s)' = sessionState[s]
  BY <1>1, <1>2, StateOfIs DEF OthersWriteNothing
<1>7. \A s : ~BeingReverted(s)'
  BY <1>2 DEF BeingReverted, RevertLabels
<1>5. ASSUME NEW p \in Procs, write[p] # NoWrite
      PROVE  Atomic!Next
  <2>1. PICK s \in SessionIds : write[p].id = s /\ sessionState[s] = "UNKNOWN" /\ write[p].state \in States
    BY <1>1, <1>5 DEF TypeOK, Held, WriteHeld
  <2>2. OthersWriteNothing(p) /\ pc[Main] # "unstage"
    BY <1>1, <1>5 DEF OneBusy, Busy, OthersWriteNothing, Waiting, Held, WriteHeld
  <2>3. StateOf(s) = write[p].state /\ SameStates(SessionIds \ {s})
    BY <1>2, <1>4, <1>5, <2>1, <2>2, StateOfIs DEF SameStates, SameState
  <2>11. \A u \in SessionIds \ {s} : u \in unrecorded' <=> u \in unrecorded
    BY <1>2, <1>5, <2>1, <2>2 DEF OthersWriteNothing
  <2>12. \A u \in SessionIds \ {s} : ~BeingReverted(u)
    <3> SUFFICES ASSUME NEW u \in SessionIds, BeingReverted(u) PROVE u = s
      OBVIOUS
    <3>1. PICK q \in Procs : pc[q] \in RevertLabels \ {"revert"} /\ u \in reverting[q]
      BY DEF BeingReverted
    <3>2. q = p
      BY <1>1, <1>5, <3>1 DEF OneBusy, Busy, Waiting, RevertLabels
    <3> QED
      BY <1>1, <1>5, <2>1, <3>1, <3>2 DEF RevertsOne, RevertLabels, Restoring
  <2>13. \A u \in SessionIds \ {s} : Astray(u)' <=> Astray(u)
    BY <1>7, <2>3, <2>11, <2>12, AstrayStays DEF SameRecord, SameStates
  <2>4. OthersKeep(s)
    BY <1>2, <1>3, <2>2, <2>3, <2>13, OthersPhase
  <2>0. SUFFICES ASSUME ~Astray(s), ~Astray(s)' PROVE Atomic!Next
    BY <1>1, <1>2, <1>3, <2>1, <2>3, <2>4, Strayed DEF States
  <2>5. \A u \in SessionIds : sessionState[u] \notin ActiveStates
    BY <1>1, <1>5, ActiveSessionsAre DEF NoneActive
  <2>6. Owed = active /\ Owed' = active'
    BY <1>2, <1>3, <2>5 DEF OwedParts, ActiveStates, OpenStates
  <2>7. PhaseOf(s)' = "lost"
    BY <1>3, <1>4, <2>0, <2>1 DEF PhaseOf, RecordedPhase, Unstaging
  <2>8. PhaseOf(s) \in {"pending", "taken", "undoing", "kept", "reverted", "failed", "lost"}
    <3>1. write[p].state = "ACTIVATED" => s \notin confirming
      BY <1>1, <1>5, <2>1 DEF Concerned, Writes, OpenStates
    <3> QED
      BY <2>0, <2>1, <2>2, <2>3, <3>1 DEF PhaseOf, RecordedPhase, Truncated, States, Unstaging
  <2>9. CASE PhaseOf(s) = "lost"
    <3>1. \A u \in SessionIds : PhaseOf(u)' = PhaseOf(u)
      BY <2>4, <2>7, <2>9 DEF OthersKeep
    <3> QED
      BY <1>2, <1>3, <2>6, <3>1, OwedKept, Dropped
  <2>10. CASE PhaseOf(s) # "lost"
    BY <1>2, <1>3, <2>4, <2>6, <2>7, <2>8, <2>10, OwedKept, Outcomes DEF Becomes
  <2> QED
    BY <2>9, <2>10
<1>6. CASE \A p \in Procs : write[p] = NoWrite
  <2>1. \A s \in SessionIds : StateOf(s) = sessionState[s]
    BY <1>1, <1>6, StateOfIs DEF OthersWriteNothing
  <2>2. SameStates(SessionIds)
    BY <1>2, <1>4, <2>1 DEF SameStates, SameState
  <2>5. unrecorded' = unrecorded
    BY <1>2, <1>6
  <2>6. \A s \in SessionIds : ~BeingReverted(s) => (Astray(s)' <=> Astray(s))
    BY <1>7, <2>2, <2>5, AstrayStays DEF SameRecord, SameStates
  <2>3. CASE pc[Main] # "unstage" /\ \A s \in SessionIds : ~BeingReverted(s)
    BY <1>2, <1>3, <2>2, <2>3, <2>6, Still
  <2>7. CASE \E s \in SessionIds : BeingReverted(s)
    <3>1. PICK s \in SessionIds, p \in Procs : pc[p] \in RevertLabels \ {"revert"} /\ s \in reverting[p]
      BY <2>7 DEF BeingReverted
    <3>2. reverting[p] = {s}
      BY <1>1, <3>1 DEF Concerned, RevertLabels, Restoring
    <3>3. \A q \in Procs \ {p} : pc[q] \in Waiting
      BY <1>1, <3>1 DEF OneBusy, Busy, Waiting, RevertLabels
    <3>4. pc[Main] # "unstage" /\ \A u \in SessionIds \ {s} : ~BeingReverted(u)
      BY <1>1, <3>1, <3>2, <3>3 DEF BeingReverted, Waiting, RevertLabels
    <3>5. CASE Astray(s)
      <4>1. OthersKeep(s)
        BY <1>2, <1>3, <2>2, <2>6, <3>4, OthersPhase DEF SameStates
      <4> QED
        BY <1>1, <1>2, <1>3, <3>5, <4>1, Strayed
    <3>6. CASE ~Astray(s)
      <4>1. ~Astray(s)'
        BY <1>7, <2>2, <2>5, <3>6 DEF Astray, SameStates, SameState
      <4> QED
        BY <1>2, <1>3, <2>2, <2>6, <3>4, <3>6, <4>1, Still
    <3> QED
      BY <3>5, <3>6
  <2>4. CASE pc[Main] = "unstage" /\ \A s \in SessionIds : ~BeingReverted(s)
    <3>1. PICK s \in SessionIds : s = session[Main] /\ sessionState[s] = "STAGED" /\ faults > 0
      BY <1>1, <2>4 DEF TypeInv, SessionKnown, WithSession, LinkedSoFar, MainKnows, Setting
    <3>2. OthersKeep(s)
      BY <1>2, <1>3, <2>2, <2>4, <2>6, <3>1, OthersPhase DEF SameStates
    <3>0. SUFFICES ASSUME ~Astray(s), ~Astray(s)' PROVE Atomic!Next
      BY <1>1, <1>2, <1>3, <2>1, <3>1, <3>2, Strayed
    <3>3. PhaseOf(s) = "failed"
      BY <2>4, <3>0, <3>1 DEF PhaseOf, RecordedPhase, Unstaging
    <3>4. PhaseOf(s)' \in {"pending", "taken"}
      BY <1>3, <1>4, <3>0, <3>1 DEF PhaseOf, RecordedPhase, Unstaging
    <3>5. faults' > 0
      BY <1>2, <3>1
    <3> QED
      BY <1>2, <1>3, <3>1, <3>2, <3>3, <3>4, <3>5, Outcomes DEF Becomes
  <2> QED
    BY <2>3, <2>4, <2>7
<1> QED
  BY <1>5, <1>6

LEMMA DeviceSimulates ==
  ASSUME Setting, Inv, Inv', Boot \/ PowerLoss \/ Reboot \/ StartCheckpoint \/ CommitChanges \/ Publish
  PROVE  Atomic!Next
<1> USE DEF At, Goto, disk, vold, memory, locals, environment, history
<1>1. TypeOK /\ ~journaling /\ Main \in Procs /\ OneBusy /\ OffTogether
  BY BaseParts DEF Inv, Procs, Setting, TurnInv
<1>2. ~StartCheckpoint /\ ~CommitChanges
  BY <1>1 DEF StartCheckpoint, CommitChanges, Setting
<1>3. CASE Boot \/ Publish
  <2>1. UNCHANGED <<active, sessionState, write, original, confirming, faults, unrecorded>>
    BY <1>3 DEF Boot, Publish
  <2>2. Counts /\ pc[Main] # "unstage" /\ pc'[Main] # "unstage"
    BY <1>1, <1>3, <2>1 DEF Boot, Publish, Counts, TypeOK
  <2>3. \A q \in Procs : /\ pc[q] \in Waiting \cup {"publish"}
                         /\ pc'[q] \in {"off", "start", "idle", "waitCrash"}
    BY <1>1, <1>3 DEF Boot, Publish, OneBusy, OffTogether, Busy, Waiting, TypeOK
  <2>4. \A s : ~BeingReverted(s) /\ ~BeingReverted(s)'
    BY <2>3 DEF BeingReverted, Waiting, RevertLabels
  <2>5. \A s \in SessionIds : Astray(s)' <=> Astray(s)
    BY <2>1, <2>4, QuietStates, AstrayStays DEF SameRecord, SameStates
  <2> QED
    BY <2>1, <2>2, <2>5, QuietStates, Still
<1> QED
  BY <1>2, <1>3, PowerSimulates DEF PowerLoss, Reboot

-----------------------------------------------------------------------------
(* Once the boot has staged what there was to stage, and a revert that was   *)
(* cut short has been carried to its end, the device is owed what is linked. *)
NoneUndone == \A s \in Undoing : CommitFailed(s)
Settled == State /\ NoneUndone /\ pc[Main] \notin Staging
OwesActive == Owed = active /\ \A s \in SessionIds : Linked(s) => Astray(s)

LEMMA OwedLater == Settled => OwesActive
<1> SUFFICES ASSUME Settled PROVE OwesActive
  OBVIOUS
<1>1. OwedParts /\ NothingNew
  BY OwedIs DEF Settled, State, PhaseInv, PhaseParts
<1>2. \A s \in SessionIds : sessionState[s] = "STAGED" /\ ~Astray(s) => active \subseteq original[s]
  BY <1>1 DEF NothingNew, Settled, SessionsInState, Astray, StateOf
<1>3. \A s \in SessionIds : (Linked(s) => Astray(s)) /\ ~Unstaging(s)
  BY <1>2 DEF Linked, Unstaging, Settled, Staging
<1>4. CASE \E s \in SessionIds : sessionState[s] = "STAGED" /\ ~Astray(s)
  <2>1. PICK s \in SessionIds : sessionState[s] = "STAGED" /\ ~Astray(s)
    BY <1>4
  <2>2. Owed = active \ (Staged[s] \ original[s])
    BY <1>1, <1>3, <2>1 DEF OwedParts
  <2> QED
    BY <1>2, <1>3, <2>1, <2>2 DEF OwesActive
<1>5. CASE \A s \in SessionIds : sessionState[s] = "STAGED" => Astray(s)
  <2>1. \A s \in SessionIds : sessionState[s] = "REVERT_IN_PROGRESS" => Astray(s)
    BY DEF Settled, NoneUndone, Undoing, SessionsInState, CommitFailed, Astray, StateOf
  <2>2. Owed = active
    BY <1>1, <1>5, <2>1 DEF OwedParts
  <2> QED
    BY <1>3, <2>2 DEF OwesActive
<1> QED
  BY <1>4, <1>5

LEMMA OwedStill == Settled' => OwesActive'
BY OwedLater, PTL

LEMMA SettledSteps ==
  ASSUME Setting, Inv, Inv', NoneUndone, NoneUndone', pc[Main] \notin Staging, pc'[Main] \notin Staging
  PROVE  OwesActive /\ OwesActive' /\ (active' = active => Kept)
<1>1. OwesActive /\ OwesActive'
  BY OwedLater, OwedStill DEF Settled, State, Inv, Setting
<1> QED
  BY <1>1, OwedKept DEF OwesActive

-----------------------------------------------------------------------------
(* OnStart from AddDataApex on, and BootCompletedCleanup.                   *)
LEMMA BootSimulates ==
  ASSUME Setting, Inv, Inv', BootStep
  PROVE  Atomic!Next
<1> USE DEF At, Goto, Visit, disk, vold, memory, locals, environment, history
<1>1. /\ TypeOK /\ TypeOK' /\ Main \in Procs /\ OnlyActs(Main) /\ MainKnows /\ RunsInv /\ PhaseInv
  BY BaseParts, OneActs DEF Inv, PhaseInv, PhaseParts, Procs
<1>2. CASE \/ CollectDataApexes \/ ResumeRevertIfNeeded \/ ActivatePackages \/ ActivateMissing \/ UpdatableCrashing
           \/ SeeBootCompleted \/ ListDataApexes \/ ListFinalizedSessions \/ JoinThreadPool
  <2>1. UNCHANGED <<active, sessionState, write, original, confirming, faults, unrecorded>>
    BY <1>2 DEF CollectDataApexes, ResumeRevertIfNeeded, CallRevert, ActivatePackages,
       ActivateMissing,
       UpdatableCrashing, SeeBootCompleted, ListDataApexes, ListFinalizedSessions, JoinThreadPool
  <2>2. {pc[Main], pc'[Main]} \cap (Reverting \cup {"unstage"}) = {}
    BY <1>1, <1>2 DEF CollectDataApexes, ResumeRevertIfNeeded, CallRevert, ActivatePackages,
       ActivateMissing,
       UpdatableCrashing, SeeBootCompleted, ListDataApexes, ListFinalizedSessions, JoinThreadPool,
       TypeOK,
       Reverting, RevertLabels
  <2>3. Counts
    BY <1>1, <2>1 DEF Counts, TypeOK
  <2>4. \A s \in SessionIds : Astray(s)' <=> Astray(s)
    BY <1>1, <2>1, <2>2, QuietStates, QuietStrays DEF SameRecord, SameStates
  <2> QED
    BY <2>1, <2>2, <2>3, <2>4, QuietStates, Still
<1>3. CASE RemoveInactiveDataApex \/ DeleteFinalizedSession
  <2>1. /\ pc[Main] \in {"cleanupFiles", "cleanupSessions"} /\ pc' = pc /\ write[Main] = NoWrite
        /\ UNCHANGED <<original, confirming, faults, write, unrecorded>>
    BY <1>3 DEF RemoveInactiveDataApex, DeleteFinalizedSession
  <2>2. NoneUndone
    BY <1>1, <2>1, NothingUndone DEF Staging, Restoring, NoneUndone
  <2>3. NoneUndone'
    BY <1>1, <1>3, <2>1, <2>2 DEF RemoveInactiveDataApex, DeleteFinalizedSession, NoneUndone,
       CommitFailed,
       Undoing, SessionsInState, TypeOK
  <2>4. OwesActive /\ OwesActive' /\ (active' = active => Kept)
    BY <2>1, <2>2, <2>3, SettledSteps DEF Staging
  <2>5. Counts
    BY <1>1, <2>1 DEF Counts, TypeOK
  <2>6. \A s \in SessionIds : ~Unstaging(s) /\ ~Unstaging(s)'
    BY <2>1 DEF Unstaging
  <2>9. \A s : SameState(s) => (Astray(s)' <=> Astray(s))
    BY <1>1, <2>1, QuietStrays DEF SameRecord, Reverting, RevertLabels
  <2>7. CASE RemoveInactiveDataApex
    <3>1. PICK f \in files[Main] : active' = IF f \in mounted THEN active ELSE active \ {f}
      BY <2>7 DEF RemoveInactiveDataApex
    <3>2. f \in Apexes /\ active \in SUBSET Apexes /\ pc[Main] = "cleanupFiles" /\ UNCHANGED sessionState
      BY <1>1, <2>7 DEF RemoveInactiveDataApex, TypeOK
    <3>3. SameStates(SessionIds)
      BY <2>1, <3>2, QuietStates
    <3>4. \A s \in SessionIds : PhaseOf(s)' = PhaseOf(s)
      <4> SUFFICES ASSUME NEW s \in SessionIds PROVE PhaseOf(s)' = PhaseOf(s)
        OBVIOUS
      <4>1. SameState(s) /\ (Astray(s)' <=> Astray(s))
        BY <2>9, <3>3 DEF SameStates
      <4>2. CASE Astray(s)
        BY <4>1, <4>2 DEF PhaseOf
      <4>3. CASE ~Astray(s)
        BY <2>1, <2>4, <2>6, <4>1, <4>3, SamePhase DEF OwesActive
      <4> QED
        BY <4>2, <4>3
    <3>5. CASE active' = active
      BY <2>1, <2>4, <2>5, <3>4, <3>5, Dropped
    <3>6. CASE active' = active \ {f} /\ f \notin mounted
      <4>1. OnDevice = Runs(active) /\ OnDevice' = Runs(active \ {f})
        BY <2>4, <3>6, DeviceAfter DEF OwesActive, OnDevice
      <4>2. /\ OnDevice \ OnDevice' \subseteq {f}
            /\ \A g \in OnDevice' \ OnDevice : f \in OnDevice /\ g.pkg = f.pkg /\ f.ver > g.ver
        BY <3>2, <4>1, RunsWithout
      <4>3. f \notin OnDevice'
        BY <4>1 DEF Runs, Highest
      <4>4. Atomic!OnlyLess
        BY <4>2, <4>3 DEF Atomic!OnlyLess, OnDevice
      <4>5. AccountedFor \/ Excused
        BY <1>1, <3>2 DEF RunsInv, AfterFailure
      <4>6. ASSUME AccountedFor
            PROVE  {g.pkg : g \in OnDevice \ OnDevice'} \subseteq PackagesOf(Flaky)
        <5>1. \A g \in OnDevice \ OnDevice' : g.pkg \in PackagesOf(Flaky)
          BY <3>6, <4>1, <4>2, <4>6 DEF AccountedFor
        <5> QED
          BY <5>1
      <4>7. ASSUME Excused
            PROVE  \E s \in SessionIds : \/ PhaseOf(s) \in {"reverted", "failed", "astray"}
                                         \/ (PhaseOf(s) = "lost" /\ faults > 0)
        <5>1. PICK s \in SessionIds : ExcusedBy(s)
          BY <4>7 DEF Excused
        <5>2. StateOf(s) = sessionState[s]
          BY <1>1, <2>1, StateOfIs DEF OnlyActs, OthersWriteNothing
        <5>3. sessionState[s] = "REVERT_IN_PROGRESS" => Astray(s)
          BY <2>2, <5>2 DEF NoneUndone, CommitFailed, Undoing, SessionsInState, Astray
        <5>4. PhaseOf(s) \in {"reverted", "failed", "astray"} \/ (PhaseOf(s) = "lost" /\ faults > 0)
          BY <2>6, <5>1, <5>2, <5>3 DEF ExcusedBy, Spoiled, PhaseOf, RecordedPhase
        <5> QED
          BY <5>4
      <4>8. Atomic!Drifts
        BY <4>4, <4>5, <4>6, <4>7 DEF Atomic!Drifts, OnDevice
      <4> QED
        BY <2>1, <2>5, <3>4, <4>8, Dropped
    <3> QED
      BY <3>1, <3>5, <3>6
  <2>8. CASE DeleteFinalizedSession
    <3>1. PICK s \in todo[Main] : sessionState' = [sessionState EXCEPT ![s] = "none"]
      BY <2>8 DEF DeleteFinalizedSession
    <3>2. s \in SessionIds /\ sessionState[s] \in FinalStates /\ active' = active /\ sessionState'[s] = "none"
      BY <1>1, <2>8, <3>1 DEF DeleteFinalizedSession, TypeOK, MainKnows, SessionsInState
    <3>3. \A u \in SessionIds \ {s} : sessionState'[u] = sessionState[u]
      BY <1>1, <3>1 DEF TypeOK
    <3>4. StateOf(s) = sessionState[s] /\ StateOf(s)' = "none" /\ SameStates(SessionIds \ {s})
      BY <1>1, <2>1, <3>2, <3>3, OneChanged
    <3>7. \A u \in SessionIds \ {s} : Astray(u)' <=> Astray(u)
      BY <2>9, <3>4 DEF SameStates
    <3>5. OthersKeep(s)
      BY <2>1, <3>2, <3>4, <3>7, OthersPhase
    <3>0. SUFFICES ASSUME ~Astray(s), ~Astray(s)' PROVE Atomic!Next
      BY <1>1, <2>1, <2>5, <3>2, <3>4, <3>5, Strayed DEF Inv, FinalStates
    <3>6. PhaseOf(s) \in {"kept", "reverted", "failed"} /\ PhaseOf(s)' = "none"
      BY <2>6, <3>0, <3>2, <3>4 DEF PhaseOf, RecordedPhase, FinalStates
    <3> QED
      BY <2>1, <2>4, <2>5, <3>2, <3>5, <3>6, Forgotten DEF Becomes
  <2> QED
    BY <1>3, <2>7, <2>8
<1> QED
  BY <1>2, <1>3 DEF BootStep

(* The calls of clients.                                                   *)
LEMMA ThreadSimulates ==
  ASSUME Setting, Inv, Inv', NEW t \in Threads, Request(t) \/ BackupStep(t) \/ SessionStep(t)
  PROVE  Atomic!Next
<1> USE DEF At, Goto, disk, vold, memory, locals, environment, history
<1>1. /\ TypeOK /\ TypeOK' /\ TypeInv /\ Main \in Procs /\ t \in Procs /\ t # Main /\ OnlyActs(t)
      /\ Held(t) /\ Concerned(t) /\ BackupHeld(t) /\ NeverReopened /\ PhaseInv
  BY BaseParts, OneActs, MainAssumption DEF Inv, PhaseInv, Procs
<1>2. pc[Main] \in Waiting \ {"off"} /\ pc'[Main] = pc[Main]
  <2>1. pc[Main] # "off"
    BY <1>1 DEF OnlyActs, Acts, Setting, Inv, Base, TurnInv, OffTogether
  <2> QED
    BY <1>1, <2>1 DEF OnlyActs
<1>3. NoneUndone
  <2>1. pc[t] \in {"idle"} \cup CallLabels
    BY DEF Request, SubmitStagedSession, MarkStagedSessionReady, MarkStagedSessionSuccessful,
       AbortStagedSession, ReadSession, RevertActiveSessions, UnstagePackages, MarkBootCompleted,
       Serve,
       BackupStep, DeleteBackup, DeleteBackupFails, BackupDeleted, LinkBackup, LinkBackupFails,
       BackedUp,
       SessionStep, CreateVerifiedSession, VerifyFails, CommitReady, CommitSuccess, DeleteSession,
       CallLabels
  <2> QED
    BY <1>1, <1>2, <2>1, NothingUndone DEF Waiting, Staging, CallLabels, Restoring, NoneUndone
<1>4. /\ active' = active /\ unrecorded' = unrecorded /\ Counts
      /\ {pc[t], pc'[t]} \cap Reverting = {}
      /\ \A s \in SessionIds : sessionState'[s] \in {sessionState[s], "none", "UNKNOWN"}
  <2>1. CASE Request(t) \/ BackupStep(t)
    BY <1>1, <2>1 DEF Request, SubmitStagedSession, MarkStagedSessionReady,
       MarkStagedSessionSuccessful,
       AbortStagedSession, ReadSession, RevertActiveSessions, UnstagePackages, MarkBootCompleted,
       Serve,
       BackupStep, DeleteBackup, DeleteBackupFails, BackupDeleted, LinkBackup, LinkBackupFails,
       BackedUp,
       CallRevert, Setting, InstallerKeepsTo, Counts, TypeOK, Fault, Reverting, RevertLabels
  <2>2. CASE SessionStep(t)
    BY <1>1, <2>2 DEF SessionStep, CreateVerifiedSession, VerifyFails, CommitReady, CommitSuccess,
       DeleteSession,
       UpdateStateAndCommit, Counts, TypeOK, Reverting, RevertLabels
  <2> QED
    BY <2>1, <2>2
<1>5. NoneUndone'
  BY <1>3, <1>4 DEF NoneUndone, CommitFailed, Undoing, SessionsInState, Counts
<1>12. \A s : SameState(s) => (Astray(s)' <=> Astray(s))
  BY <1>1, <1>4, QuietStrays DEF SameRecord
<1>6. OwesActive /\ OwesActive' /\ Kept
  BY <1>2, <1>3, <1>4, <1>5, SettledSteps DEF Staging, Waiting
<1>7. pc[Main] # "unstage" /\ pc'[Main] # "unstage"
  BY <1>2 DEF Waiting
<1>8. ASSUME NEW s \in SessionIds, SubmitStagedSession(t, s)
      PROVE  Atomic!Next
  <2>1. /\ UNCHANGED <<sessionState, write, confirming>> /\ sessionState[s] = "none"
        /\ original' = [original EXCEPT ![s] = active]
    BY <1>1, <1>8 DEF SubmitStagedSession, MaySubmit, Serve, NeverReopened
  <2>2. \A u \in SessionIds : sessionState[u] = "none" \/ original'[u] = original[u]
    BY <1>1, <2>1 DEF TypeOK
  <2> QED
    BY <1>4, <1>7, <1>12, <2>1, <2>2, QuietStates, Still DEF SameStates
<1>9. CASE \/ \E s \in SessionIds : MarkStagedSessionReady(t, s) \/ AbortStagedSession(t, s)
           \/ RevertActiveSessions(t) \/ UnstagePackages(t) \/ MarkBootCompleted(t) \/ BackupStep(t) \/ VerifyFails(t)
  <2>1. UNCHANGED <<sessionState, write, confirming, original>>
    BY <1>9 DEF MarkStagedSessionReady, AbortStagedSession, ReadSession, RevertActiveSessions,
       CallRevert,
       UnstagePackages, MarkBootCompleted, Serve, BackupStep, DeleteBackup, DeleteBackupFails,
       BackupDeleted,
       LinkBackup, LinkBackupFails, BackedUp, VerifyFails
  <2> QED
    BY <1>4, <1>7, <1>12, <2>1, QuietStates, Still DEF SameStates
<1>10. ASSUME NEW s \in SessionIds, MarkStagedSessionSuccessful(t, s)
       PROVE  Atomic!Next
  <2>1. /\ UNCHANGED <<sessionState, write, original>> /\ sessionState[s] = "ACTIVATED"
        /\ confirming' = confirming \cup {s}
    BY <1>10 DEF MarkStagedSessionSuccessful, ReadSession
  <2>2. SameStates(SessionIds) /\ StateOf(s) = "ACTIVATED"
    BY <2>1, QuietStates DEF StateOf
  <2>3. OthersKeep(s)
    BY <1>4, <1>7, <1>12, <2>1, <2>2, OthersPhase DEF SameStates
  <2>0. SUFFICES ASSUME ~Astray(s), ~Astray(s)' PROVE Atomic!Next
    BY <1>1, <1>4, <2>1, <2>2, <2>3, Strayed DEF Inv
  <2>4. PhaseOf(s) \in {"taken", "closing"} /\ PhaseOf(s)' = "closing"
    BY <1>7, <2>0, <2>1, <2>2 DEF PhaseOf, RecordedPhase, Unstaging, SameStates, SameState
  <2>5. CASE PhaseOf(s) = "closing"
    <3>1. \A u \in SessionIds : PhaseOf(u)' = PhaseOf(u)
      BY <2>3, <2>4, <2>5 DEF OthersKeep
    <3> QED
      BY <1>4, <1>6, <2>1, <3>1, Dropped
  <2>6. CASE PhaseOf(s) = "taken"
    BY <1>4, <1>6, <2>1, <2>3, <2>4, <2>6, Outcomes DEF Becomes
  <2> QED
    BY <2>4, <2>5, <2>6
<1>11. CASE CreateVerifiedSession(t) \/ CommitReady(t) \/ CommitSuccess(t) \/ DeleteSession(t)
  <2>1. PICK s \in SessionIds : s = session[t]
    BY <1>1, <1>11 DEF CreateVerifiedSession, CommitReady, CommitSuccess, DeleteSession, TypeInv,
       SessionKnown,
       WithSession, CallLabels
  <2>2. /\ UNCHANGED <<original, confirming>> /\ write[t] = NoWrite
        /\ write'[t] = NoWrite \/ write'[t].id = s
        /\ \A u \in SessionIds \ {s} : sessionState'[u] = sessionState[u]
    BY <1>1, <1>11, <2>1 DEF CreateVerifiedSession, CommitReady, CommitSuccess, DeleteSession,
       UpdateStateAndCommit,
       TypeOK
  <2>3. /\ StateOf(s) = sessionState[s] /\ SameStates(SessionIds \ {s})
        /\ StateOf(s)' = IF sessionState'[s] = "UNKNOWN" /\ write'[t] # NoWrite
                           THEN write'[t].state ELSE sessionState'[s]
    BY <1>1, <2>2, OneChanged
  <2>4. OthersKeep(s)
    BY <1>4, <1>7, <1>12, <2>2, <2>3, OthersPhase DEF SameStates
  <2>10. CreateVerifiedSession(t) => sessionState[s] = "none" /\ s \notin unrecorded
    BY <1>1, <2>1 DEF CreateVerifiedSession, Held, SessionHeld, Concerned, Submitting
  <2>0. SUFFICES ASSUME ~Astray(s), ~Astray(s)' PROVE Atomic!Next
    <3>1. CASE CreateVerifiedSession(t)
      BY <1>4, <2>10, <3>1 DEF Astray
    <3>2. CASE ~CreateVerifiedSession(t)
      <4>1. sessionState[s] # "none"
        BY <1>1, <1>11, <2>1, <3>2 DEF CommitReady, CommitSuccess, DeleteSession, Held, SessionHeld
      <4> QED
        BY <1>1, <1>4, <2>2, <2>3, <2>4, <4>1, Strayed DEF Inv
    <3> QED
      BY <3>1, <3>2
  <2>5. ~Unstaging(s) /\ ~Unstaging(s)' /\ ~Linked(s) /\ ~Linked(s)'
    BY <1>6, <1>7, <2>0 DEF Unstaging, OwesActive
  <2>6. CASE CreateVerifiedSession(t)
    <3>1. /\ sessionState[s] = "none" /\ sessionState'[s] = "UNKNOWN" /\ active = original[s]
          /\ write'[t] = [id |-> s, state |-> "VERIFIED"] /\ write'[t] # NoWrite
      BY <1>1, <2>1, <2>6 DEF CreateVerifiedSession, Held, SessionHeld, Concerned, Submitting,
         TypeOK, NoWrite
    <3>2. PhaseOf(s) = "none" /\ PhaseOf(s)' = "pending"
      BY <2>0, <2>3, <2>5, <3>1 DEF PhaseOf, RecordedPhase
    <3>3. Runs(original[s]) = OnDevice
      BY <1>6, <3>1 DEF OwesActive, OnDevice
    <3> QED
      BY <1>4, <1>6, <2>2, <2>4, <3>2, <3>3, Submitted DEF Becomes
  <2>7. CASE CommitReady(t)
    <3>1. /\ sessionState[s] = "VERIFIED" /\ sessionState'[s] = "UNKNOWN"
          /\ write'[t] = [id |-> s, state |-> "STAGED"] /\ write'[t] # NoWrite
      BY <1>1, <2>1, <2>7 DEF CommitReady, UpdateStateAndCommit, Held, SessionHeld, TypeOK, NoWrite
    <3>2. PhaseOf(s) = "pending" /\ PhaseOf(s)' = "pending"
      BY <2>0, <2>3, <2>5, <3>1 DEF PhaseOf, RecordedPhase
    <3>3. \A u \in SessionIds : PhaseOf(u)' = PhaseOf(u)
      BY <2>4, <3>2 DEF OthersKeep
    <3> QED
      BY <1>4, <1>6, <2>2, <3>3, Dropped
  <2>8. CASE CommitSuccess(t)
    <3>1. /\ sessionState[s] = "ACTIVATED" /\ sessionState'[s] = "UNKNOWN" /\ s \in confirming
          /\ write'[t] = [id |-> s, state |-> "SUCCESS"] /\ write'[t] # NoWrite
      BY <1>1, <2>1, <2>8 DEF CommitSuccess, UpdateStateAndCommit, Held, SessionHeld, BackupHeld,
         TypeOK, NoWrite
    <3>2. PhaseOf(s) = "closing" /\ PhaseOf(s)' = "kept"
      BY <2>0, <2>3, <2>5, <3>1 DEF PhaseOf, RecordedPhase
    <3> QED
      BY <1>4, <1>6, <2>2, <2>4, <3>2, Outcomes DEF Becomes
  <2>9. CASE DeleteSession(t)
    <3>1. sessionState[s] \in {"VERIFIED", "STAGED"} /\ sessionState'[s] = "none"
      BY <1>1, <2>1, <2>9 DEF DeleteSession, Held, SessionHeld, TypeOK
    <3>2. PhaseOf(s) = "pending" /\ PhaseOf(s)' = "none"
      BY <2>0, <2>3, <2>5, <3>1 DEF PhaseOf, RecordedPhase
    <3> QED
      BY <1>4, <1>6, <2>2, <2>4, <3>2, Forgotten DEF Becomes
  <2> QED
    BY <1>11, <2>6, <2>7, <2>8, <2>9
<1> QED
  BY <1>8, <1>9, <1>10, <1>11 DEF Request, SessionStep

-----------------------------------------------------------------------------
(* ScanStagedSessionsDirAndStage.  The last of the links that are new takes  *)
(* the session; what they supersede is owed no more from then on.           *)
LEMMA StagingSimulates ==
  ASSUME Setting, Inv, Inv', StagingStep
  PROVE  Atomic!Next
<1> USE DEF At, Goto, Visit, disk, vold, memory, locals, environment, history
<1>1. /\ TypeOK /\ TypeOK' /\ TypeInv /\ Main \in Procs /\ OnlyActs(Main) /\ OneActive /\ LinkedSoFar
      /\ NothingNew /\ ConfirmedOnce /\ MainKnows /\ State /\ State'
  BY BaseParts, OneActs DEF Inv, State, PhaseInv, PhaseParts, Procs, InstalledParts
<1>2. OwedParts /\ OwedParts'
  BY <1>1, OwedIs, OwedAfter
<1>6. UNCHANGED unrecorded /\ {pc[Main], pc'[Main]} \cap Reverting = {}
  BY <1>1 DEF StagingStep, AskNeedsRollback, ScanStagedSessionsDir, RejectSession, AcceptSession,
     LinkStaged,
     LinkFails, UnlinkStaged, UnlinkStagedFails, AllLinked, UnlinkSuperseded, SupersedeFails,
     SessionStaged,
     SessionFails, FinishSession, AllStaged, TypeOK, Setting, Reverting, RevertLabels
<1>7. \A s : SameState(s) => (Astray(s)' <=> Astray(s))
  BY <1>1, <1>6, QuietStrays DEF SameRecord
<1>3. CASE AskNeedsRollback \/ ScanStagedSessionsDir \/ AcceptSession \/ AllLinked \/ AllStaged
  <2>1. UNCHANGED <<active, sessionState, write, original, confirming, faults>>
    BY <1>3 DEF AskNeedsRollback, ScanStagedSessionsDir, AcceptSession, AllLinked, AllStaged,
       Setting
  <2>2. pc[Main] # "unstage" /\ pc'[Main] # "unstage"
    BY <1>1, <1>3 DEF AskNeedsRollback, ScanStagedSessionsDir, AcceptSession, AllLinked,
       AllStaged, Setting, TypeOK
  <2>3. Counts
    BY <1>1, <2>1 DEF Counts, TypeOK
  <2> QED
    BY <1>7, <2>1, <2>2, <2>3, QuietStates, Still DEF SameStates
<1>4. CASE RejectSession
  <2>1. PICK s \in todo[Main] : session' = [session EXCEPT ![Main] = s]
    BY <1>4 DEF RejectSession
  <2>2. /\ s \in SessionIds /\ sessionState[s] = "STAGED" /\ pc[Main] = "next"
        /\ pc'[Main] = "unstage" /\ session'[Main] = s
        /\ UNCHANGED <<active, sessionState, write, original, confirming>> /\ faults' = faults + 1
    BY <1>1, <1>4, <2>1 DEF RejectSession, LinkedSoFar, Setting, SessionsInState, MayInstall,
       Fault, TypeOK
  <2>3. SameStates(SessionIds) /\ StateOf(s) = "STAGED"
    BY <2>2, QuietStates DEF StateOf
  <2>5. OthersKeep(s)
    BY <1>7, <2>2, <2>3, OthersPhase DEF SameStates
  <2>6. Counts /\ faults' > 0
    BY <1>1, <2>2 DEF Counts, TypeOK
  <2>0. SUFFICES ASSUME ~Astray(s), ~Astray(s)' PROVE Atomic!Next
    BY <2>2, <2>3, <2>5, <2>6, Strayed DEF Inv
  <2>4. PhaseOf(s) \in {"pending", "taken"} /\ PhaseOf(s)' = "failed"
    BY <2>0, <2>2, <2>3 DEF PhaseOf, RecordedPhase, Unstaging
  <2> QED
    BY <2>2, <2>4, <2>5, <2>6, Outcomes DEF Becomes
<1>5. CASE \/ LinkStaged \/ LinkFails \/ UnlinkStaged \/ UnlinkStagedFails \/ UnlinkSuperseded
           \/ SupersedeFails \/ SessionStaged \/ SessionFails
  <2>1. /\ pc[Main] \in {"stage", "unstage", "removeOld"} /\ write[Main] = NoWrite
        /\ pc'[Main] = "unstage" => session' = session
    BY <1>1, <1>5 DEF LinkStaged, LinkFails, UnlinkStaged, UnlinkStagedFails, UnlinkSuperseded,
       SupersedeFails, SessionStaged, SessionFails, FinishSession, TypeOK
  <2>2. PICK s \in SessionIds : s = session[Main]
    BY <1>1, <2>1 DEF TypeInv, SessionKnown, WithSession
  <2>3. sessionState[s] = "STAGED" /\ s \notin confirming
    BY <1>1, <2>1, <2>2 DEF LinkedSoFar, Setting, ConfirmedOnce, ReadyStates
  <2>4. \A u \in SessionIds \ {s} : sessionState[u] \notin ActiveStates
    BY <1>1, <2>3, ActiveSessionsAre DEF OneActive, ActiveStates, OpenStates
  <2>5. /\ UNCHANGED <<original, confirming>> /\ Counts
    BY <1>1, <1>5 DEF LinkStaged, LinkFails, UnlinkStaged, UnlinkStagedFails, UnlinkSuperseded,
       SupersedeFails, SessionStaged, SessionFails, FinishSession, Fault, Counts, TypeOK
  <2>6. StateOf(s) = "STAGED"
    BY <2>3 DEF StateOf
  <2>14. SameStates(SessionIds \ {s})
    <3>1. /\ write'[Main] = NoWrite \/ write'[Main].id = s
          /\ \A u \in SessionIds \ {s} : sessionState'[u] = sessionState[u]
      BY <1>1, <1>5, <2>1, <2>2 DEF LinkStaged, LinkFails, UnlinkStaged, UnlinkStagedFails,
         UnlinkSuperseded,
         SupersedeFails, SessionStaged, SessionFails, FinishSession, UpdateStateAndCommit, TypeOK
    <3> QED
      BY <1>1, <2>1, <3>1, OneChanged
  <2>7. OthersKeep(s)
    BY <1>7, <2>1, <2>2, <2>4, <2>5, <2>14, OthersPhase DEF SameStates, ActiveStates, OpenStates
  <2>0. SUFFICES ASSUME ~Astray(s), ~Astray(s)' PROVE Atomic!Next
    BY <2>5, <2>6, <2>7, Strayed DEF Inv
  <2>15. s \notin unrecorded
    BY <2>0, <2>6 DEF Astray
  <2>8. /\ Staged[s] \in SUBSET Apexes /\ active \in SUBSET Apexes /\ original[s] \in SUBSET Apexes
        /\ \A f, g \in Staged[s] : f.pkg = g.pkg => f = g
        /\ \A f \in Staged[s] : f.ver >= PreVersion[f.pkg]
    BY <1>1, StagedAssumption DEF TypeOK, Setting, InstallerKeepsTo
  <2>9. CASE LinkStaged
    <3>1. PICK f \in files[Main] : active' = active \cup {f}
      BY <2>9 DEF LinkStaged
    <3>2. /\ f \in Staged[s] /\ pc[Main] = "stage" /\ pc'[Main] = "stage"
          /\ UNCHANGED <<sessionState, write>>
      BY <1>1, <2>2, <2>9 DEF LinkStaged, MainKnows
    <3>3. SameStates(SessionIds) /\ OthersKeep(s)
      BY <2>7, <3>2, QuietStates DEF SameStates
    <3>4. ~Unstaging(s) /\ ~Unstaging(s)'
      BY <3>2 DEF Unstaging
    <3>5. /\ PhaseOf(s) = IF Linked(s) THEN "taken" ELSE "pending"
          /\ PhaseOf(s)' = IF Linked(s)' THEN "taken" ELSE "pending"
      BY <2>0, <2>6, <3>3, <3>4 DEF PhaseOf, RecordedPhase, SameStates, SameState
    <3>6. CASE active' = active
      BY <1>7, <2>5, <3>2, <3>3, <3>6, Still DEF SameStates
    <3>7. CASE active' # active
      <4>1. ~Linked(s) /\ Owed = active \ (Staged[s] \ original[s])
        <5>1. ~Linked(s)
          BY <3>1, <3>2, <3>7 DEF Linked
        <5> QED
          BY <1>2, <2>0, <2>3, <3>4, <5>1 DEF OwedParts
      <4>2. CASE Linked(s)'
        <5>1. Owed' = active' \ Superseded(s)'
          BY <1>2, <2>0, <2>3, <3>2, <3>4, <4>2 DEF OwedParts
        <5>2. Staged[s] \subseteq active'
          BY <4>2 DEF Linked
        <5>3. \A h \in Staged[s] : h.pkg \in PackagesOf(Staged[s])
          BY DEF PackagesOf
        <5>4. Staged[s] \subseteq Owed' /\ \A h \in Owed' : h.pkg \in PackagesOf(Staged[s]) => h \in Staged[s]
          BY <5>1, <5>2 DEF Superseded
        <5>5. \A h \in Apexes : h.pkg \notin PackagesOf(Staged[s]) => (h \in Owed <=> h \in Owed')
          BY <3>1, <3>2, <4>1, <5>1, <5>3 DEF Superseded
        <5>6. Owed \in SUBSET Apexes /\ Owed' \in SUBSET Apexes
          BY <2>8, <3>1, <3>2, <4>1, <5>1
        <5>7. Runs(Owed') = {h \in Runs(Owed) : \A g \in Staged[s] : g.pkg # h.pkg} \cup Staged[s]
          BY <2>8, <5>4, <5>5, <5>6, RunsWith
        <5>8. OnDevice' = {h \in OnDevice : \A g \in Staged[s] : g.pkg # h.pkg} \cup Staged[s]
          BY <5>7, DeviceAfter DEF OnDevice
        <5> QED
          BY <2>5, <3>3, <3>5, <4>1, <4>2, <5>8, Outcomes DEF Becomes
      <4>3. CASE ~Linked(s)'
        <5>1. Owed' = active' \ (Staged[s] \ original[s])
          BY <1>2, <2>0, <2>3, <2>5, <3>2, <3>4, <4>3 DEF OwedParts
        <5>2. \A u \in SessionIds : PhaseOf(u)' = PhaseOf(u)
          BY <3>3, <3>5, <4>1, <4>3 DEF OthersKeep
        <5>3. CASE f \notin original[s]
          <6>1. Owed' = Owed
            BY <3>1, <3>2, <4>1, <5>1, <5>3
          <6> QED
            BY <2>5, <5>2, <6>1, OwedKept, Dropped
        <5>4. CASE f \in original[s]
          <6>1. Owed' = Owed \cup {f} /\ Owed \in SUBSET Apexes /\ f \in Apexes
            BY <2>8, <3>1, <3>2, <4>1, <5>1, <5>4
          <6>2. /\ OnDevice' \ OnDevice \subseteq {f}
                /\ \A g \in OnDevice \ OnDevice' : g.pkg = f.pkg
            BY <6>1, DeviceAfter, RunsAdding DEF OnDevice
          <6>3. PhaseOf(s) = "pending" /\ f.pkg \in {g.pkg : g \in Staged[s] \cap original[s]}
            BY <3>2, <3>5, <4>1, <5>4
          <6>4. Atomic!Settles(s)
            BY <5>4, <6>2, <6>3 DEF Atomic!Settles, Atomic!Shared, OnDevice
          <6>5. Atomic!Drifts
            BY <6>3, <6>4 DEF Atomic!Drifts
          <6> QED
            BY <2>5, <5>2, <6>5, Dropped
        <5> QED
          BY <5>3, <5>4
      <4> QED
        BY <4>2, <4>3
    <3> QED
      BY <3>6, <3>7
  <2>10. CASE LinkFails \/ SupersedeFails
    <3>1. /\ pc[Main] # "unstage" /\ pc'[Main] = "unstage" /\ session' = session /\ faults' = faults + 1
          /\ UNCHANGED <<sessionState, write>>
      BY <1>1, <2>10 DEF LinkFails, SupersedeFails, Fault, TypeOK
    <3>2. SameStates(SessionIds)
      BY <3>1, QuietStates
    <3>3. PhaseOf(s) \in {"pending", "taken"} /\ PhaseOf(s)' = "failed"
      BY <2>0, <2>2, <2>6, <3>1 DEF PhaseOf, RecordedPhase, Unstaging
    <3>4. faults' > 0
      BY <1>1, <3>1 DEF TypeOK
    <3> QED
      BY <2>5, <2>7, <3>3, <3>4, Outcomes DEF Becomes
  <2>11. CASE UnlinkStaged \/ UnlinkStagedFails
    <3>1. /\ pc[Main] = "unstage" /\ pc' = pc /\ session' = session /\ UNCHANGED <<sessionState, write>>
      BY <2>11 DEF UnlinkStaged, UnlinkStagedFails
    <3>2. SameStates(SessionIds)
      BY <3>1, QuietStates
    <3>3. PhaseOf(s) = "failed" /\ PhaseOf(s)' = "failed"
      BY <2>0, <2>2, <3>1 DEF PhaseOf, RecordedPhase, Unstaging
    <3>4. Atomic!Drifts
      BY <3>3 DEF Atomic!Drifts
    <3>5. \A u \in SessionIds : PhaseOf(u)' = PhaseOf(u)
      BY <2>7, <3>3 DEF OthersKeep
    <3> QED
      BY <2>5, <3>4, <3>5, Dropped
  <2>12. CASE UnlinkSuperseded
    <3>1. PICK f \in Superseded(s) : active' = active \ {f}
      BY <2>2, <2>12 DEF UnlinkSuperseded
    <3>2. /\ pc[Main] = "removeOld" /\ pc' = pc /\ UNCHANGED <<sessionState, write>>
          /\ Staged[s] \subseteq active
      BY <1>1, <2>2, <2>12 DEF UnlinkSuperseded, LinkedSoFar
    <3>3. SameStates(SessionIds) /\ OthersKeep(s) /\ ~Unstaging(s) /\ ~Unstaging(s)'
      BY <2>7, <3>2, QuietStates DEF SameStates, Unstaging
    <3>4. f \in Apexes /\ f \in active /\ f \notin Staged[s] /\ f.pkg \in PackagesOf(Staged[s])
      BY <2>8 DEF Superseded
    <3>5. Linked(s)' <=> Linked(s)
      BY <2>3, <2>5, <3>1, <3>2, <3>4 DEF Linked
    <3>6. \A u \in SessionIds : PhaseOf(u)' = PhaseOf(u)
      BY <1>7, <2>5, <3>3, <3>5, SamePhase DEF OthersKeep, SameStates
    <3>7. CASE Linked(s)
      <4>1. Owed = active \ Superseded(s) /\ Owed' = active' \ Superseded(s)'
        BY <1>2, <2>0, <2>3, <3>2, <3>3, <3>5, <3>7 DEF OwedParts
      <4>2. Owed' = Owed
        BY <3>1, <4>1 DEF Superseded
      <4> QED
        BY <2>5, <3>6, <4>2, OwedKept, Dropped
    <3>8. CASE ~Linked(s)
      <4>1. Staged[s] \subseteq original[s]
        BY <2>3, <3>2, <3>8 DEF Linked
      <4>2. Owed = active \ (Staged[s] \ original[s]) /\ Owed' = active' \ (Staged[s] \ original'[s])
        BY <1>2, <2>0, <2>3, <3>2, <3>3, <3>5, <3>8 DEF OwedParts
      <4>3. Owed = active /\ Owed' = active \ {f}
        BY <2>5, <3>1, <4>1, <4>2
      <4>4. /\ OnDevice \ OnDevice' \subseteq {f}
            /\ \A g \in OnDevice' \ OnDevice : g \in active /\ g.pkg = f.pkg
        BY <2>8, <3>4, <4>3, DeviceAfter, RunsWithout DEF OnDevice
      <4>5. active \subseteq original[s]
        BY <1>1, <2>3, <2>15, <4>1 DEF NothingNew, SessionsInState
      <4>6. f.pkg \in {g.pkg : g \in Staged[s] \cap original[s]}
        BY <3>4, <4>1 DEF PackagesOf
      <4>7. PhaseOf(s) = "pending"
        BY <2>0, <2>6, <3>3, <3>8 DEF PhaseOf, RecordedPhase
      <4>8. Atomic!Settles(s)
        BY <4>4, <4>5, <4>6, <4>7 DEF Atomic!Settles, Atomic!Shared, OnDevice
      <4>9. Atomic!Drifts
        BY <4>7, <4>8 DEF Atomic!Drifts
      <4> QED
        BY <2>5, <3>6, <4>9, Dropped
    <3> QED
      BY <3>7, <3>8
  <2>13. CASE SessionStaged \/ SessionFails
    <3>1. PICK st \in {"ACTIVATED", "ACTIVATION_FAILED"} :
            /\ UpdateStateAndCommit(Main, s, st) /\ pc'[Main] = "next" /\ active' = active
            /\ st = "ACTIVATED" => pc[Main] = "removeOld" /\ Superseded(s) = {}
            /\ st = "ACTIVATION_FAILED" => pc[Main] = "unstage"
      BY <1>1, <2>2, <2>13 DEF SessionStaged, SessionFails, FinishSession, TypeOK
    <3>2. sessionState'[s] = "UNKNOWN" /\ StateOf(s)' = st /\ SameStates(SessionIds \ {s})
      BY <1>1, <2>1, <2>3, <3>1, TruncatedState DEF States
    <3>4. Owed' = active'
      BY <1>2, <2>0, <2>4, <3>2 DEF OwedParts, SameStates, SameState, ActiveStates, OpenStates
    <3>5. PhaseOf(s)' = IF st = "ACTIVATED" THEN "taken" ELSE "failed"
      BY <2>0, <2>3, <2>5, <3>1, <3>2 DEF PhaseOf, RecordedPhase, Unstaging
    <3>6. CASE st = "ACTIVATION_FAILED"
      <4>1. PhaseOf(s) = "failed" /\ Owed = active
        BY <1>2, <2>0, <2>2, <2>3, <3>1, <3>6 DEF PhaseOf, RecordedPhase, Unstaging, OwedParts
      <4>2. \A u \in SessionIds : PhaseOf(u)' = PhaseOf(u)
        BY <2>7, <3>5, <3>6, <4>1 DEF OthersKeep
      <4> QED
        BY <2>5, <3>1, <3>4, <4>1, <4>2, OwedKept, Dropped
    <3>7. CASE st = "ACTIVATED"
      <4>1. ~Unstaging(s) /\ PhaseOf(s) = IF Linked(s) THEN "taken" ELSE "pending"
        BY <2>0, <2>6, <3>1, <3>7 DEF PhaseOf, RecordedPhase, Unstaging
      <4>3. CASE st = "ACTIVATED" /\ Linked(s)
        <5>1. Owed = active \ Superseded(s)
          BY <1>2, <2>0, <2>3, <4>1, <4>3 DEF OwedParts
        <5>2. Owed' = Owed
          BY <3>1, <3>4, <4>3, <5>1
        <5>3. \A u \in SessionIds : PhaseOf(u)' = PhaseOf(u)
          BY <2>7, <3>5, <4>1, <4>3 DEF OthersKeep
        <5> QED
          BY <2>5, <5>2, <5>3, OwedKept, Dropped
      <4>4. CASE st = "ACTIVATED" /\ ~Linked(s)
        <5>1. Staged[s] \subseteq active /\ Superseded(s) = {}
          BY <1>1, <2>2, <3>1, <4>4 DEF LinkedSoFar
        <5>2. Staged[s] \subseteq original[s]
          BY <2>3, <4>4, <5>1 DEF Linked
        <5>3. Owed = active \ (Staged[s] \ original[s])
          BY <1>2, <2>0, <2>3, <4>1, <4>4 DEF OwedParts
        <5>4. Owed = active /\ Owed' = active
          BY <3>1, <3>4, <5>2, <5>3
        <5>5. \A h \in active : h.pkg \in PackagesOf(Staged[s]) => h \in Staged[s]
          BY <5>1 DEF Superseded
        <5>6. Runs(active) = {h \in Runs(active) : \A g \in Staged[s] : g.pkg # h.pkg} \cup Staged[s]
          BY <2>8, <5>1, <5>5, RunsWith
        <5>7. OnDevice' = {h \in OnDevice : \A g \in Staged[s] : g.pkg # h.pkg} \cup Staged[s]
          BY <5>4, <5>6, DeviceAfter DEF OnDevice
        <5> QED
          BY <2>5, <2>7, <3>5, <4>1, <4>4, <5>7, Outcomes DEF Becomes
      <4> QED
        BY <3>7, <4>3, <4>4
    <3> QED
      BY <3>6, <3>7
  <2> QED
    BY <1>5, <2>9, <2>10, <2>11, <2>12, <2>13
<1> QED
  BY <1>3, <1>4, <1>5 DEF StagingStep

-----------------------------------------------------------------------------
LEMMA InitSimulates == Init => Atomic!Init
<1> SUFFICES ASSUME Init PROVE Atomic!Init
  OBVIOUS
<1>1. \A s \in SessionIds : sessionState[s] = "none" /\ ~Unstaging(s)
  BY DEF Init, Unstaging, Procs
<1>2. \A s \in SessionIds : PhaseOf(s) = "none"
  BY <1>1 DEF PhaseOf, RecordedPhase, Astray, StateOf
<1>3. Owed = active
  BY <1>1, <1>2 DEF Owed, InPhase, SessionsInState
<1> QED
  BY <1>2, <1>3 DEF Init, Atomic!Init

LEMMA InvNext == Setting /\ Inv /\ [Next]_vars => Inv'
BY BaseNext, PhaseNext, RunsNext, StrayNext DEF Inv

LEMMA NextSimulates == Setting /\ Inv /\ [Next]_vars => [Atomic!Next]_Atomic!atomicVars
<1> SUFFICES ASSUME Setting, Inv, [Next]_vars PROVE [Atomic!Next]_Atomic!atomicVars
  OBVIOUS
<1>1. Inv'
  BY InvNext
<1>2. CASE Next
  BY <1>1, <1>2, NextSteps, DeviceSimulates, StagingSimulates, BootSimulates, ThreadSimulates,
     RevertSimulates
<1>3. CASE UNCHANGED vars
  BY <1>3 DEF vars, disk, vold, memory, locals, environment, history, Atomic!atomicVars, Runs,
     Highest, Owed, InPhase,
     PhaseOf, RecordedPhase, Astray, BeingReverted, Unstaging, Linked, Truncated, StateOf,
     Writing, Writers, Superseded, SessionsInState
<1> QED
  BY <1>2, <1>3

(* Where calls take turns, sessions are submitted one at a time, the device  *)
(* has no checkpoints, and the installer stages one APEX of a package, none  *)
(* older than the built-in one, and unstages nothing: what apexd does to     *)
(* files implements what AtomicInstall promises.  An update of any number    *)
(* of packages is taken at one instant and taken back at one instant,        *)
(* wherever power is lost and however often it starts again.  Where system   *)
(* calls fail AtomicInstall promises less: Fail, Lose, and Stray, for a     *)
(* session whose state could not be recorded.                              *)
THEOREM StagedInstallIsAtomic ==
  ASSUME ~Overlap, OneSessionAtATime, ~SupportsFsCheckpoints, InstallerKeepsTo
  PROVE  Spec => ImplementsAtomicInstall
<1>1. Setting
  BY DEF Setting
<1>2. Init => Inv
  BY BaseInit, PhaseInit, RunsInit, StrayInit DEF Inv
<1>3. Inv /\ [Next]_vars => Inv'
  BY <1>1, InvNext
<1>4. Inv /\ [Next]_vars => [Atomic!Next]_Atomic!atomicVars
  BY <1>1, NextSimulates
<1> QED
  BY <1>2, <1>3, <1>4, InitSimulates, PTL DEF Spec, ImplementsAtomicInstall, Atomic!Spec
=============================================================================
