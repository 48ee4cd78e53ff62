----------------------- MODULE StagedInstallImplements -----------------------
(***************************************************************************)
(* StagedInstall implements AtomicInstall on devices without checkpoints,   *)
(* for a client that submits one session at a time: the steps on files,     *)
(* wherever power loss cuts them short and whatever fails to activate,      *)
(* amount to the outcomes of AtomicInstall.                                *)
(***************************************************************************)
EXTENDS StagedInstall

(* What the next boot activates of a set of files in /data/apex/active.     *)
Runs(S) == {f \in Highest(S) : f.ver >= PreVersion[f.pkg]}

(* The state that a process is about to write over a truncated state file;  *)
(* UNKNOWN when it has been lost.                                          *)
Writers(s) == {p \in Procs : write[p] # NoWrite /\ write[p].id = s}
Writing(s) == IF Writers(s) = {} THEN "UNKNOWN" ELSE write[CHOOSE p \in Writers(s) : TRUE].state

StateOf(s) == IF sessionState[s] = "UNKNOWN" THEN Writing(s) ELSE sessionState[s]
Truncated(s) == sessionState[s] = "UNKNOWN"

(* The last link decides: from then on the session will be ACTIVATED.  One   *)
(* that brings nothing that was not there has no link to tell it by.        *)
Linked(s) ==
  sessionState[s] = "STAGED" /\ Staged[s] \subseteq active /\ ~(Staged[s] \subseteq original[s])

(* Linking it has been given up.                                           *)
Unstaging(s) == session[Main] = s /\ pc[Main] = "unstage"

(* Its state is not the one it should have, or a revert goes on without one.*)
BeingReverted(s) == \E p \in Procs : pc[p] \in RevertLabels \ {"revert"} /\ s \in reverting[p]
Astray(s) ==
  /\ s \in unrecorded
  /\ StateOf(s) # "none"
  /\ StateOf(s) # "UNKNOWN" \/ BeingReverted(s)

(* How far a session on record has come.  The revert of a session whose     *)
(* confirmation has begun is never more than one cut short, or a failed one.*)
RecordedPhase(s) ==
  IF Unstaging(s) THEN "failed" ELSE
  CASE StateOf(s) = "none" -> "none"
    [] StateOf(s) \in {"VERIFIED", "STAGED"} ->
         IF Linked(s) THEN "taken" ELSE "pending"
    [] StateOf(s) = "ACTIVATED" -> IF s \in confirming THEN "closing" ELSE "taken"
    [] StateOf(s) = "REVERT_IN_PROGRESS" ->
         IF Truncated(s) \/ s \in confirming THEN "undoing" ELSE "back"
    [] StateOf(s) = "REVERTED" -> IF s \in confirming THEN "failed" ELSE "reverted"
    [] StateOf(s) = "SUCCESS" -> "kept"
    [] StateOf(s) \in {"ACTIVATION_FAILED", "REVERT_FAILED"} -> "failed"
    [] OTHER -> "lost"

PhaseOf(s) == IF Astray(s) THEN "astray" ELSE RecordedPhase(s)
InPhase(p) == {s \in SessionIds : PhaseOf(s) = p}

(* What /data owes the device: without the APEXes linked so far for a pending*)
(* session; without those that are still to be unlinked for a staged one;   *)
(* what a session found when it is being reverted.                         *)
Owed ==
  IF InPhase("back") # {}
    THEN UNION {original[s] : s \in InPhase("back")}
    ELSE active \ UNION ({Staged[s] \ original[s] : s \in InPhase("pending")} \cup
                         {Superseded(s) : s \in SessionsInState({"STAGED"}) \cap InPhase("taken")})

Atomic == INSTANCE AtomicInstall WITH
  Updates <- SessionIds,
  Contents <- Staged,
  Initial <- InitActive,
  Unsound <- PackagesOf(Flaky),
  broken <- faults > 0,
  installed <- Runs(Owed),
  undo <- [s \in SessionIds |-> IF PhaseOf(s) = "none" THEN {} ELSE original[s]],
  phase <- [s \in SessionIds |-> PhaseOf(s)]

(* An update of several packages is taken whole or not at all, wherever      *)
(* power is lost while ScanStagedSessionsDirAndStage links and unlinks, and  *)
(* is taken back whole, however often RevertActiveSessions starts again.     *)
ImplementsAtomicInstall == Atomic!Spec
=============================================================================
