---------------------------- MODULE AtomicInstall ----------------------------
(***************************************************************************)
(* What the staged install promises the package installer, which submits   *)
(* one update at a time: an update of several packages is taken as a whole, *)
(* or not at all, and is taken back as a whole unless its confirmation has  *)
(* begun.  There are no files, no backup and no reboots here, only the      *)
(* APEXes on /data that the device runs, and one step for each outcome.     *)
(*                                                                         *)
(* The outcomes that promise less have their own names: Lose, Relapse, Fail,*)
(* Stray, and what Drifts lets happen to what the device runs.             *)
(***************************************************************************)
EXTENDS Naturals

CONSTANTS
  Updates,        \* the updates there will be
  Contents,       \* Contents[u]: the APEXes that update u brings
  Initial,        \* the APEXes on /data at first
  Unsound,        \* packages that may lose an APEX: one of theirs may fail to activate
  Runs(_)         \* what the device runs of a set of APEXes on /data

VARIABLES
  installed,      \* the APEXes on /data that the device runs
  undo,           \* undo[u]: the APEXes on /data when u was submitted
  phase,          \* phase[u]: how far u has come
  broken          \* a system call has failed

atomicVars == <<installed, undo, phase, broken>>

Phases == {"none", "pending", "taken", "closing", "undoing", "back",
           "kept", "reverted", "failed", "lost", "astray"}

(* The device with the APEXes of u in place of what it had.                 *)
With(u) == {f \in installed : \A g \in Contents[u] : g.pkg # f.pkg} \cup Contents[u]

(* An APEX goes away by itself, or gives way to an older one.               *)
OnlyLess ==
  \A f \in installed' \ installed :
    \E g \in installed \ installed' : g.pkg = f.pkg /\ g.ver > f.ver

(* An update may bring what /data already has.  Only for such packages may   *)
(* something else that was there when it was submitted take over early.     *)
Shared(u) == {f.pkg : f \in Contents[u] \cap undo[u]}
Settles(u) ==
  /\ installed' \ installed \subseteq undo[u]
  /\ \A f \in (installed \ installed') \cup (installed' \ installed) : f.pkg \in Shared(u)

(* Only packages of which an APEX may fail to activate lose any by           *)
(* themselves, except where no promise is left to keep: what a revert has    *)
(* put back, anything while one is cut short or after a failure.            *)
Drifts ==
  \/ OnlyLess /\ {f.pkg : f \in installed \ installed'} \subseteq Unsound
  \/ OnlyLess /\ \E u \in Updates :
       phase[u] = "reverted" \/ (phase[u] = "lost" /\ broken)
  \/ \E u \in Updates : phase[u] \in {"undoing", "failed", "astray"}
  \/ \E u \in Updates : phase[u] = "pending" /\ Settles(u)

Moves(u, from, to) == phase[u] \in from /\ phase' = [phase EXCEPT ![u] = to]

Submit(u) ==
  /\ Moves(u, {"none"}, "pending")
  /\ undo' = [undo EXCEPT ![u] = undo'[u]] /\ Runs(undo'[u]) = installed
  /\ UNCHANGED installed

Take(u) ==
  /\ Moves(u, {"pending"}, "taken")
  /\ installed' = With(u)
  /\ UNCHANGED undo

BeginToConfirm(u) ==
  /\ Moves(u, {"taken"}, "closing")
  /\ UNCHANGED <<installed, undo>>

BeginToUndo(u) ==
  /\ Moves(u, {"pending", "taken", "closing"}, "undoing")
  /\ UNCHANGED <<installed, undo>>

(* From here on the device owes what it ran before.                        *)
TakeBack(u) ==
  /\ Moves(u, {"undoing"}, "back")
  /\ installed' = Runs(undo[u])
  /\ UNCHANGED undo

(* The update's end is reported.                                           *)
Report(u) ==
  /\ Moves(u, {"closing"}, "kept") \/ Moves(u, {"back"}, "reverted")
  /\ UNCHANGED <<installed, undo>>

(* Its state is known to nobody any more.                                  *)
Lose(u) ==
  /\ Moves(u, {"pending", "taken", "undoing", "kept", "reverted", "failed"}, "lost")
  /\ UNCHANGED <<installed, undo>>

Forget(u) ==
  /\ Moves(u, {"pending", "kept", "reverted", "failed"}, "none")
  /\ undo' = [undo EXCEPT ![u] = {}]
  /\ UNCHANGED installed

(* What was taken back is reported as a failure, or is begun to be taken    *)
(* back again, which may find it undone halfway.                           *)
Relapse(u) ==
  /\ \/ Moves(u, {"back"}, "failed") /\ UNCHANGED installed
     \/ Moves(u, {"back"}, "undoing")
     \/ Moves(u, {"undoing"}, "failed") /\ UNCHANGED installed
  /\ UNCHANGED undo

(* A failed system call costs the promise: the update is reported failed, or *)
(* will be unless power is lost first and everything is done again.         *)
Fail(u) ==
  /\ broken'
  /\ \/ Moves(u, {"pending", "taken", "back"}, "failed")
     \/ Moves(u, {"failed"}, "pending")
     \/ Moves(u, {"failed"}, "taken")
  /\ UNCHANGED undo

(* How far the update has come could not be recorded.  Nothing is promised   *)
(* until it is: the update may be given up, or taken, kept or taken back.   *)
Stray(u) ==
  /\ broken'
  /\ \/ Moves(u, Phases \ {"none"}, "astray") /\ UNCHANGED undo
     \/ \E to \in Phases : Moves(u, {"astray"}, to)
        /\ undo' = IF to = "none" THEN [undo EXCEPT ![u] = {}] ELSE undo

Drop ==
  /\ UNCHANGED <<undo, phase>>
  /\ Drifts

Init ==
  /\ installed = Runs(Initial)
  /\ undo = [u \in Updates |-> {}]
  /\ phase = [u \in Updates |-> "none"]
  /\ broken = FALSE

Next ==
  /\ broken => broken'
  /\ \/ Drop
     \/ \E u \in Updates :
          \/ Submit(u) \/ Take(u) \/ BeginToConfirm(u) \/ BeginToUndo(u) \/ TakeBack(u)
          \/ Report(u) \/ Lose(u) \/ Forget(u) \/ Relapse(u) \/ Fail(u)
          \/ Stray(u)

Spec == Init /\ [][Next]_atomicVars
=============================================================================
