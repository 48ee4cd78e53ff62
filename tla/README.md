# A TLA+ model of apexd

apexd is the Android daemon that installs, activates and reverts APEX packages
(`src/apexd`). This directory holds TLA+ modules that model it, TLC
configurations that check the models on small instances, and proofs checked by
TLAPS that hold for every instance.

    tlc -config StagedInstallCrash.cfg MCStagedInstall.tla    # a run
    tlc -config RebootlessOne.cfg MCRebootlessInstall.tla     # another
    tlapm StagedInstall_proofs.tla                            # the proofs of one module

| Module | What it models | Run with |
|---|---|---|
| `StagedInstall` | sessions, staged install, revert, boot, vold, calls | `MCStagedInstall`, five configurations |
| `AtomicInstall`, `StagedInstallImplements` | what a staged install promises, and the refinement mapping | the runs crash and faults |
| `MountedApexes`, `RebootlessInstall` | mounts and their database; `InstallPackage` | `MCRebootlessInstall`, three configurations |
| `DataSnapshots` | the data of APEXes, snapshots, rollbacks | `MCDataSnapshots`, two configurations |
| `CompressedApexes` | decompression and reserved space, A/B updates | `MCCompressedApexes`, one configuration |
| `ParallelActivation`, `Activation` | worker threads and loop devices; what they promise | `MCParallelActivation`, one configuration |
| `StagedInstall_proofs` | theorems about StagedInstall, for every value of the constants | `tlapm` |
| `StagedInstallImplements_proofs` | that StagedInstall implements AtomicInstall | `tlapm` |
| `RebootlessInstall_proofs`, `RebootlessSafety_proofs`, `RebootlessAlone_proofs` | about RebootlessInstall | `tlapm` |
| `DataSnapshots_proofs`, `CompressedApexes_proofs`, `ParallelActivation_proofs` | about the module each is named after | `tlapm` |

## 1. Inventory

| Component | State it keeps | Operations | Interacts with |
|---|---|---|---|
| Staged sessions (`apexd_session.*`) | one directory a session on /metadata, with a state file | create, commit a state, delete, list, list by state | every flow below; no lock guards it |
| Staged install and revert (`apexd.cpp`) | `/data/apex/active`, `/data/apex/backup` | submit, ready, stage at boot, confirm, abort, revert, unstage | sessions, repository, vold, the reboot |
| Boot and lifecycle (`apexd_main`, `apexd_lifecycle`, `OnStart`, `OnBootstrap`) | `boot_completed_`, status property | bootstrap, start, wait for a crash or the boot's completion, clean up | all |
| File system checkpoints (`apexd_checkpoint_vold`) | cached flags; attempts and journal are vold's | ask for support, mode, rollback; abort | OnStart, revert |
| IApexService (`apexservice`) | none: binder threads | the calls above, rebootless install, snapshots, decompression space | the package installer and other clients |
| Repository and selection (`apex_file_repository`, `SelectApexForActivation`) | built-in and data stores | add built-in, add data, select | disk, activation |
| Mounted APEX database, mounting (`apex_database`, `apexd_loop`, `apexd_verity`, `MountPackageImpl`) | mounts per package, latest version, loop and dm-verity devices | mount, temporary mount, activate, unmount | kernel |
| Rebootless install (`InstallPackage`) | the above and `/data/apex/active` | unmount, link, activate, undo | mounted APEXes, init |
| Data snapshots (`SnapshotOrRestoreDeIfNeeded` and after) | apexdata and apexrollback directories per user | snapshot, restore, pre-restore snapshot, destroy | sessions in state ACTIVATED, revert |
| Compressed APEX | `/data/apex/decompressed`, reserved space | decompress, validate, reserve for an OTA | selection, clean-up |
| Parallel activation (`ActivateApexPackages`) | queue, workers, results | activate; contribute to sharedlibs | mounted APEXes |
| Shim, keys, manifests, vendor check, class path | none | checks and parsing | verification |
| apexer, host tools, libraries | none | build and inspect files | none at run time |

What is hard:

- **Power loss.** apexd keeps its truth in several places (state files, two
  directories, vold's journal) and changes them one system call at a time.
- **Overlap.** Binder threads serve calls at once, and while the main thread
  waits for a crash, reverts or cleans up. `apexd_session` reads a state, acts on
  it and writes it without a lock.
- **Two ways of undoing.** Without checkpoints apexd restores a backup; with
  them vold undoes /data on the next boot, and apexd only rewrites states.
- **Boot loops.** A revert reboots the device: there must not be another for the
  same reason.
- **Partial failure.** Linking, activating, restoring and committing each fail on
  their own, with clean-up guards that are switched off at some point.

`PROJECT.json` lists the hazards at their lines, with the properties that would
catch each.

What makes each part correct, in short: a staged install is taken whole or taken
back whole, across any power loss; final states are final; every package has an
active APEX after every boot; the boot goes through. A rebootless install leaves
the old or the new APEX active. A rollback's data is the snapshot, or, reverted,
what it was. A database of mounts agrees with the kernel's. Selection is total
and prefers data over built-in except when older. Workers activate each APEX once.

## 2. Plan

In order of importance, with what is done and what is next.

1. **StagedInstall** (done): sessions, staged install, revert, boot, vold,
   binder threads. Theorems: type correctness and EveryPackageActive without a
   restriction; RevertedIsNotStagedAgain and FinalStatesAreFinal without overlap;
   BackupProtectsSession, RestoreIsOriginal and ActivatedSessionsAreInstalled for one
   client at a time (done).
2. **AtomicInstall** (done): the abstract promise, and the refinement mapping from
   StagedInstall in which `active` and `original` together stand for one abstract value.
   Theorem: every step maps (done).
3. **MountedApexes** and **RebootlessInstall** (done). Theorems: type correctness and
   UnloadedOnlyWhileInstalling without a restriction; nine more invariants, all but
   InfoListIsCurrent checked by the runs, where calls on one package do not overlap, or no calls do (done).
4. **DataSnapshots** (done): snapshot, restore, pre-restore snapshots, repetition
   over reboots, revert of a rollback. Theorems: type correctness, and the three data
   properties of devices with checkpoints, and RevertKeepsData of those without (done).
5. **CompressedApexes** (done): selection, decompression, the chroot of an update,
   reserved space. Theorems: type correctness, ActiveIsValid, MountedFilesStay,
   EveryPackageIsActive, OtaIsKept, EstimateSuffices (done).
6. **ParallelActivation** and **Activation** (done): queue, workers, loop devices,
   order of contributions. Theorems: type correctness, DevicesAreOwned, and that any
   number of threads implement Activation (done).
7. The VM and UnmountAll modes and `remountPackages`: sequential, without what the
   other modules are about; last.

## 3. StagedInstall

### Processes and steps

`Main` is the main thread of apexd: `OnStart`, then `WaitForBootStatus`, then
`BootCompletedCleanup`. Each `Threads` element is a binder thread. `pc[p]` says where a
process is, and `session`, `todo`, `files`, `reverting`, `caller` and `write` are its
local variables: the session it works on, what its loops have left to do, the
`active_sessions` of `RevertActiveSessions`, who called it, and the state file it has
open.

A step is what one system call does to persistent storage, so power can be lost
between any two, and with `Overlap` any two processes interleave there:

- `UpdateStateAndCommit` opens the state file with `trunc` (from here it parses as
  UNKNOWN) and `CommitSucceeds` or `CommitFails` ends it. A write that fails leaves the file
  truncated; the stream may notice that before the function returns or only when it is
  closed, so that the caller is told or not. When the file cannot be opened (`MarkOpenFails`,
  `FinishOpenFails`, `OpenFails`) the session keeps its old state. A revert that is told of a
  failed mark gives up (`GiveUpRevert`); all other callers log it and go on.
- `BackupActivePackages` lists the active APEXes in the submitting step, deletes the
  old backup file by file (`DeleteBackup`), links file by file (`LinkBackup`).
- `RestoreActivePackages` checks for the backup, empties `/data/apex/active` file by
  file, renames.
- `StagePackages` links file by file (`LinkStaged`), then unlinks the superseded ones. On failure
  (`LinkFails`) the guard unlinks what was linked (`UnlinkStaged`), unless that fails as well
  (`UnlinkStagedFails`); once the guard is disabled a failure leaves everything
  (`SupersedeFails`). These and `RejectSession` end in `SessionFails`. Unlinking a file that is
  there already and linking the new one in its place are one step: power is not lost between.

`RevertActiveSessions` has five callers; `caller` remembers which, `ReturnOk` and
`ReturnError` map it to where the code goes on (`RevertActiveSessionsAndReboot`
reboots on success only).

vold is external: `attempts` is its count of boots, `journaling` an open checkpoint,
`saved` what /data returns to. `Boot` counts an attempt and opens the checkpoint,
`StartCheckpoint` and `CommitChanges` are the system server's, and `PowerOff`
undoes /data when a checkpoint is open. `/metadata` is never undone.

The variables `original`, `confirming`, `reverted`, `committed` and `unrecorded` are history: no
guard reads them. `unrecorded` holds the sessions whose last commit failed or was cut short, and all those
of a revert that gave up; a commit that succeeds takes its session out.

### Abstractions and assumptions

- An APEX file is a package and a version. `Flaky` ones may fail to activate; the
  built-in APEXes activate (a device whose built-in APEXes do not is not usable).
- The build fingerprint, the number of APEXes in a directory and verification are
  one nondeterministic failure, `RejectSession`, which `MaxFaults` bounds.
- System calls take effect in order, and are durable when the next one starts.
- When `SubmitStagedSession` cannot open the file of a new session the directory is left without
  one, which reads as UNKNOWN like a truncated one: `CommitFails` covers it.
- apexd does not restart within a boot: init reboots the device when it fails
  (`reboot_on_failure` in `apexd.rc`).
- Snapshots of data (section 5), decompressed APEXes (6) and mounts (4, 7) are not part of this module:
  the code that handles them touches none of its variables. The activated APEXes
  are `mounted` and `preMounted`.
- The debug calls `stagePackages`, `resumeRevertIfNeeded` and the unlinking by
  `unstagePackages`: the last is `UnstagePackages`; the first two are left out, their
  effects being those of `LinkStaged` and of a revert.
- A client submits each session id once (`allocated`) and on a committed /data.
  Each of `MarkStagedSessionReady` and the others may come at any time.
- A thread takes a new call only once it has answered the one before. The list of sessions of a
  revert is read in one step, where the code reads one state file after another.

### Runs

Instances: two packages, of which one has an update already (version 2 over a
built-in 1), session `s1` that updates both (3 and 2), session `s2` that updates the
first again (4); versions 3 and 4 are flaky.

| Run | Question | Instance |
|---|---|---|
| crash | Does the backup survive any loss of power? Is every update taken or taken back, as a whole? | 2 packages, 2 sessions, 1 thread, `MaxReboots` 2, `MaxFaults` 1, no checkpoints |
| faults | What holds when state files cannot be opened or written, and links, unlinks and the clean-up after them fail? Do boots and reverts come to an end? | 2 packages, 1 session, 1 thread, `MaxReboots` 3, `MaxFaults` 2, no checkpoints |
| overlap | What survives any interleaving of two calls and the main thread? | 1 package, 1 session, which may be unstaged, 2 interchangeable threads, `MaxReboots` 2 |
| checkpoint | What of it holds where vold undoes /data? | as crash, `Attempts` 2 |
| resume | a comment of the source that the code does not keep | 1 package, 1 session |

Bounds: two unasked reboots are enough to lose power while submitting or while
staging and then again while reverting (the reboots apexd asks for are not
counted); two sessions are enough for one to build on the other; one fault reaches
every error path, and with a failing activation (which is not counted) the paths where
a revert fails after an activation did. In the run faults two faults reach a step that
fails and then the failure of what makes up for it, or of recording it; its third reboot lets a boot act on
what the two left. `UnstagePackages` is in the run overlap only: with it no
promise about the files is left. `SYMMETRY` is used in the overlap run only, over the
two threads, which no definition tells apart; that run has no liveness property.

What the passing runs show:

- **ImplementsAtomicInstall** (one client at a time, no checkpoints): the section on
  AtomicInstall. The run faults checks it again where two calls fail.
- **BackupProtectsSession**, **RestoreIsOriginal** (the same): from the commit of VERIFIED
  until the confirmation or a revert, the backup is what was active at the submission,
  and a revert that gets to REVERTED has restored exactly that, over any number of
  interruptions.
- **FinalStatesAreFinal** (the same): no later step changes a final state (except deleting it).
- **RevertedIsNotStagedAgain** (the run faults): a session whose state file a revert has opened to
  mark it is never staged again, whatever then fails. It does not speak of a session whose file
  could not be opened: the revert gives up and that session stays what it was.
- **ActivatedSessionsAreInstalled**, with checkpoints and, in the run faults, without: what an ACTIVATED
  session brought is there, in no other version, when the data APEXes are collected. Excepted is a
  session that is ACTIVATED only because a later state could not be recorded (`unrecorded`): its
  APEXes may have been deleted.
- **EveryPackageActive**, in every interleaving: each package is active, on /data or
  built-in, once the service is published.
- **RevertedApexNotActivated**, in every interleaving: no APEX that only REVERTED
  sessions brought is activated (with checkpoints: unless vold committed it first).
- **BootCompletes**, **RevertCompletes**: no boot loop, and no revert is left half
  done, unless the commit of its end fails or is cut short. When REVERTED or REVERT_FAILED cannot be opened
  the session stays REVERT_IN_PROGRESS, and nothing makes the device boot to finish it.

### Fairness

`FairSpec` is weakly fair to `Boot` (the device starts again), to the steps of the
main thread, and to the progress of a thread that has taken a call: these are
scheduled by the kernel and none waits for another process. There is no fairness on
clients, on power loss, on `UpdatableCrashing`, on `StartCheckpoint` or
`CommitChanges`, nor on success rather than failure of a call. `MainStep` contains the
wait's end only when `bootCompleted` has been set.

### AtomicInstall

`AtomicInstall` has no files, backup or reboots: an update is `Submit`ted, `Take`n with all
its packages in one step, confirmed, or `TakeBack`en in one step to what the device ran
before. What the code promises less firmly has steps of its own, so that the refinement
says where the promise ends:

- `Lose`: the state file is truncated before it is written (`apexd_session.cpp:239`), and
  power lost in between leaves a session that reads as UNKNOWN and that nobody
  takes up again.
- `Relapse`: a revert whose rename was done before power was lost finds no backup when it is
  resumed, and reports REVERT_FAILED though everything is restored; and when power is lost
  while a *resumed* revert writes REVERT_IN_PROGRESS again, the session is lost with
  `/data/apex/active` half emptied.
- `Fail`: a failed system call. `StagePackages` disables its guard and then
  `RemovePreviouslyActiveApexFiles` fails: the update is reported failed and is active.
- `Stray`: how far the update has come could not be recorded (a commit failed and the old state is
  still there, or a revert gave up). Its phase is then "astray", and until a commit succeeds nothing
  is promised of it: it may be given up, taken, kept or taken back. A device without a failed call never gets there.
- `Drop`: a package of which an APEX may fail to activate (`Unsound`) loses one, to an older
  one if to any (`OnlyLess`): `BootCompletedCleanup` deletes what did not activate, and what the next
  boot then activates of the package is whichever is the highest left. Where no promise is left,
  any package may. `Settles`: where an
  update brings a file that /data already has, the file of another version that was
  beside it may take over before the update is taken.

`undo[u]` is what was on /data at the submission, and `Runs` what the device makes of it: the
highest version of a package, unless that is older than the built-in one.

`StagedInstallImplements` is the mapping. `PhaseOf(s)` reads the phase off the state file -
or, when that is truncated, off what a process is about to write; a session whose links are being undone again (`Unstaging`) has
failed already. `Astray(s)` is a session of `unrecorded` that still has a state, or whose revert goes on without one
(`BeingReverted`); every other has its `RecordedPhase`. `Owed` is what the device
owes: `active` without the APEXes linked so far for a session that is still pending, without
the superseded ones of a session whose last link is made, and `original[s]`, whatever is on
disk, while a session is being taken back. Take happens at the last `LinkStaged` (for a session
that brings nothing new, which has no such link, at the commit of ACTIVATED), TakeBack
at the commit of REVERT_IN_PROGRESS. The runs crash and faults check `Atomic!Spec`.

### Disagreements with comments of the source

The run resume: a revert cut short is resumed at `apexd.cpp:2943` after AddDataApex (2937)
and without a reboot. The restored APEX is not activated, and `RemoveInactiveDataApex` deletes
it: the original update is lost, where the comment says `/data/apex/active` is reverted "to
its original state".

Others that the model reaches, without a run of their own:

- `MarkStagedSessionSuccessful` deletes the backup before it commits SUCCESS (3152). After
  power loss in between the session is still ACTIVATED, and a later revert "restores" the
  emptied backup.
- `MarkStagedSessionReady` reads VERIFIED, a revert in another thread commits REVERTED, and
  the commit of STAGED overwrites it (3136): the session is staged again.
- `StagePackages` fails after it has accepted the staged files (2295), as above.
- A revert that cannot open the state file of a session leaves it STAGED or ACTIVATED (2357), and one that cannot
  open it for REVERTED only logs a warning (2391): the comment at `apexd.cpp:2331` says that sessions are put in
  REVERTED "so that they do not get activated on next reboot".
- With checkpoints, a crash noticed after vold has committed marks sessions REVERTED that
  nothing undoes.

`BackupProtectsSession` and `RestoreIsOriginal` exempt sessions whose confirmation has begun
(`confirming`), because of the first of these, and `RevertedApexNotActivated` those in `committed`.

## 4. MountedApexes and RebootlessInstall

### State and steps

`MountedApexes` holds what an install changes in memory. External, from how apexd uses
it: `mounts[pt]`, the stack of images on each of `/apex/name`, `/apex/name@ver` and
`/apex/name@ver.tmp`; `devices`, the dm-verity devices; `detached`, images unmounted with
MNT_DETACH that processes still use. apexd's own: `db`, `gMountedApexes`. Its operators
are single system calls or single critical sections of the database's mutex:

| Operator | Code |
|---|---|
| `MountPackageImpl`, `MountPackageFails` | the function of that name, as one step that happens or is undone |
| `Unmount`, `UnmountFails` | `Unmount`: unmount, then delete the device, at once or deferred |
| `BindMount`, `BindMountFails` | `BindMount`, inside `DoIfLatest` |
| `AddMountedApex`, `RemoveMountedApex`, `Latest`, `Duplicate` | `MountedApexDatabase`; `Duplicate` is what its CHECKs refuse |
| `Umount` | `umount2` on the active mount point |

`RebootlessInstall` puts them together. A binder thread's `pc[t]` and `call[t]` walk
through `InstallPackage`:

    tempMount tempAdd tempUnmount tempRemove      VerifyPackageNonStagedInstall
    minor unload                                  ComputePackageIdMinor, UnloadApexFromInit
    unmount forget unmountId                      UnmountPackage
    link activate mount add bind                  the new APEX
    undo activate mount add bind                  the guard: the old one again
    accept collect write reload                   unlink the old file, UpdateApexInfoList,
                                                  LoadApexFromInit

`call[t].target` is what `ActivatePackageImpl` works on, so the same actions serve the new
APEX and, after `Undo`, the old one. `dropFind`, `dropRemove` and `dropUnmount` are the end
of `SubmitStagedSession`, which drops the temporary mounts of its package. The main thread
boots (`Boot` is the outcome of OnStart for this module: what selection takes is mounted,
bound and listed) and then runs `RemoveInactiveDataApex` file by file.

### Abstractions and assumptions

- A file is package, version and minor: -1 built-in, -2 what a client passes, from 0 on
  the minor of `name@ver_minor.apex`. Every package is built in; two files of a version
  are different files, and the boot takes any of those of the highest version.
- A loop device is free when nothing has it open (LO_FLAGS_AUTOCLEAR), and
  LOOP_CTL_GET_FREE gives the lowest free number. Names of loop devices order as numbers.
- `Exists` is whether a file can be opened. Hash trees outside the APEX,
  `PopulateFromMounts` and the debug calls `activatePackage`/`deactivatePackage` are left
  out. `DeleteUnusedVerityDevices` deletes suspended devices, of which the model has none.
  Shared libraries APEXes, for which `UnmountPackage` and `ActivatePackageImpl` have branches of their
  own (1048, 1334, 1354), do not get here: `CheckSupportsNonStagedInstall` refuses them (3687).
- apexd does not restart within a boot. A failed CHECK is an abort, which reboots.
- Clients install no version older than the active one. apexd does not refuse it (the
  package installer does): the new APEX is linked beside the old one and a boot takes the
  higher version, so that an old file left behind would come back.
- `Failures` names the places that may fail, `MaxFaults` bounds how often. `Harmless` are
  those that InstallPackage undoes or outlives; `Harmful` are the others: the second
  unmount of UnmountPackage, the bind mounts, the guard itself, and deletions and writes
  whose failure is only logged. `load`, the request to init to load the package again, leaves
  mounts and files as they are and is among the first.
- `Overlap` says what may run at the same time: calls on different packages ("calls"),
  calls on one package ("package"), the clean-up after boot and calls ("cleanup").
- `Release` may happen at any time: processes let go of a detached image.

Bounds: `MaxMinor` minors and `Loops` loop devices are more than the runs use (the
operators that need one have no step without it, and NoDeviceLeaks keeps the number
down); `MaxCalls` 4 is enough to get beyond `kMaxVerityDevicesPerApexName` devices
through forced installs; one reboot is enough for each order of an interrupted install, a
boot, and another install.

### Runs

| Run | Question | Instance |
|---|---|---|
| rebootless | Does an install leave the old or the new APEX, whatever recoverable step fails and whenever power is lost? | 1 package, 3 versions, 4 calls one at a time, with and without force, 1 reboot, 1 failure |
| rebootless_calls | Do two calls on different packages that interleave leave the database, the kernel and the devices in agreement? | 2 packages, 2 interchangeable threads, 1 call each, 1 reboot, 1 failure |
| rebootless_services | Does init get back what was unloaded, in every overlap and with every failure? | 1 package, 2 threads that install, the clean-up, 1 failure; liveness |

What the passing runs show:

- **InstallKeepsOrReplaces**: the APEX bound at /apex/name when an install returns is the
  one its answer says, and its file is on disk. **AcceptedIsActive** keeps this between
  calls, of different packages at the same time too.
- **DatabaseMatchesKernel**, **NoDeviceLeaks**, **DevicesAreBounded**: between calls
  the database is the kernel's state, every device belongs to a mount, and devices that
  processes cling to stop further installs before there are too many.
- **BootTakesWhatWasInstalled**, **LinkedIsPickedUp**: a boot after power loss takes
  what was accepted, or what was being installed, and the latter once it is linked.
- **NoCheckFails** (one call at a time): none of the CHECKs of the database fails.
- **UnloadedOnlyWhileInstalling**, **ServicesComeBack**: with every failure and overlap, init is
  told to load a package again; the exception is the request itself failing, which the code
  logs (3867): such a package (`refused`) stays unloaded until an install or a boot.

`FairSpec` is weakly fair to `Boot`, to the clean-up and to each thread that is in a call:
none of them waits for another. `Install`, `Stage`, `PowerLoss` and `Release` are not fair.

### Disagreements with comments and assertions of the source

What the model reaches, beyond what the runs check (`Overlap` and `Failures` leave it out):

- A temporary mount is unmounted, which frees its loop device, before its entry leaves the
  database (`apexd.cpp:728`). Another call, even on another package, gets that loop device
  and adds its entry: the CHECK of `apex_database.h:243` fails.
- While InstallPackage has the active APEX unmounted and out of the database,
  `RemoveInactiveDataApex` (3191) takes its file for inactive and deletes it.
- When the second unmount of `UnmountPackage` fails (`apexd.cpp:3877`), the package has no
  active APEX any more: the guard that activates it again does not exist yet.
- When binding the new APEX fails (3894), it stays mounted and in the database; the guard
  activates the old one, which is not the latest and therefore not bound.
- While a newer version of a package is mounted for verification, that is its latest: an
  install in another thread then answers success with the old APEX bound (1355), and
  `UpdateApexInfoList` leaves the package out (3775).
- The comment at 3901 ("on next boot apexd will pick up the new verified APEX") does not
  hold for an APEX that is older than the active one.

## 5. DataSnapshots

### State and steps

`files` is what each place holds: the data of an APEX in a DE_sys, DE_user or CE directory
(`Data`), its snapshot (`Snapshot`) and its pre-restore snapshot (`PreRestore`), each being the version
that wrote it, `Nothing`, or `Partial`. Three processes copy: the main thread for DE_sys before
it publishes its service, `apexd --snapshotde` for DE_user afterwards, a binder thread for CE.
`work[p]` is the list of copies a process has still to make and `step[p]` how far the first
one is: `RemoveTarget`, `CreateTarget`, `FinishCopy` are `ReplaceFiles`, `DeleteSource` the end of
`RestoreDataDirectory`. Power can be lost between any two steps.

Sessions and the active version move as in StagedInstall, one step an operation:
`ScanStagedSessionsDirAndStage`, `Revert` .. `FinishRevert`, `MarkStagedSessionSuccessful`. A revert comes
from `ResumeRevertIfNeeded`, from OnStart when an APEX cannot be activated (`ActivationFails`, before
any copy) or from a native process that crashes (`UpdatableCrashing`); unless it was resumed the device
reboots after it, and when there is no backup to restore it goes on where it was. vold restores
`saved` when a checkpoint is not committed: the `Image` of the files, the version and what is known of both. The code skips the pre-restore snapshot on
devices with checkpoints, and so does `SnapshotOrRestoreDeIfNeeded`.

`before`, `again` and `spoiled` are history: the data and the version there were when a session was
activated, the sessions whose copies a second boot made again, and places that a failed file
operation or a client's deletion left without what was meant for them. A checkpoint that is
dropped takes `spoiled` back with the files, or it would excuse places that are sound.

### Assumptions

- Clients submit a rollback only for an update that succeeded and is what is active, back
  to the version that it replaced, and an update that is no downgrade; they confirm only
  what vold committed, and destroy snapshots only while no session is under way (the
  package installer and the rollback manager; apexd checks none of it).
- DE and CE directories are different ones, and there are finitely many sessions, APEXes
  and users.
- An APEX writes its data when it is in use, not while apexd copies. All APEXes of a
  session move together, so one name is enough.
- `RevertWhenInUse` says that, without checkpoints, a rollback that was submitted is reverted
  only once its APEXes are in use: no native process crashes before that, nor while
  something is staged, and the boot that activates it does not fail to (`ActivationFails`). The
  run snapshots assumes so of devices without checkpoints; the run snapshot_revert does not.

### Runs

| Run | Question | Instance |
|---|---|---|
| snapshots | Does an APEX find data that fits it, across update, rollback, reverts, calls for CE data and power loss? | an update (1 to 2) and its rollback (2 to 1), one APEX, a DE_sys, a DE_user and a CE directory, with and without checkpoints, `MaxPowerLoss` 1, `MaxFaults` 1 |
| snapshot_revert | A comment on the pre-restore snapshot that the code does not keep | no checkpoints, no power loss, no fault, a crash or a failed activation at any time |

A loss of power interrupts a copy or its repetition, beside the boots that a revert or
vold's attempts ask for; one fault reaches each error path;
one session and its rollback are the pair that rollback support is made for.

- **DataIsNotNewer**, **NoDataIsLost**, **SnapshotIsOriginal** (with checkpoints): no APEX in use finds
  data that a newer version wrote, or none, or half of it; a snapshot stays what the update
  found, however often a boot makes it again.
- **RevertKeepsData** (without checkpoints): a reverted rollback leaves DE data as it was
  when the rollback was activated, unless its copies were made twice.

The run snapshot_revert: `PathExists` returns a `Result<bool>`, and
`RestorePreRestoreSnapshotsIfPresent` tests `.ok()` only (`apexd.cpp:2007`). When a rollback is
reverted before its pre-restore snapshots are made, the revert
"restores" directories that do not exist: `ReplaceFiles` removes the data and then fails. That is
so when a native process crashes while the rollback is only staged or while `apexd --snapshotde`
copies, and when an APEX cannot be activated at boot: OnStart reverts (2983) before
`SnapshotOrRestoreDeSysData` (2995).

What the model reaches beyond what the runs check: without checkpoints a second boot of an
ACTIVATED session overwrites the snapshot with what the new version has written, or restores
from a directory that the first boot has deleted (`apexd.cpp:1906`; `again` excepts these); a
reverted *update* leaves the data as its version wrote it; and the result of the pre-restore snapshot
is ignored (1892), so that the restore goes on without one.

## 6. CompressedApexes

### State and steps

`file[k][p][v]` is the file of package `p`, version `v` in `/data/apex/decompressed`, `.decompressed.apex` or
`.ota.apex`: the build it holds, `Nothing`, or `Partial`. It is shared by the system that runs and by the
apexd in the chroot of an update, and by both slots. A `job` is one activation, of a boot or in the
chroot: `SelectApexForActivation` chooses, `ProcessCompressedApex` handles one CAPEX at a time (`Reuse`,
`ReuseOta` or its failures `RenameFails` and `RenamedIsInvalid`, `BeginDecompress` .. `EndDecompress`/`FailDecompress`), `Activate` mounts, and after a failure a second
round takes the pre-installed APEXes of the packages that are missing (`ActivateMissingApexes`).
`ReserveSpace`, `ReserveSpaceFails` and `CancelUpdate` are the calls of update_engine, `RemoveInactiveDataApex` the clean-up,
`InitializeDataApex` a restart of apexd on demand. `Reboot` may switch slots, and is a loss of
power when a job is under way.

### Abstractions and assumptions

- One decompressed APEX takes one unit of `Capacity`; `UseSpace` is everybody else, who take one of the amounts of `OthersTake`, from 0.
- Unlinking succeeds, and a file that is there whole and is the build of the CAPEX validates,
  except after the rename (`RenamedIsInvalid`).
- Extraction and validation of one file are one step when they succeed, after one that
  leaves it in part. Extraction is the only thing that takes space.
- The staged install is `ChangeActive`: another version on /data, or none.
- update_engine runs one update at a time; the chroot runs after it has been reserved for.
- `held` says whether the file system takes blocks for a resized file.

### Runs

Packages that an update raises, rebuilds or compresses, one with shared libraries, and three images.

| Run | Question | Instance |
|---|---|---|
| compressed | Do two updates, switched to and back, find and leave the files they may, and extract no more than was computed for them, when a reservation, rename, extraction or mount fails too? | 3 packages that are raised, rebuilt or compressed, 2 updates, 2 reboots, 1 change of a data APEX, 1 failure, room for 6 files or 2 |

Two updates are enough for one to find what the other left, two boots for a switch and
a switch back. With room for six files the disk never keeps them within the estimate; once others take four
units, the two that are left are less than the files of two images need. The
versions fall on both sides of the one that sessions install, so that each comparison of
`ShouldAllocateSpaceForDecompression` (3314) decides for some package.

- **ActiveIsValid**: what either system activates is, build for build, what its own image
  holds - though names carry the version only.
- **MountedFilesStay**: nothing deletes or writes a file that is mounted.
- **EveryPackageIsActive**: a package is left out only if its pre-installed APEX could not be
  extracted, or was itself what failed to mount: that one is not tried again (1781). When it is the
  update on /data that fails or is gone, the pre-installed one stands in.
- **EstimateSuffices**: the estimate covers what the update extracts, when it can be
  right (`Foreseeable`: it compares versions, not builds, and data APEXes as they were when apexd started).
  It does not any more when a rename fails, which leaves the `.ota.apex` file beside the one that
  is then extracted (2803), or a mount (`firm`).
- **OtaIsKept**: what was extracted ahead stays `.ota.apex` until the switch, or, when a boot
  of the old slot lacked the very same APEX, becomes `.decompressed.apex`. From then on it stays
  until such a boot completes without having activated it, because its mount failed or an update is on
  /data: `RemoveInactiveDataApex` deletes it then (3179), and the new slot has to extract again. The comment "ota_apex
  matches with capex. Slot has been switched." (`apexd.cpp:2785`) does not always hold: the
  two slots may share a compressed APEX, and a boot of the old one then renames the file.
  The image `rebuilt` shares `q` with `new` for that, and has another build of `p` at its old version.

What the model reaches beyond that:

- The reservation is made by `resize_file` (`apexd.cpp:3454`), which takes no blocks on file systems
  with sparse files; and the first extraction, even in the chroot, releases all of it (2813). The first
  boot of the new slot may then find no room, although docs/README.md:633 says that the
  space "in the future will be used by apexd for decompression".
- A package whose extraction fails is left out without an error (2872): neither the fall-back nor
  a revert makes up for it.
- A `*.ota.apex` that power loss left in part stays until another run in the chroot, or another
  update, replaces or removes it: no boot does.
- docs/README.md:593 says that decompressed APEXes are hard linked to `/data/apex/active`: the code
  no longer does so.

## 7. ParallelActivation

### State and steps

`ActivateApexPackages` in the bootstrap (`list` is `Bootstrap`, ueventd may still be at its cold boot,
loop devices are allocated ahead) and in `OnStart` (`list` is `Apexes`). A worker goes through

    next loop wait configure mount bind          ActivateApexWorker

`loop` to `configure` is `CreateLoopDevice`, under its mutex: `CreateLoopDevice` asks for a number,
`OpenDevice`, `PollDevice` and `GiveUpDevice` are `WaitForDevice`, `ConfigureLoopDevice` and `ConfigureFails` the end.
`Retry` is the loop of `MountPackageImpl` over `kLoopDeviceSetupAttempts`; `Mount`, `MountFails` and `BindMount` are the
rest. An attempt may also fail at loop control (`GetFreeFails`), at the configuration, or at the read-ahead
(`ReadAheadFails`); it is made again like the others. `PreAllocateFails` is the allocation ahead that breaks off,
also for a new device 0, of which LOOP_CTL_ADD's answer is 0 (`apexd_loop.cpp:292`).
The main thread (`main`) starts no more workers than there are APEXes (the others count as ended), waits for worker after worker, then has the APEXes that provide shared
libraries contribute in the order of the comparison it sorts with.

External: the kernel's loop devices (`loops`, `known`), ueventd (`nodes`, `coldBoot`, `CreateNode`), and other
processes that take a free device (`TakeByOther`).

### Abstraction

`Activation` is one thread's work: every APEX of the list is settled once (`Settle`), none fails unless
as much `trouble` has happened as it takes to use up its attempts, contributions follow one
another in order and begin when everything is settled, and the result is an error exactly if
something failed. `ParallelActivation` implements it with `trouble` being devices taken and
device nodes late, and any other failure counting for all the attempts of an APEX.

### Runs

activation: three APEXes, two of which are versions that provide shared libraries, two
workers, four loop devices of which the kernel starts with one that is not device 0, one device taken by
another process, and one node that is late or one failure of any other kind. Two workers are what it takes to
compete, and one more than the bootstrap has APEXes; `SetupAttempts` 2 is what it takes to retry, and a device taken
besides a failure uses both attempts up. `WorkerNum` may be any positive number: one for each APEX (or more) is the
default, `boot_activation_threads` 0.

- **DevicesAreOwned**: an active APEX has one loop device to itself, and none is lost.
- **ImplementsActivation**: the refinement above.
- **ActivationEnds**: under weak fairness of each thread (the kernel schedules them; the only
  wait for one another is the mutex, whose holder has a step, and the futures), of ueventd, which works
  through its queue, and of the end of the cold boot.

What is excluded: `loop_wait_attempts` 0 or 1 (`ThreadsAssumption`). `WaitForDevice` sets `i = 0` while
the cold boot lasts and the loop then increments it (`apexd_loop.cpp:468`), so that with 1 it gives
up before ueventd is done, and with 0 it never looks. When the device is busy, `MaybeCloseBad`
(72) clears it though another process set it up: `ConfigureFails` models it, and the runs show that
it is never one of apexd's own. `Precedes` (`apexd.cpp:1730`) is no strict weak order for two updates
of one version; the model then takes any order.

## 8. Proofs

All theorems hold for all constants that satisfy the ASSUMEs of the module they are about.
Those that need more have it as a hypothesis, which the runs that check the same
property satisfy too:

| Hypothesis | Meaning | Why |
|---|---|---|
| `~Overlap` (StagedInstall) | clients and main thread take turns | with overlap the properties fail (section 3) |
| `OneSessionAtATime` | a session is submitted when none is under way | `original` is one session's; the session manager's rule for staged APEXes |
| `InstallerKeepsTo` | a session holds one APEX a package, none older than the built-in one; nobody unstages | what the package installer lets through; apexd does not look |
| `OneCallAPackage` (RebootlessInstall) | no two calls on one package, none during the clean-up | section 4, Disagreements |
| `OneCall` | no two calls | the same: a loop device is free before its entry is gone |
| `Recoverable` | `unmountId`, `bind`, `undo`, `unlink` do not fail | nothing makes up for these |
| `"write" \notin Failures` | apex-info-list.xml can be written | its failure is only logged |
| `IdsUsedOnce` (DataSnapshots) | one update and one rollback for an ID | the rollback manager gives each update an ID of its own |

### StagedInstall

`StagedInstall_proofs`, overlapping or not, checkpoints or not:

- **TypeCorrect**: `TypeOK` alone is not inductive: the state file that is written belongs to
  `session[p]`, so `SessionKnown` says that a process at a label that uses its session has
  one. The lemma `ReturnLabels` carries the returns of a revert.
- **EveryPackageIsActive**: its invariant `ActiveInv` follows the main thread through the
  calls of `RevertActiveSessions`: after `ActivateApexPackages` exactly the chosen data APEXes
  that failed are missing (`ChosenTried`), a revert called from there comes back to
  `ActivateMissingApexes` or reboots, and a revert called from `WaitForBootStatus` finds
  everything active. A failed commit also leaves the revert, so `MarksOnlyAtMark` says that the
  main thread has REVERT_IN_PROGRESS to write only inside it. The other threads change
  none of this (`ActiveThread`, `ActiveFrame`).

Its second part builds four layers on these. Each needs those before it:

- `TurnInv`: one process at a time is in the middle of something.
- `HeldInv`: what that process relies on. `Held(p)` says, label by label, in which states
  the sessions it has read still are, and `NeverReopened` that no session a revert has
  taken up is in a state that a boot acts on. **RevertedStaysReverted** and
  **FinalStatesAreKept** follow; the second is an action property.
- `SessionInv`: at most one session is under way, none while another is submitted, and a revert
  has one session to revert (`RevertsOne`).
- `BackupInv`: where the backup is in each phase of a submission, a confirmation and a
  restore, file by file: what is still to be deleted or linked, what `original` was, and that
  a revert about to report REVERTED has renamed it. **BackupIsIntact** and **RevertRestores**.
- `InstalledInv`: what a boot has linked so far, and that an ACTIVATED session was
  activated by this boot or committed before; **ActivatedStayInstalled**, with vold's
  checkpoints too.

### AtomicInstall

`StagedInstallImplements_proofs`, **StagedInstallIsAtomic**: StagedInstall implements AtomicInstall for any
sessions, packages, versions, threads and bounds. `Base` is the layers above, all of which it needs. On
top of them:

- `PhaseInv`: how far a session is beyond its state. Until a boot stages a session nothing that it
  brings is on /data (`NothingNew`); a confirmation begins only after the activation
  (`ConfirmedOnce`); a revert that has begun is taken up again by each boot until it is over, and is
  without a backup only when it has renamed it (`RevertGoesOn`); an unstaging or a failed revert has a
  cause (`MainKnows`, `Concerned`).
- `RunsInv`: the clean-up deletes what is not mounted. That this changes what the device runs for
  packages with a flaky APEX only (`AccountedFor`) follows from what the boot has activated, and it
  fails once a session has been reverted, failed or lost (`Excused`), for which AtomicInstall promises no
  more.
- `StrayInv`: a session is astray only after a failure. Beside it `CommitFailed` says that a revert goes on
  without the state of its session only where a commit of it has failed, and `MayRestore` that the backup is there
  unless a confirmation has begun, everything is restored already, or a call has failed.

The simulation then is a lemma for each group of steps: `RevertSimulates`, `StagingSimulates`, `BootSimulates`,
`ThreadSimulates`, `OpenFailsSimulates`, `DeviceSimulates` (with `PowerSimulates`, where what a process was about to write or unlink
is forgotten). `Strayed` shows that a step after which a session is astray is one of `Stray`. Since at most one session is under way, `OwedIs` gives `Owed` by that session alone,
and three lemmas about sets of files say how `Runs` changes with them: `RunsAdding` and `RunsWith` for the links
of a boot, `RunsWithout` for deleting a file. Taking is the hard step: the last link may be any of the
new ones, and the files it supersedes, still on disk, must already be owed no more.

### RebootlessInstall

`RebootlessInstall_proofs`, with every failure and every overlap:

- **TypeCorrect**, for the kernel's state too. `KnownAt` says at which labels the uploaded
  APEX, the current one, the target and the entry of a call are known, and that
  minors stay below the bound. One lemma an operator of MountedApexes, one for a step of a
  call, and one for each group of actions.
- **UnloadedWhileInstalling** (or refused by init): inductive beside the types: every step of `InstallPackage` between
  unloading and reloading stays between them and keeps the package (`StaysInside`), every
  other step of a thread is outside (`StaysOutside`).

`RebootlessSafety_proofs` has one invariant for six properties. `TurnInv`: one thread attends to
a package. `DetachedInv`: what processes cling to is an old image. `MountInv` is the disk, the
database, the mounts and the devices of each package, as `PackageAt(p, label, call)`
describes them for each label of `InstallPackage` and for none: the active APEX
(`ActivePart`), the temporary mount (`TempPart`), the files (`FilesPart`), and the minor
(`MinorPart`). A step of a thread takes its package from one label's description to the
next and leaves the others'; a boot establishes that of "idle", for which it takes the
highest version of a directory, so the directory has to be finite (`ParametersAssumption`).
**DatabaseAgrees**, **NoDeviceIsLeftOver**, **AcceptedStaysActive**, **NextBootTakesIt**,
**BootPicksUpLinked**, **InstallEndsWell**.

`RebootlessAlone_proofs`:

- **DevicesStayFew**: `RoomInv` carries the count of `ComputePackageIdMinor` to the mount.
- **NoCheckEverFails**: `CheckInv`; what is about to be added has a loop device that no entry has.
- **InfoListStaysCurrent**: `InfoInv`, what has been collected for the list so far. `InfoListIsCurrent` is
  proved only; no run checks it.

### DataSnapshots

`DataSnapshots_proofs`, in layers. `ForEach` is a fold over a sequence made of a set, and what it
returns is proved by induction over finite sets (`FlattenHolds`, `ForEachFacts`): a copy for
every element, none twice.

- `TypeInv`: the types, and that a client's copies are of CE data. **TypeCorrect**.
- `PcInv`: the order of the processes of a boot, and which of them has copies to make.
- `SessionInv`: vold's checkpoint is what there was before the boot (`CheckpointInv`); a session
  is ACTIVATED only under a checkpoint, until its data is ready (`Protected`); a rollback
  goes back to the version its update replaced (`RollsBack`).
- `DataInv`: what is on disk *for good* - the image that vold would bring back, or the disk - is
  sound (`PersistentInv`): data fits the version, and every snapshot that may still be used
  is the original. While a boot copies, the disk itself is sound as far as the copies have
  got (`BootInv`): where a copy is still to be made its source is untouched, where it has
  been made its target is right. The exception is a boot that a failure has ended
  (`Doomed`), which the checkpoint undoes. A source is deleted only after its target is
  complete, and a write of an APEX comes only after its directory has been copied.

**DataFitsVersion**, **DataStays** and **SnapshotStays** follow where APEXes are ready. Without
the restriction on IDs a second rollback with the same ID finds the snapshot that the
first has deleted.

**RevertsKeepData** is the action property of devices without checkpoints, for any IDs, under the
assumption `RevertWhenInUse`; the run snapshot_revert shows what happens without it. Its invariant has
three parts. `RevertPcInv`: the order of the processes of a boot, and which of them has copies to make.
`RevertStateInv`: one session is under way; in a revert none is ACTIVATED; what is reverted
was activated; and the backup of the active APEXes is used up when the copying back begins, so that a
revert which power loss interrupts there ends as REVERT_FAILED, never as REVERTED.
`RevertDataInv` follows the data of a rollback: `SetAside`, it is in its place, or, where its copy has been made,
in the pre-restore snapshot; then all of it is in the pre-restore snapshot; `Undoing`, it is there still
or back in its place. A restore overwrites the data only when the copy before it in the sequence is done
(`RestoredNext`), which `SnapshotOrRestoreDeIfNeeded` gives for every directory and APEX
(`SettingAsideAll`, by the induction over finite sets), and no two copies of a sequence
have one target (`OneTarget`).

### CompressedApexes

`CompressedApexes_proofs`. `SafeInv`: the types in full (`Typed`, which gives **TypeCorrect**), which
job runs when, that one CAPEX is being decompressed at a time (`OneAtATime`), that a file
found ready is the build its image holds and is not written again (`ReadyIsValid`), that
what a boot extracts is not yet mounted (`BootExtracts`), and what is mounted or missing, and
why (`MountsAreValid`, `NoneLeftOut`). **OnlyValidIsActive**, **MountedStay**, **NoPackageIsLeftOut**
are parts of it. **OtaStays** is an action property that needs `OtaInv` besides: the chroot works on
the update that space is reserved for, and on files that are not there yet; for the renamed file it
needs that a boot reuses what is valid, and extracts only what is not. Packages and
images are finite sets, which the capacity needs to be counted at all.

**SpaceSuffices** compares what was computed in one image, from versions, with what the chroot and
the boots of another extract. `ChosenInv`: what is mounted from /data overrides the built-in APEX.
`EstimateInv`: as long as the estimate counts there are the files `D` that were there at the request
and the packages `C` that were counted, such that every file is one of `D` or the one of a package of `C`
(`FilesAre`: in the new slot a decompressed file takes the place of an extracted one, never adds to
it), and a package is extracted only if it is in `C` (`Extracts`). The latter needs that every other
package is `Steady`: each boot finds it on /data, or its file valid, activates it without a failure,
and so the clean-up leaves it. In the old slot all packages are steady, and `Foreseen` says that what was not
counted will be in the new one; the switch turns the one into the other. `CountFiles` then is an
injection of the files into `D` and `C`.

### ParallelActivation

`ParallelActivation_proofs`, for any APEXes, number of threads, loop devices, attempts and failures,
bootstrap or not:

- **TypeCorrect**: `WorkersInv` is the strengthening: a worker past the queue has an APEX, one
  about to bind has it in the database, and none works before the main thread has
  started it.
- **DevicesOwned**: the property alone says nothing of what happens between the request for a
  number and the configuration. `Inv` does: an APEX is in the queue, at one worker, or in
  the database (`QueueInv`); the worker between request and configuration is the one that
  holds the mutex (`MutexInv`); the device it has asked for is none of apexd's, and devices
  are configured for at most one APEX each (`DeviceInv`). The mutex is what keeps two
  workers from being told the same number; another process still may be.
- **ThreadsAreOne**: each step maps to a step of `Activation` or to none. `SettledInv` and
  `MainInv` say that what the workers have noted is what is settled. The promise that an
  APEX fails only for causes enough is an account (`TroubleInv`): every attempt made in vain
  has a cause of its own, so that the attempts of those at work and of those
  that failed, summed, do not exceed the trouble there has been.

### Only model-checked

- **RevertedApexNotActivated**: it holds of the runs' sessions, not of all constants (two
  sessions may bring the same APEX, one of them confirmed).
- Liveness: the prover does not handle fairness.

## 9. Not modelled

- `apexd.cpp`: the VM and UnmountAll modes, `remountPackages`, the debug calls, the links below
  `/apex/sharedlibs`, the migration of sessions to /metadata.
- `apex_file_repository.cpp`: multi-installed vendor APEXes, block APEXes and the comparison of keys;
  `apexd_microdroid.cpp`, which activates block APEXes once and keeps no state.
- A failing listing of users' directories (`apexd.cpp:2028`, 2053), whose result the code dereferences:
  undefined behaviour on a device whose /data/misc_de cannot be read.
- The shim APEX, manifests, keys, the vendor check, class paths: parsing, hashing and
  comparing of file contents, without state that the properties could be about.
- Formatting, logging and statistics, the build tools, host tools, libraries and tests.
