-------------------------- MODULE RebootlessInstall --------------------------
(***************************************************************************)
(* The install of an APEX update without a reboot (InstallPackage): verify *)
(* it on a temporary mount, take the active APEX out of use, link the      *)
(* update into /data/apex/active, activate it, or put the old one back.    *)
(* Beside it run the temporary mounts of SubmitStagedSession and, in the   *)
(* main thread, the removal of inactive APEXes after the boot completes.   *)
(***************************************************************************)
EXTENDS MountedApexes

CONSTANTS
  InitFiles,       \* what /data/apex/active holds at first
  Main,            \* the main thread of apexd
  Threads,         \* threads of the binder pool
  Operations,      \* which of "install" and "stage" clients call
  Overlap,         \* which overlaps happen: see MayCall and MayCleanUp
  Forces,          \* values of the argument force
  Failures,        \* which steps may fail
  MaxCalls,        \* bound: calls of clients
  MaxReboots,      \* bound: reboots
  MaxFaults        \* bound: failures

ASSUME ParametersAssumption ==
  /\ InitFiles \subseteq {f \in Files : OnData(f)} /\ IsFiniteSet(InitFiles)
  /\ Main \notin Threads
  /\ Operations \subseteq {"install", "stage"}
  /\ Overlap \subseteq {"calls", "package", "cleanup"}
  /\ Forces \subseteq BOOLEAN
  /\ {MaxCalls, MaxReboots, MaxFaults} \subseteq Nat

VARIABLES
  files,       \* /data/apex/active
  info,        \* the active APEXes in /apex/apex-info-list.xml
  loaded,      \* packages whose services and scripts init has loaded
  pc, call,    \* where each binder thread is in its call, and its variables
  main,        \* where the main thread is
  todo,        \* files it has still to visit
  doomed,      \* the file it has found not to be mounted
  calls, reboots, faults,
  (* history, read by the properties only *)
  accepted,    \* the version each package was last accepted at
  aborted,     \* a CHECK failed
  refused      \* packages whose load init refused since it unloaded them

kernel == <<mounts, detached, devices>>
disk == <<files>>
memory == <<info, loaded>>
mainVars == <<main, todo, doomed>>
bounds == <<calls, reboots, faults>>
history == <<accepted, aborted, refused>>
vars == <<mounted, disk, memory, pc, call, mainVars, bounds, history>>

NoFile == None
NoEntry == None

TempLabels == {"tempMount", "tempAdd", "tempUnmount", "tempRemove",
               "dropFind", "dropRemove", "dropUnmount"}
UnloadedLabels == {"unmount", "forget", "unmountId", "link", "activate", "mount",
                   "add", "bind", "undo", "accept", "collect", "write", "reload"}
Labels == {"idle", "minor", "unload"} \cup TempLabels \cup UnloadedLabels

NoCall == [op |-> "none", new |-> NoFile, force |-> FALSE, cur |-> NoFile,
           target |-> NoFile, entry |-> NoEntry, minor |-> 0, ok |-> FALSE,
           list |-> {}]
CallType == [op : Operations \cup {"none"},
             new : Files \cup {NoFile},        \* the APEX the client passes
             force : BOOLEAN,
             cur : Files \cup {NoFile},        \* cur_apex
             target : Files \cup {NoFile},     \* what ActivatePackageImpl activates
             entry : Entries \cup {NoEntry},   \* what is mounted, or unmounted
             minor : Nat,                      \* new_id_minor
             ok : BOOLEAN,                     \* no error so far
             list : SUBSET Files]              \* what UpdateApexInfoList collected

TypeOK ==
  /\ MountedTypeOK
  /\ files \subseteq {f \in Files : OnData(f)}
  /\ info \subseteq Files
  /\ loaded \subseteq Packages
  /\ pc \in [Threads -> Labels]
  /\ call \in [Threads -> CallType]
  /\ main \in {"off", "wait", "scan", "unlink", "done"}
  /\ todo \subseteq Files /\ doomed \in Files \cup {NoFile}
  /\ calls \in Nat /\ reboots \in Nat /\ faults \in Nat
  /\ accepted \in [Packages -> Versions]
  /\ aborted \in BOOLEAN
  /\ refused \subseteq Packages

-----------------------------------------------------------------------------
(* Vocabulary.                                                             *)

Fail(place) == place \in Failures /\ faults < MaxFaults /\ faults' = faults + 1
Exists(f) == OnData(f) => f \in files
Package(t) == call[t].new.pkg

Goto(t, label) == pc' = [pc EXCEPT ![t] = label]
(* The call returns.                                                       *)
Return(t) ==
  /\ pc' = [pc EXCEPT ![t] = "idle"]
  /\ call' = [call EXCEPT ![t] = NoCall]

(* SelectApexForActivation on AddDataApex's choice.  Of files of the same   *)
(* version it is the first in the order of the directory.                  *)
DataFiles(p) == {f \in files : f.pkg = p}
LowestCandidates(p) ==                                              \* mutant
  {f \in DataFiles(p) \cup {BuiltIn(p)} : \A g \in DataFiles(p) : f.ver <= g.ver}
Candidates(p) ==
  LET highest == {f \in DataFiles(p) : \A g \in DataFiles(p) : g.ver <= f.ver}
  IN IF \E f \in highest : f.ver >= PreVersion[p] THEN highest ELSE {BuiltIn(p)}

(* GetActivePackages: entries whose file cannot be opened are left out.     *)
GetActivePackages ==
  {e.image.file : e \in {g \in UNION {GetLatestMountedApex(p) : p \in Packages} :
                           Exists(g.image.file)}}

Idle == \A t \in Threads : pc[t] = "idle"
CleaningUp == main \in {"scan", "unlink"}

-----------------------------------------------------------------------------
(* The device.                                                             *)

(* Memory and mounts are gone.                                             *)
PowerOff ==
  /\ mounts' = [pt \in Points |-> <<>>]
  /\ detached' = {} /\ devices' = {} /\ db' = {}
  /\ info' = {} /\ loaded' = Packages
  /\ pc' = [t \in Threads |-> "idle"]
  /\ call' = [t \in Threads |-> NoCall]
  /\ main' = "off" /\ todo' = {} /\ doomed' = NoFile

PowerLoss ==
  /\ main # "off"
  /\ reboots < MaxReboots /\ reboots' = reboots + 1
  /\ PowerOff
  /\ UNCHANGED <<files, calls, faults, history>>

(* A failed CHECK ends apexd, and init reboots the device.                  *)
Abort ==
  /\ PowerOff
  /\ aborted' = TRUE
  /\ UNCHANGED <<files, bounds, accepted, refused>>

BootImage(f, l) ==
  [file |-> f, loop |-> l, dev |-> IF OnData(f) THEN BootName(f.pkg) ELSE NoName]

(* OnStart to OnAllPackagesReady: each package's choice is activated.  The  *)
(* loop devices are taken in the order of the workers.                     *)
Boot ==
  /\ main = "off"
  /\ \E chosen \in {g \in [Packages -> Files] : \A p \in Packages : g[p] \in Candidates(p)},
        loop \in [Packages -> Loops] :
       LET image == [p \in Packages |-> BootImage(chosen[p], loop[p])] IN
       /\ \A p, q \in Packages : loop[p] = loop[q] => p = q
       /\ \A p \in Packages, l \in Loops : l < loop[p] => \E q \in Packages : loop[q] = l
       /\ mounts' = [pt \in Points |->
            IF pt \in {ActivePoint(pt.pkg), IdPoint(chosen[pt.pkg])}
            THEN <<image[pt.pkg]>> ELSE <<>>]
       /\ db' = {[image |-> image[p], point |-> IdPoint(chosen[p])] : p \in Packages}
       /\ devices' = {[name |-> BootName(p), loop |-> loop[p], deferred |-> FALSE] :
                        p \in {q \in Packages : OnData(chosen[q])}}
       /\ info' = {chosen[p] : p \in Packages}
       /\ accepted' = [p \in Packages |-> chosen[p].ver]
  /\ main' = "wait"
  /\ UNCHANGED <<detached, files, loaded, pc, call, todo, doomed, bounds, aborted, refused>>

(* Processes stop using an image that was unmounted below them.             *)
Release ==
  /\ ReleaseDetached
  /\ UNCHANGED <<disk, memory, pc, call, mainVars, bounds, history>>

-----------------------------------------------------------------------------
(* BootCompletedCleanup: RemoveInactiveDataApex.                           *)

MayCleanUp == "cleanup" \in Overlap \/ Idle

ScanFiles ==
  /\ main = "wait"
  /\ MayCleanUp
  /\ todo' = files
  /\ main' = "scan"
  /\ UNCHANGED <<mounted, disk, memory, pc, call, doomed, bounds, history>>

(* mutant: decides by the name of the package and the version *)
CheckFileByName ==
  /\ main = "scan"
  /\ \E f \in todo :
       /\ todo' = todo \ {f}
       /\ IF \E e \in db : e.image.file = [f EXCEPT !.minor = 1]
          THEN UNCHANGED <<main, doomed>>
          ELSE main' = "unlink" /\ doomed' = f
  /\ UNCHANGED <<mounted, disk, memory, pc, call, bounds, history>>

CheckFile ==
  /\ main = "scan"
  /\ \E f \in todo :
       /\ todo' = todo \ {f}
       /\ IF IsMounted(f) THEN UNCHANGED <<main, doomed>>
                         ELSE main' = "unlink" /\ doomed' = f
  /\ UNCHANGED <<mounted, disk, memory, pc, call, bounds, history>>

UnlinkInactive ==
  /\ main = "unlink"
  /\ \/ files' = files \ {doomed} /\ UNCHANGED faults
     \/ Fail("unlinkInactive") /\ UNCHANGED files
  /\ main' = "scan" /\ doomed' = NoFile
  /\ UNCHANGED <<mounted, memory, pc, call, todo, calls, reboots, history>>

CleanedUp ==
  /\ main = "scan" /\ todo = {}
  /\ main' = "done"
  /\ UNCHANGED <<mounted, disk, memory, pc, call, todo, doomed, bounds, history>>

CleanUp == ScanFiles \/ CheckFile \/ UnlinkInactive \/ CleanedUp

-----------------------------------------------------------------------------
(* What a client may call, and when.                                       *)

MayCall(p) ==
  /\ main # "off"
  /\ "cleanup" \in Overlap \/ ~CleaningUp
  /\ "calls" \in Overlap \/ Idle
  /\ "package" \in Overlap \/ \A t \in Threads : pc[t] # "idle" => Package(t) # p

CountCall == calls < MaxCalls /\ calls' = calls + 1

(* The first lines of InstallPackage; without an active version, or when    *)
(* its file cannot be opened, it returns.  Clients pass no older version.   *)
Install(t) ==
  /\ "install" \in Operations
  /\ pc[t] = "idle"
  /\ CountCall
  /\ \E p \in Packages, v \in Versions, force \in Forces :
       /\ MayCall(p)
       /\ \E e \in GetLatestMountedApex(p) :
            /\ Exists(e.image.file)
            /\ v >= e.image.file.ver
            /\ call' = [call EXCEPT ![t] =
                 [NoCall EXCEPT !.op = "install", !.new = Upload(p, v), !.force = force,
                                !.cur = e.image.file, !.ok = TRUE]]
  /\ Goto(t, "tempMount")
  /\ UNCHANGED <<mounted, disk, memory, mainVars, reboots, faults, history>>

(* SubmitStagedSession, as far as it mounts (VerifyPackageStagedInstall).   *)
Stage(t) ==
  /\ "stage" \in Operations
  /\ pc[t] = "idle"
  /\ CountCall
  /\ \E p \in Packages, v \in Versions :
       /\ MayCall(p)
       /\ call' = [call EXCEPT ![t] =
            [NoCall EXCEPT !.op = "stage", !.new = Upload(p, v), !.ok = TRUE]]
  /\ Goto(t, "tempMount")
  /\ UNCHANGED <<mounted, disk, memory, mainVars, reboots, faults, history>>

-----------------------------------------------------------------------------
(* RunVerifyFnInsideTempMount, and UnmountTempMount.                       *)

(* MountPackageImpl, whose result is added to the database in a later step. *)
MountImage(t, f, pt, name) ==
  \E image \in NewImages(f, name) :
    /\ MountPackageImpl(image, pt)
    /\ call' = [call EXCEPT ![t].entry = [image |-> image, point |-> pt]]

TempMount(t) ==
  LET new == call[t].new IN
  /\ pc[t] = "tempMount"
  /\ MountImage(t, new, TempPoint(new), TempName(new))
  /\ Goto(t, "tempAdd")
  /\ UNCHANGED <<db, disk, memory, mainVars, bounds, history>>

TempMountFails(t) ==
  LET new == call[t].new IN
  /\ pc[t] = "tempMount"
  /\ IF Mountable(TempPoint(new), TempName(new)) THEN Fail("mount") ELSE UNCHANGED faults
  /\ MountPackageFails(TempName(new))
  /\ Return(t)
  /\ UNCHANGED <<db, disk, memory, mainVars, calls, reboots, history>>

(* AddMountedApex, then the verification.  What a staged session mounted    *)
(* and verified stays mounted until the session is committed.              *)
TempAdd(t) ==
  /\ pc[t] = "tempAdd"
  /\ AddMountedApex(call[t].entry)
  /\ \/ /\ Goto(t, IF call[t].op = "stage" THEN "dropFind" ELSE "tempUnmount")
        /\ UNCHANGED <<call, faults>>
     \/ /\ Fail("verify")
        /\ Goto(t, "tempUnmount")
        /\ call' = [call EXCEPT ![t].ok = FALSE]
  /\ UNCHANGED <<kernel, disk, memory, mainVars, calls, reboots, history>>

AddAborts(t) ==
  /\ pc[t] \in {"tempAdd", "add"}
  /\ Duplicate(call[t].entry)
  /\ Abort

(* Unmount without deferral, whose failure is logged.                      *)
UnmountTemp(t) ==
  /\ pc[t] \in {"tempUnmount", "dropUnmount"}
  /\ \/ Unmount(call[t].entry, FALSE) /\ UNCHANGED faults
     \/ ~Deletable(call[t].entry, FALSE) /\ UnmountFails(call[t].entry) /\ UNCHANGED faults
     \/ Fail("unmountTemp") /\ UnmountFails(call[t].entry)
  /\ Goto(t, IF pc[t] = "tempUnmount" THEN "tempRemove" ELSE "dropFind")
  /\ UNCHANGED <<db, disk, memory, call, mainVars, calls, reboots, history>>

TempRemove(t) ==
  /\ pc[t] = "tempRemove"
  /\ RemoveMountedApex(call[t].new, TRUE)
  /\ IF call[t].op = "install" /\ call[t].ok
     THEN Goto(t, "minor") /\ UNCHANGED call
     ELSE Return(t)
  /\ UNCHANGED <<kernel, disk, memory, mainVars, bounds, history>>

DropFind(t) ==
  /\ pc[t] = "dropFind"
  /\ \/ \E e \in GetTempMountedApexData(Package(t)) :
          /\ call' = [call EXCEPT ![t].entry = e]
          /\ Goto(t, "dropRemove")
     \/ GetTempMountedApexData(Package(t)) = {} /\ Return(t)
  /\ UNCHANGED <<mounted, disk, memory, mainVars, bounds, history>>

DropRemove(t) ==
  /\ pc[t] = "dropRemove"
  /\ RemoveMountedApex(call[t].entry.image.file, TRUE)
  /\ Goto(t, "dropUnmount")
  /\ UNCHANGED <<kernel, disk, memory, call, mainVars, bounds, history>>

TempMounts(t) ==
  \/ TempMount(t) \/ TempMountFails(t) \/ TempAdd(t) \/ AddAborts(t) \/ UnmountTemp(t)
  \/ TempRemove(t) \/ DropFind(t) \/ DropRemove(t)

-----------------------------------------------------------------------------
(* InstallPackage: parameters, and taking the active APEX out of use.       *)

kMaxVerityDevicesPerApexName == 3

DevicesOf(p) == {d.name : d \in {x \in devices : x.name.pkg = p}}
SamePath(new, m) == new                                             \* mutant
Target(new, m) == [new EXCEPT !.minor = m]

(* ComputePackageIdMinor: above the minor of every device, and of no file.  *)
Minors(new) ==
  {m \in 1 .. MaxMinor : /\ \A d \in DevicesOf(new.pkg) : d.minor < m
                         /\ Target(new, m) \notin files}
(* mutant: however many devices there are *)
ComputeAnyPackageIdMinor(t) ==
  LET minors == Minors(call[t].new) IN
  /\ pc[t] = "minor"
  /\ \E m \in minors : /\ \A k \in minors : m <= k
                       /\ call' = [call EXCEPT ![t].minor = m]
  /\ Goto(t, "unload")
  /\ UNCHANGED <<mounted, disk, memory, mainVars, bounds, history>>

ComputePackageIdMinor(t) ==
  LET minors == Minors(call[t].new) IN
  /\ pc[t] = "minor"
  /\ \/ /\ Cardinality(DevicesOf(Package(t))) <= kMaxVerityDevicesPerApexName
        /\ \E m \in minors : /\ \A k \in minors : m <= k
                             /\ call' = [call EXCEPT ![t].minor = m]
        /\ Goto(t, "unload")
     \/ /\ Cardinality(DevicesOf(Package(t))) > kMaxVerityDevicesPerApexName
        /\ Return(t)
  /\ UNCHANGED <<mounted, disk, memory, mainVars, bounds, history>>

UnloadApexFromInit(t) ==
  /\ pc[t] = "unload"
  /\ \/ /\ loaded' = loaded \ {Package(t)}
        /\ refused' = refused \ {Package(t)}
        /\ Goto(t, "unmount")
        /\ UNCHANGED <<call, faults>>
     \/ Fail("unload") /\ Return(t) /\ UNCHANGED <<loaded, refused>>
  /\ UNCHANGED <<mounted, disk, info, mainVars, calls, reboots, accepted, aborted>>

(* An error from here on reloads the package before the call returns.       *)
ErrorReturns(t) == Return(t)                                        \* mutant
Error(t) ==
  /\ Goto(t, "reload")
  /\ call' = [call EXCEPT ![t].ok = FALSE]

(* UnmountPackage: the bind mount goes first, if the APEX is the latest.    *)
UnmountActive(t) ==
  /\ pc[t] = "unmount"
  /\ \E e \in WithPath(call[t].cur, FALSE) :
       /\ call' = [call EXCEPT ![t].entry = e]
       /\ IF e \in Latest(Package(t)) THEN Umount(ActivePoint(Package(t)), call[t].force)
                                      ELSE UNCHANGED kernel
  /\ Goto(t, "forget")
  /\ UNCHANGED <<db, disk, memory, mainVars, bounds, history>>

UnmountActiveFails(t) ==
  LET entries == WithPath(call[t].cur, FALSE) IN
  /\ pc[t] = "unmount"
  /\ \/ entries = {} /\ UNCHANGED faults
     \/ /\ entries \cap Latest(Package(t)) # {}
        /\ IF mounts[ActivePoint(Package(t))] = <<>> THEN UNCHANGED faults
                                                    ELSE Fail("unmountActive")
  /\ Error(t)
  /\ UNCHANGED <<mounted, disk, memory, mainVars, calls, reboots, history>>

Forget(t) ==
  /\ pc[t] = "forget"
  /\ RemoveMountedApex(call[t].cur, FALSE)
  /\ Goto(t, "unmountId")
  /\ UNCHANGED <<kernel, disk, memory, call, mainVars, bounds, history>>

UnmountId(t) ==
  /\ pc[t] = "unmountId"
  /\ Unmount(call[t].entry, TRUE)
  /\ Goto(t, "link")
  /\ UNCHANGED <<db, disk, memory, call, mainVars, bounds, history>>

UnmountIdFails(t) ==
  /\ pc[t] = "unmountId"
  /\ IF Deletable(call[t].entry, TRUE) THEN Fail("unmountId") ELSE UNCHANGED faults
  /\ UnmountFails(call[t].entry)
  /\ Error(t)
  /\ UNCHANGED <<db, disk, memory, mainVars, calls, reboots, history>>

Unload(t) ==
  \/ ComputePackageIdMinor(t) \/ UnloadApexFromInit(t) \/ UnmountActive(t)
  \/ UnmountActiveFails(t) \/ Forget(t) \/ UnmountId(t) \/ UnmountIdFails(t)

-----------------------------------------------------------------------------
(* InstallPackage: the new APEX, or the old one again.                     *)

Link(t) ==
  LET target == Target(call[t].new, call[t].minor) IN
  /\ pc[t] = "link"
  /\ call' = [call EXCEPT ![t].target = target]
  /\ \/ target \notin files /\ files' = files \cup {target}
        /\ \/ Goto(t, "activate") /\ UNCHANGED faults
           \/ Fail("open") /\ Goto(t, "undo")
     \/ /\ IF target \in files THEN UNCHANGED faults ELSE Fail("link")
        /\ Goto(t, "undo")
        /\ UNCHANGED files
  /\ UNCHANGED <<mounted, memory, mainVars, calls, reboots, history>>

Activating(t) == call[t].target
Undoing(t) == call[t].target = call[t].cur

(* Where ActivatePackageImpl returns to.                                   *)
Activated(t) == IF Undoing(t) THEN "reload" ELSE "accept"
ActivationFailed(t) == IF Undoing(t) THEN "reload" ELSE "undo"

(* The name of the device, from the manifest of the new APEX either way.    *)
DeviceName(t) ==
  IF ~OnData(Activating(t)) THEN NoName
  ELSE IdName(call[t].new, IF Undoing(t) THEN call[t].minor + 1 ELSE call[t].minor)

(* ActivatePackageImpl: a version that is the latest already is left alone, *)
(* one that is mounted is only bound.  The oldest entry decides.           *)
Activate(t) ==
  LET f == Activating(t)
      same == {e \in EntriesOf(f.pkg) : /\ ~IsTemp(e) /\ e.image.file.ver = f.ver
                                        /\ Exists(e.image.file)}
  IN /\ pc[t] = "activate"
     /\ Goto(t, IF same = {} THEN "mount"
                ELSE IF LeastOf(same) \cap Latest(f.pkg) # {} THEN Activated(t) ELSE "bind")
     /\ UNCHANGED <<mounted, disk, memory, call, mainVars, bounds, history>>

Mount(t) ==
  LET f == Activating(t) IN
  /\ pc[t] = "mount"
  /\ Exists(f)
  /\ MountImage(t, f, IdPoint(f), DeviceName(t))
  /\ Goto(t, "add")
  /\ UNCHANGED <<db, disk, memory, mainVars, bounds, history>>

MountFails(t) ==
  LET f == Activating(t) IN
  /\ pc[t] = "mount"
  /\ IF Exists(f) /\ Mountable(IdPoint(f), DeviceName(t))
     THEN Fail(IF Undoing(t) THEN "undo" ELSE "mount") ELSE UNCHANGED faults
  /\ MountPackageFails(DeviceName(t))
  /\ Goto(t, ActivationFailed(t))
  /\ UNCHANGED <<db, disk, memory, call, mainVars, calls, reboots, history>>

Add(t) ==
  /\ pc[t] = "add"
  /\ AddMountedApex(call[t].entry)
  /\ Goto(t, "bind")
  /\ UNCHANGED <<kernel, disk, memory, call, mainVars, bounds, history>>

(* mutant: the latest version is not bound *)
BindOlder(t) ==
  /\ pc[t] = "bind"
  /\ Goto(t, Activated(t))
  /\ UNCHANGED <<mounted, disk, memory, call, mainVars, bounds, history>>

(* DoIfLatest; it CHECKs that the package has an entry.                    *)
Bind(t) ==
  LET f == Activating(t) IN
  /\ pc[t] = "bind"
  /\ EntriesOf(f.pkg) # {}
  /\ IF \E e \in Latest(f.pkg) : e.image.file = f
     THEN \/ BindMount(f, FALSE) /\ UNCHANGED faults
          \/ mounts[ActivePoint(f.pkg)] # <<>> /\ Fail("cover") /\ BindMount(f, TRUE)
     ELSE UNCHANGED <<kernel, faults>>
  /\ Goto(t, Activated(t))
  /\ UNCHANGED <<db, disk, memory, call, mainVars, calls, reboots, history>>

BindFails(t) ==
  LET f == Activating(t) IN
  /\ pc[t] = "bind"
  /\ \E e \in Latest(f.pkg) : e.image.file = f
  /\ Fail("bind")
  /\ BindMountFails(f)
  /\ Goto(t, ActivationFailed(t))
  /\ UNCHANGED <<db, disk, memory, call, mainVars, calls, reboots, history>>

BindAborts(t) ==
  /\ pc[t] = "bind"
  /\ EntriesOf(Package(t)) = {}
  /\ Abort

(* mutant: the old APEX is not activated again *)
UndoLinkOnly(t) ==
  /\ pc[t] = "undo"
  /\ files' = files \ {call[t].target}
  /\ Error(t)
  /\ UNCHANGED <<mounted, memory, mainVars, bounds, history>>

(* The guard: unlink what was linked, activate the old APEX.               *)
Undo(t) ==
  /\ pc[t] = "undo"
  /\ \/ files' = files \ {call[t].target} /\ UNCHANGED faults
     \/ Fail("unlink") /\ UNCHANGED files
  /\ call' = [call EXCEPT ![t].target = call[t].cur, ![t].ok = FALSE]
  /\ Goto(t, "activate")
  /\ UNCHANGED <<mounted, memory, mainVars, calls, reboots, history>>

ActivateNew(t) ==
  \/ Link(t) \/ Activate(t) \/ Mount(t) \/ MountFails(t) \/ Add(t) \/ Bind(t)
  \/ BindFails(t) \/ BindAborts(t) \/ Undo(t)

-----------------------------------------------------------------------------
(* InstallPackage: the install is accepted.                                *)

Accept(t) ==
  /\ pc[t] = "accept"
  /\ \/ files' = files \ {call[t].cur} /\ UNCHANGED faults
     \/ Fail("unlinkOld") /\ UNCHANGED files
  /\ Goto(t, "collect")
  /\ UNCHANGED <<mounted, memory, call, mainVars, calls, reboots, history>>

(* UpdateApexInfoList, without a lock.                                     *)
CollectInfo(t) ==
  /\ pc[t] = "collect"
  /\ call' = [call EXCEPT ![t].list = GetActivePackages]
  /\ Goto(t, "write")
  /\ UNCHANGED <<mounted, disk, memory, mainVars, bounds, history>>

WriteInfo(t) ==
  /\ pc[t] = "write"
  /\ \/ info' = call[t].list /\ UNCHANGED faults
     \/ Fail("write") /\ UNCHANGED info
  /\ Goto(t, "reload")
  /\ UNCHANGED <<mounted, disk, loaded, call, mainVars, calls, reboots, history>>

(* LoadApexFromInit, whose failure is logged, and InstallPackage returns.   *)
(* mutant: reloaded only if it succeeded *)
ReloadIfAccepted(t) ==
  /\ pc[t] = "reload"
  /\ loaded' = IF call[t].ok THEN loaded \cup {Package(t)} ELSE loaded
  /\ Return(t)
  /\ UNCHANGED <<mounted, disk, info, mainVars, bounds, history>>

Reload(t) ==
  /\ pc[t] = "reload"
  /\ \/ loaded' = loaded \cup {Package(t)} /\ UNCHANGED <<faults, refused>>
     \/ /\ Fail("load")
        /\ refused' = refused \cup {Package(t)}
        /\ UNCHANGED loaded
  /\ accepted' = [accepted EXCEPT ![Package(t)] =
                     IF call[t].ok THEN call[t].new.ver ELSE @]
  /\ Return(t)
  /\ UNCHANGED <<mounted, disk, info, mainVars, calls, reboots, aborted>>

Finish(t) == Accept(t) \/ CollectInfo(t) \/ WriteInfo(t) \/ Reload(t)

-----------------------------------------------------------------------------

Init ==
  /\ mounts = [pt \in Points |-> <<>>]
  /\ detached = {} /\ devices = {} /\ db = {}
  /\ files = InitFiles
  /\ info = {} /\ loaded = Packages
  /\ pc = [t \in Threads |-> "idle"]
  /\ call = [t \in Threads |-> NoCall]
  /\ main = "off" /\ todo = {} /\ doomed = NoFile
  /\ calls = 0 /\ reboots = 0 /\ faults = 0
  /\ accepted = PreVersion
  /\ aborted = FALSE /\ refused = {}

Serve(t) == TempMounts(t) \/ Unload(t) \/ ActivateNew(t) \/ Finish(t)

Next ==
  \/ Boot \/ PowerLoss \/ Release \/ CleanUp
  \/ \E t \in Threads : Install(t) \/ Stage(t) \/ Serve(t)

Spec == Init /\ [][Next]_vars

FairSpec == Spec /\ WF_vars(Boot) /\ WF_vars(CleanUp) /\ \A t \in Threads : WF_vars(Serve(t))

-----------------------------------------------------------------------------
(* Properties.                                                             *)

Shown(p) == IF mounts[ActivePoint(p)] = <<>> THEN NoFile ELSE Top(ActivePoint(p)).file
Quiet == main # "off" /\ Idle

(* When no call is under way the database and the kernel agree: each        *)
(* package has one entry, what it says is mounted at its point and bound   *)
(* at /apex/name, and nothing else is mounted, but for a temporary mount   *)
(* that could not be unmounted.                                            *)
DatabaseMatchesKernel ==
  Quiet =>
    \A p \in Packages : \E e \in EntriesOf(p) :
      /\ EntriesOf(p) = {e} /\ e.point = IdPoint(e.image.file)
      /\ \A pt \in Points : pt.pkg = p =>
           \/ mounts[pt] = IF pt \in {ActivePoint(p), e.point} THEN <<e.image>> ELSE <<>>
           \/ pt.kind = "temp" /\ faults > 0

(* When no call is under way, and no process clings to an image that was    *)
(* detached, every dm-verity device is one that a mount needs, but for that *)
(* of a temporary mount whose deletion failed.                             *)
NoDeviceLeaks ==
  Quiet /\ detached = {} =>
    \A d \in devices : \/ Busy(d.name) /\ ~d.deferred
                       \/ d.name.minor = -1 /\ faults > 0

(* An install that answers success leaves the new APEX active and on disk;  *)
(* one that answers an error after it took the old one out of use has put  *)
(* it back (apexd.cpp 3885 to 3899).                                       *)
KeepsOrReplaces(t) ==
  LET c == call[t] IN
  /\ Shown(c.new.pkg) = IF c.ok THEN c.target ELSE c.cur
  /\ Exists(Shown(c.new.pkg))
InstallKeepsOrReplaces == [][\A t \in Threads : Reload(t) => KeepsOrReplaces(t)]_vars

(* Whenever power is lost, the next boot picks the version that was         *)
(* accepted last, or one whose install is under way.                       *)
BootTakesWhatWasInstalled ==
  main # "off" =>
    \A p \in Packages : \A f \in Candidates(p) :
      \/ f.ver = accepted[p]
      \/ \E t \in Threads : pc[t] \in UnloadedLabels /\ Package(t) = p
                            /\ f.ver = call[t].new.ver

(* Once the new APEX is linked, the next boot picks it up (the comment at   *)
(* apexd.cpp 3901).                                                        *)
LinkedIsPickedUp ==
  \A t \in Threads :
    pc[t] \in {"activate", "mount", "add", "bind", "accept", "collect", "write"} /\ ~Undoing(t)
      => \A f \in Candidates(Package(t)) : f.ver = call[t].target.ver

(* What apexd tells the world is active, is.                               *)
InfoListIsCurrent == Quiet => info = {Shown(p) : p \in Packages}

(* No CHECK of the database fails (apex_database.h 227 to 255).            *)
NoCheckFails == ~aborted

(* What a client was told is active (apexservice.cpp 570), is, until the    *)
(* next answer or boot.                                                    *)
AcceptedIsActive ==
  Quiet => \A p \in Packages : Shown(p) # NoFile /\ Shown(p).ver = accepted[p]

(* A package has no more dm-verity devices than ComputePackageIdMinor      *)
(* tolerates, the one it makes room for, and that of a temporary mount.    *)
DevicesAreBounded ==
  \A p \in Packages :
    Cardinality({d \in DevicesOf(p) : d.minor >= 0}) <= kMaxVerityDevicesPerApexName + 1

(* Init has a package unloaded only while an install of it is under way,    *)
(* but for one that init could not be told to load (apexd.cpp 3867).       *)
UnloadedOnlyWhileInstalling ==
  \A p \in (Packages \ loaded) \ refused :
    \E t \in Threads : pc[t] \in UnloadedLabels /\ Package(t) = p

(* After an unload init is told to load the package again, whether its      *)
(* install succeeds or not (apexd.cpp 3865): its services come back, unless *)
(* that request itself fails.                                              *)
ServicesComeBack ==
  \A p \in Packages : (p \notin loaded) ~> (p \in loaded \cup refused)
=============================================================================
