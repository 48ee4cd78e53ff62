---------------------------- MODULE MountedApexes ----------------------------
(***************************************************************************)
(* Mounted APEXes: what the kernel has mounted under /apex, the loop and   *)
(* dm-verity devices below the mounts, and apexd's database of them        *)
(* (MountedApexDatabase).  Each operator that primes variables is one step *)
(* of the code: one system call, or one critical section of the database's *)
(* mutex.  RebootlessInstall puts the steps together.                      *)
(***************************************************************************)
EXTENDS Integers, FiniteSets, Sequences

CONSTANTS
  Packages,     \* names of the pre-installed packages
  Versions,     \* version codes
  PreVersion,   \* PreVersion[p]: version of p on the built-in partition
  None,         \* no file, no device, no entry
  MaxMinor,     \* bound: minor numbers of package ids
  Loops         \* bound: numbers of loop devices

ASSUME VersionsAssumption ==
  /\ Versions \subseteq Nat \ {0}
  /\ PreVersion \in [Packages -> Versions]
  /\ MaxMinor \in Nat /\ Loops \subseteq Nat

(* An APEX file: minor -1 is the built-in one, -2 one that a client passes, *)
(* and name@ver_minor.apex in /data/apex/active the others.                *)
Files == [pkg : Packages, ver : Versions, minor : -2 .. MaxMinor]
BuiltIn(p) == [pkg |-> p, ver |-> PreVersion[p], minor |-> -1]
Upload(p, v) == [pkg |-> p, ver |-> v, minor |-> -2]
OnData(f) == f.minor >= 0

(* Names of dm-verity devices: name, name@ver_minor and name@ver.tmp.       *)
Names == [pkg : Packages, ver : Versions \cup {0}, minor : -1 .. MaxMinor + 1]
BootName(p) == [pkg |-> p, ver |-> 0, minor |-> 0]
IdName(f, m) == [pkg |-> f.pkg, ver |-> f.ver, minor |-> m]
TempName(f) == IdName(f, -1)
NoName == None                       \* built-in APEXes are mounted on the loop

(* Mount points: /apex/name, /apex/name@ver and /apex/name@ver.tmp.         *)
Points == [kind : {"active"}, pkg : Packages, ver : {0}] \cup
          [kind : {"id", "temp"}, pkg : Packages, ver : Versions]
ActivePoint(p) == [kind |-> "active", pkg |-> p, ver |-> 0]
IdPoint(f) == [kind |-> "id", pkg |-> f.pkg, ver |-> f.ver]
TempPoint(f) == [kind |-> "temp", pkg |-> f.pkg, ver |-> f.ver]

Images == [file : Files, loop : Loops, dev : Names \cup {NoName}]
Entries == [image : Images, point : Points]

ASSUME NoneAssumption == None \notin Files \cup Names \cup Entries

VARIABLES
  (* the kernel: external *)
  mounts,     \* the images mounted on each point, the last on top
  detached,   \* images unmounted with MNT_DETACH that processes still use
  devices,    \* dm-verity devices, each on its loop device
  (* gMountedApexes *)
  db

mounted == <<mounts, detached, devices, db>>

MountedTypeOK ==
  /\ mounts \in [Points -> Seq(Images)]
  /\ detached \subseteq Images
  /\ devices \subseteq [name : Names, loop : Loops, deferred : BOOLEAN]
  /\ db \subseteq Entries

-----------------------------------------------------------------------------
(* The kernel.                                                             *)

ImagesIn(ms, det) == (UNION {{ms[pt][i] : i \in DOMAIN ms[pt]} : pt \in Points}) \cup det
Uses(ms, det, name) == \E m \in ImagesIn(ms, det) : m.dev = name
Busy(name) == Uses(mounts, detached, name)

Named(name) == {d \in devices : d.name = name}

(* A device whose removal was deferred goes with its last mount.            *)
Settled(ms, det, ds) == {d \in ds : d.deferred => Uses(ms, det, d.name)}

(* Loop devices are set up with LO_FLAGS_AUTOCLEAR: they are free again as  *)
(* soon as nothing has them open.  LOOP_CTL_GET_FREE gives the lowest.     *)
LoopsInUse == {d.loop : d \in devices} \cup {m.loop : m \in ImagesIn(mounts, detached)}
FreeLoops ==
  {l \in Loops \ LoopsInUse : \A k \in Loops : k < l => k \in LoopsInUse}

Top(pt) == mounts[pt][Len(mounts[pt])]
Popped(pt) == [mounts EXCEPT ![pt] = SubSeq(@, 1, Len(@) - 1)]
Under(pt) == IF mounts[pt] = <<>> THEN mounts ELSE Popped(pt)

(* umount2(pt); with MNT_DETACH it succeeds though processes use the mount. *)
Umount(pt, detach) ==
  /\ mounts[pt] # <<>>
  /\ mounts' = Popped(pt)
  /\ detached' \in {detached} \cup (IF detach THEN {detached \cup {Top(pt)}} ELSE {})
  /\ devices' = Settled(mounts', detached', devices)

ReleaseDetached ==
  /\ \E m \in detached : detached' = detached \ {m}
  /\ devices' = Settled(mounts, detached', devices)
  /\ UNCHANGED <<mounts, db>>

-----------------------------------------------------------------------------
(* MountPackageImpl.  The mount point must be empty; a dm-verity device     *)
(* that has the name already is deleted, which fails when it is mounted.   *)
(* What fails undoes what came before, but for that deletion.              *)

Mountable(pt, name) == mounts[pt] = <<>> /\ ~(Named(name) # {} /\ Busy(name))
NewImages(f, name) == {[file |-> f, loop |-> l, dev |-> name] : l \in FreeLoops}

MountPackageImpl(image, pt) ==
  LET name == image.dev IN
  /\ Mountable(pt, name)
  /\ mounts' = [mounts EXCEPT ![pt] = <<image>>]
  /\ devices' = (devices \ Named(name)) \cup
                  (IF name = NoName THEN {}
                   ELSE {[name |-> name, loop |-> image.loop, deferred |-> FALSE]})
  /\ UNCHANGED detached

MountPackageFails(name) ==
  /\ devices' \in {devices, IF Busy(name) THEN devices ELSE devices \ Named(name)}
  /\ UNCHANGED <<mounts, detached>>

-----------------------------------------------------------------------------
(* Unmount: nothing mounted is no error.  The device is deleted, or, when   *)
(* deferred, marked to go with its last mount.                             *)

Deletable(e, deferred) ==
  LET dev == e.image.dev IN
  \/ dev = NoName
  \/ Named(dev) # {} /\ (deferred \/ ~Uses(Under(e.point), detached, dev))

(* mutant: the device is not deleted *)
UnmountOnly(e, deferred) ==
  /\ mounts' = Under(e.point)
  /\ devices' = Settled(mounts', detached, devices)
  /\ UNCHANGED detached

Unmount(e, deferred) ==
  /\ Deletable(e, deferred)
  /\ mounts' = Under(e.point)
  /\ devices' = Settled(mounts', detached,
       {IF d.name = e.image.dev THEN [d EXCEPT !.deferred = TRUE] ELSE d : d \in devices})
  /\ UNCHANGED detached

(* The mount or only the device is left behind.                            *)
UnmountFails(e) ==
  /\ mounts' \in {mounts, Under(e.point)}
  /\ devices' = Settled(mounts', detached, devices)
  /\ UNCHANGED detached

-----------------------------------------------------------------------------
(* MountedApexDatabase: each package's set is ordered by version, then by   *)
(* the name of the loop device.                                            *)

IsTemp(e) == e.point.kind = "temp"
AllEntries(p) == db                                                 \* mutant
EntriesOf(p) == {e \in db : e.image.file.pkg = p}
Less(e, g) ==
  \/ e.image.file.ver < g.image.file.ver
  \/ e.image.file.ver = g.image.file.ver /\ e.image.loop < g.image.loop
GreatestOf(S) == {e \in S : \A g \in S : ~Less(e, g)}
LeastOf(S) == {e \in S : \A g \in S : ~Less(g, e)}

(* What an iteration passes "latest" for: the greatest, temporary mounts    *)
(* included; an iteration over the others then passes it for none.         *)
Latest(p) == GreatestOf(EntriesOf(p))
GetLatestMountedApex(p) == {e \in Latest(p) : ~IsTemp(e)}

WithPath(f, temp) == {e \in EntriesOf(f.pkg) : e.image.file = f /\ IsTemp(e) = temp}
KeepMountedApex(f, temp) == db' = db                                \* mutant
RemoveMountedApex(f, temp) == db' = db \ LeastOf(WithPath(f, temp))

(* CheckUniqueLoopDm, and the CHECK that the entry is new.                  *)
Duplicate(e) ==
  \E g \in db : \/ g.image.loop = e.image.loop
                \/ e.image.dev # NoName /\ g.image.dev = e.image.dev
AddMountedApex(e) == ~Duplicate(e) /\ db' = db \cup {e}

GetTempMountedApexData(p) == GreatestOf({e \in EntriesOf(p) : IsTemp(e)})
IsMounted(f) == \E e \in db : ~IsTemp(e) /\ e.image.file = f

(* BindMount, which DoIfLatest runs: what is bound is replaced; when it     *)
(* cannot be unmounted, it is covered.  Binding an empty directory shows    *)
(* nothing.                                                                *)
BindMount(f, covering) ==
  LET pt == ActivePoint(f.pkg)
      base == IF covering THEN mounts ELSE Under(pt)
  IN /\ mounts' = [base EXCEPT ![pt] = @ \o mounts[IdPoint(f)]]
     /\ devices' = Settled(mounts', detached, devices)
     /\ UNCHANGED detached

BindMountFails(f) ==
  /\ mounts' = Under(ActivePoint(f.pkg))
  /\ devices' = Settled(mounts', detached, devices)
  /\ UNCHANGED detached
=============================================================================
