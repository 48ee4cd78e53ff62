------------------------- MODULE RebootlessAlone_proofs -------------------------
(* What else InstallPackage keeps, for every value of the constants: the    *)
(* dm-verity devices of a package stay few; and when calls do not overlap   *)
(* at all, no CHECK fails and apex-info-list.xml is current.                *)
EXTENDS RebootlessSafety_proofs

-----------------------------------------------------------------------------
(* Devices.                                                                *)

(* The devices of activated APEXes, those that wait to be removed included. *)
Numbered(p) == {d \in DevicesOf(p) : d.minor >= 0}

(* From the check in ComputePackageIdMinor until the new APEX is mounted    *)
(* there is room for one more.                                             *)
RoomLabels == {"unload", "unmount", "forget", "unmountId", "link", "activate", "mount", "undo"}

RoomInv ==
  \A p \in Packages :
    /\ IsFiniteSet(DevicesOf(p))
    /\ Cardinality(Numbered(p)) <= kMaxVerityDevicesPerApexName + 1
    /\ \A t \in Threads : Attends(t, p) /\ pc[t] \in RoomLabels =>
         Cardinality(Numbered(p)) <= kMaxVerityDevicesPerApexName

NoNewNames == \A d \in devices' : \E b \in devices : b.name = d.name

LEMMA KernelNames ==
  ASSUME TypeInv
  PROVE  /\ devices' = devices => NoNewNames
         /\ \A pt, detach : Umount(pt, detach) => NoNewNames
         /\ ReleaseDetached => NoNewNames
         /\ \A name : MountPackageFails(name) => NoNewNames
         /\ \A e, deferred : Unmount(e, deferred) => NoNewNames
         /\ \A e : UnmountFails(e) => NoNewNames
         /\ \A f, covering : BindMount(f, covering) => NoNewNames
<1>1. \A ms, det : devices' = Settled(ms, det, devices) => NoNewNames
  BY DEF Settled, NoNewNames
<1>2. \A name : MountPackageFails(name) => NoNewNames
  BY DEF MountPackageFails, NoNewNames
<1>3. ASSUME NEW e, NEW deferred, Unmount(e, deferred)
      PROVE  NoNewNames
  <2> DEFINE marked == {IF d.name = e.image.dev THEN [d EXCEPT !.deferred = TRUE] ELSE d : d \in devices}
  <2>1. \A d \in marked : \E b \in devices : b.name = d.name
    <3>1. \A d \in devices : [d EXCEPT !.deferred = TRUE].name = d.name
      BY DeviceTypes
    <3> QED
      BY <3>1
  <2>2. devices' = Settled(mounts', detached, marked)
    BY <1>3 DEF Unmount
  <2> HIDE DEF marked
  <2> QED
    BY <2>1, <2>2 DEF Settled, NoNewNames
<1>4. devices' = devices => NoNewNames
  BY DEF NoNewNames
<1>5. \A pt, detach : Umount(pt, detach) => NoNewNames
  BY <1>1 DEF Umount
<1>6. ReleaseDetached => NoNewNames
  BY <1>1 DEF ReleaseDetached
<1>7. \A e : UnmountFails(e) => NoNewNames
  BY <1>1 DEF UnmountFails
<1>8. \A f, covering : BindMount(f, covering) => NoNewNames
  BY <1>1 DEF BindMount
<1> QED
  BY <1>2, <1>3, <1>4, <1>5, <1>6, <1>7, <1>8

(* The devices of a package, when at most one comes to them.                *)
LEMMA NamesAre ==
  ASSUME NEW p
  PROVE  /\ NoNewNames => DevicesOf(p)' \subseteq DevicesOf(p)
         /\ \A image, pt : MountPackageImpl(image, pt) =>
              DevicesOf(p)' \subseteq
                DevicesOf(p) \cup {n \in {image.dev} : n # NoName /\ n.pkg = p}
<1>1. \A n : n \in DevicesOf(p) <=> \E d \in devices : d.name = n /\ n.pkg = p
  BY DEF DevicesOf
<1>2. \A n : n \in DevicesOf(p)' <=> \E d \in devices' : d.name = n /\ n.pkg = p
  BY DEF DevicesOf
<1>3. NoNewNames => DevicesOf(p)' \subseteq DevicesOf(p)
  BY <1>1, <1>2 DEF NoNewNames
<1>4. ASSUME NEW image, NEW pt, MountPackageImpl(image, pt)
      PROVE  DevicesOf(p)' \subseteq DevicesOf(p) \cup {n \in {image.dev} : n # NoName /\ n.pkg = p}
  <2>1. \A d \in devices' : d \in devices \/ (d.name = image.dev /\ image.dev # NoName)
    BY <1>4 DEF MountPackageImpl
  <2> QED
    BY <1>1, <1>2, <2>1
<1> QED
  BY <1>3, <1>4

LEMMA NumberedFinite ==
  ASSUME NEW p, IsFiniteSet(DevicesOf(p))
  PROVE  /\ IsFiniteSet(Numbered(p)) /\ Cardinality(Numbered(p)) \in Nat
         /\ Cardinality(Numbered(p)) <= Cardinality(DevicesOf(p))
         /\ Cardinality(DevicesOf(p)) \in Nat
<1>1. Numbered(p) \subseteq DevicesOf(p)
  BY DEF Numbered
<1> QED
  BY <1>1, FS_Subset, FS_CardinalityType

LEMMA FewerNumbered ==
  ASSUME NEW p, IsFiniteSet(DevicesOf(p)), IsFiniteSet(DevicesOf(p)'),
         Numbered(p)' \subseteq Numbered(p)
  PROVE  /\ Cardinality(Numbered(p))' <= Cardinality(Numbered(p))
         /\ Cardinality(Numbered(p)) \in Nat /\ Cardinality(Numbered(p))' \in Nat
<1>1. IsFiniteSet(Numbered(p))
  BY NumberedFinite
<1>2. IsFiniteSet(Numbered(p)') /\ Cardinality(Numbered(p)') <= Cardinality(Numbered(p))
  BY <1>1, FS_Subset
<1>3. Cardinality(Numbered(p)) \in Nat /\ Cardinality(Numbered(p)') \in Nat
  BY <1>1, <1>2, FS_CardinalityType
<1> QED
  BY <1>2, <1>3

(* Steps of one call that bring no numbered device.                         *)
LEMMA RoomStep ==
  ASSUME RoomInv, NEW t \in Threads,
         \A q \in Packages : /\ \E n : DevicesOf(q)' \subseteq DevicesOf(q) \cup {n}
                             /\ Numbered(q)' \subseteq Numbered(q),
         \A u \in Threads : u # t => pc'[u] = pc[u] /\ Package(u)' = Package(u),
         pc'[t] \in RoomLabels =>
           /\ Package(t)' = Package(t)
           /\ \/ pc[t] \in RoomLabels
              \/ Cardinality(Numbered(Package(t))) <= kMaxVerityDevicesPerApexName
  PROVE  RoomInv'
<1> SUFFICES ASSUME NEW p \in Packages
             PROVE  /\ IsFiniteSet(DevicesOf(p)')
                    /\ Cardinality(Numbered(p))' <= kMaxVerityDevicesPerApexName + 1
                    /\ \A u \in Threads : Attends(u, p)' /\ pc'[u] \in RoomLabels =>
                         Cardinality(Numbered(p))' <= kMaxVerityDevicesPerApexName
  BY DEF RoomInv
<1>1. IsFiniteSet(DevicesOf(p)')
  <2>1. PICK n : DevicesOf(p)' \subseteq DevicesOf(p) \cup {n}
    OBVIOUS
  <2>2. IsFiniteSet(DevicesOf(p) \cup {n})
    BY FS_AddElement DEF RoomInv
  <2> QED
    BY <2>1, <2>2, FS_Subset
<1>2. /\ Cardinality(Numbered(p))' <= Cardinality(Numbered(p))
      /\ Cardinality(Numbered(p)) \in Nat /\ Cardinality(Numbered(p))' \in Nat
  BY <1>1, FewerNumbered DEF RoomInv
<1>3. Cardinality(Numbered(p))' <= kMaxVerityDevicesPerApexName + 1
  BY <1>2 DEF RoomInv, kMaxVerityDevicesPerApexName
<1>4. ASSUME NEW u \in Threads, Attends(u, p)', pc'[u] \in RoomLabels
      PROVE  Cardinality(Numbered(p))' <= kMaxVerityDevicesPerApexName
  <2>1. (Attends(u, p) /\ pc[u] \in RoomLabels) \/ Cardinality(Numbered(p)) <= kMaxVerityDevicesPerApexName
    BY <1>4 DEF Attends, RoomLabels
  <2>2. Cardinality(Numbered(p)) <= kMaxVerityDevicesPerApexName
    BY <2>1 DEF RoomInv
  <2> QED
    BY <1>2, <2>2 DEF kMaxVerityDevicesPerApexName
<1> QED
  BY <1>1, <1>3, <1>4

LEMMA RoomStepSame ==
  ASSUME RoomInv, NEW t \in Threads, NoNewNames,
         \A u \in Threads : u # t => pc'[u] = pc[u] /\ Package(u)' = Package(u),
         pc'[t] \in RoomLabels =>
           /\ Package(t)' = Package(t)
           /\ \/ pc[t] \in RoomLabels
              \/ Cardinality(Numbered(Package(t))) <= kMaxVerityDevicesPerApexName
  PROVE  RoomInv'
<1>1. \A q \in Packages : DevicesOf(q)' \subseteq DevicesOf(q)
  BY NamesAre
<1>2. \A q \in Packages : Numbered(q)' \subseteq Numbered(q)
  BY <1>1 DEF Numbered
<1>3. \A q \in Packages : \E n : DevicesOf(q)' \subseteq DevicesOf(q) \cup {n}
  BY <1>1
<1> QED
  BY <1>2, <1>3, RoomStep

LEMMA RoomPowerOff == PowerOff => RoomInv'
<1> SUFFICES ASSUME PowerOff, NEW p \in Packages
             PROVE  /\ IsFiniteSet(DevicesOf(p)')
                    /\ Cardinality(Numbered(p))' <= kMaxVerityDevicesPerApexName + 1
                    /\ \A u \in Threads : ~Attends(u, p)'
  BY DEF RoomInv
<1>1. DevicesOf(p)' = {} /\ Numbered(p)' = {}
  BY DEF PowerOff, DevicesOf, Numbered
<1>2. \A u \in Threads : ~Attends(u, p)'
  BY DEF PowerOff, Attends
<1> QED
  BY <1>1, <1>2, FS_EmptySet DEF kMaxVerityDevicesPerApexName

(* A step of a call changes what it knows, and not which APEX it installs.  *)
Stays(t, labels) ==
  /\ \A u \in Threads : u # t => pc'[u] = pc[u] /\ Package(u)' = Package(u)
  /\ pc'[t] \in labels
  /\ pc'[t] # "idle" => Package(t)' = Package(t)

LEMMA TempStays ==
  ASSUME TypeInv, NEW t \in Threads, TempMounts(t), ~AddAborts(t)
  PROVE  Stays(t, TempLabels \cup {"idle", "minor"})
<1> USE DEF Stays, TypeInv, TypeOK, CallType, Package, Goto, Return, TempLabels
<1>1. TempMount(t) => Stays(t, TempLabels \cup {"idle", "minor"})
  BY DEF TempMount, MountImage
<1>2. TempMountFails(t) \/ TempRemove(t) => Stays(t, TempLabels \cup {"idle", "minor"})
  BY DEF TempMountFails, TempRemove
<1>3. TempAdd(t) \/ UnmountTemp(t) => Stays(t, TempLabels \cup {"idle", "minor"})
  BY DEF TempAdd, UnmountTemp
<1>4. DropFind(t) \/ DropRemove(t) => Stays(t, TempLabels \cup {"idle", "minor"})
  BY DEF DropFind, DropRemove
<1> QED
  BY <1>1, <1>2, <1>3, <1>4 DEF TempMounts

LEMMA UnloadStays ==
  ASSUME TypeInv, NEW t \in Threads, Unload(t)
  PROVE  /\ Stays(t, RoomLabels \cup {"idle", "reload"})
         /\ pc[t] \in RoomLabels \/ ComputePackageIdMinor(t)
<1> USE DEF Stays, TypeInv, TypeOK, CallType, Package, Goto, Return, Error, RoomLabels
<1>1. ComputePackageIdMinor(t) => Stays(t, RoomLabels \cup {"idle", "reload"})
  BY DEF ComputePackageIdMinor
<1>2. UnloadApexFromInit(t) \/ Forget(t) => Stays(t, RoomLabels \cup {"idle", "reload"})
  BY DEF UnloadApexFromInit, Forget
<1>3. UnmountActive(t) => Stays(t, RoomLabels \cup {"idle", "reload"})
  BY DEF UnmountActive
<1>4. UnmountActiveFails(t) \/ UnmountId(t) \/ UnmountIdFails(t) =>
        Stays(t, RoomLabels \cup {"idle", "reload"})
  BY DEF UnmountActiveFails, UnmountId, UnmountIdFails
<1>5. pc[t] \in RoomLabels \/ ComputePackageIdMinor(t)
  BY DEF Unload, UnloadApexFromInit, UnmountActive, UnmountActiveFails, Forget, UnmountId, UnmountIdFails
<1> QED
  BY <1>1, <1>2, <1>3, <1>4, <1>5 DEF Unload

(* Where the activation of an APEX leads to.                                *)
LEMMA ActivateStays ==
  ASSUME TypeInv, NEW t \in Threads, ActivateNew(t), ~BindAborts(t), ~BindFails(t)
  PROVE  /\ Stays(t, UnloadedLabels)
         /\ pc'[t] \in RoomLabels => pc[t] \in RoomLabels
<1> USE DEF Stays, TypeInv, TypeOK, CallType, Package, Goto, Return, Error, RoomLabels, UnloadedLabels
<1>1. Link(t) \/ Undo(t) => Stays(t, UnloadedLabels) /\ (pc'[t] \in RoomLabels => pc[t] \in RoomLabels)
  BY DEF Link, Undo
<1>2. Activate(t) \/ MountFails(t) =>
        Stays(t, UnloadedLabels) /\ (pc'[t] \in RoomLabels => pc[t] \in RoomLabels)
  BY DEF Activate, Activated, ActivationFailed, MountFails
<1>3. Mount(t) => Stays(t, UnloadedLabels) /\ (pc'[t] \in RoomLabels => pc[t] \in RoomLabels)
  BY DEF Mount, MountImage
<1>4. Add(t) \/ Bind(t) => Stays(t, UnloadedLabels) /\ (pc'[t] \in RoomLabels => pc[t] \in RoomLabels)
  BY DEF Add, Bind, Activated
<1> QED
  BY <1>1, <1>2, <1>3, <1>4 DEF ActivateNew

LEMMA FinishStays ==
  ASSUME TypeInv, NEW t \in Threads, Finish(t)
  PROVE  Stays(t, {"collect", "write", "reload", "idle"})
BY DEF Stays, TypeInv, TypeOK, CallType, Package, Goto, Return, Finish, Accept, CollectInfo, WriteInfo, Reload

LEMMA RoomTemp ==
  ASSUME TypeInv, RoomInv, NEW t \in Threads, TempMounts(t)
  PROVE  RoomInv'
<1>1. CASE AddAborts(t)
  BY <1>1, RoomPowerOff DEF AddAborts, Abort
<1>2. CASE ~AddAborts(t)
  <2>1. /\ \A u \in Threads : u # t => pc'[u] = pc[u] /\ Package(u)' = Package(u)
        /\ pc'[t] \notin RoomLabels
    BY <1>2, TempStays DEF Stays, RoomLabels, TempLabels
  <2>2. CASE TempMount(t)
    <3>1. PICK image : /\ image.dev = TempName(call[t].new)
                       /\ MountPackageImpl(image, TempPoint(call[t].new))
      BY <2>2 DEF TempMount, MountImage, NewImages
    <3>2. image.dev.minor = -1
      BY <3>1 DEF TempName, IdName
    <3>3. \A q \in Packages : DevicesOf(q)' \subseteq DevicesOf(q) \cup {image.dev}
      BY <3>1, NamesAre
    <3>4. \A q \in Packages : Numbered(q)' \subseteq Numbered(q)
      BY <3>2, <3>3 DEF Numbered
    <3> QED
      BY <2>1, <3>3, <3>4, RoomStep
  <2>3. CASE ~TempMount(t)
    <3>1. NoNewNames
      BY <1>2, <2>3, KernelNames
         DEF TempMounts, TempMountFails, TempAdd, UnmountTemp, TempRemove, DropFind, DropRemove,
             mounted, kernel
    <3> QED
      BY <2>1, <3>1, RoomStepSame
  <2> QED
    BY <2>2, <2>3
<1> QED
  BY <1>1, <1>2

(* ComputePackageIdMinor goes on only if there is room.                     *)
LEMMA RoomUnload ==
  ASSUME TypeInv, RoomInv, NEW t \in Threads, Unload(t)
  PROVE  RoomInv'
<1>1. NoNewNames
  <2>1. ComputePackageIdMinor(t) \/ UnloadApexFromInit(t) \/ Forget(t) \/ UnmountActiveFails(t)
          => devices' = devices
    BY DEF ComputePackageIdMinor, UnloadApexFromInit, Forget, UnmountActiveFails, mounted, kernel
  <2>2. UnmountActive(t) => devices' = devices \/ \E pt, detach : Umount(pt, detach)
    BY DEF UnmountActive, kernel
  <2>3. UnmountId(t) => \E e : Unmount(e, TRUE)
    BY DEF UnmountId
  <2>4. UnmountIdFails(t) => \E e : UnmountFails(e)
    BY DEF UnmountIdFails
  <2> QED
    BY <2>1, <2>2, <2>3, <2>4, KernelNames DEF Unload
<1>2. Stays(t, RoomLabels \cup {"idle", "reload"}) /\ (pc[t] \in RoomLabels \/ ComputePackageIdMinor(t))
  BY UnloadStays
<1>3. ASSUME ComputePackageIdMinor(t), pc'[t] \in RoomLabels
      PROVE  Cardinality(Numbered(Package(t))) <= kMaxVerityDevicesPerApexName
  <2>1. Cardinality(DevicesOf(Package(t))) <= kMaxVerityDevicesPerApexName
    BY <1>3 DEF ComputePackageIdMinor, Return, RoomLabels, TypeInv, TypeOK
  <2>2. Package(t) \in Packages
    <3>1. pc[t] = "minor" /\ KnownAt(pc[t], call[t])
      BY <1>3 DEF ComputePackageIdMinor, TypeInv
    <3> QED
      BY <3>1, FileTypes DEF KnownAt, Package
  <2> QED
    BY <2>1, <2>2, NumberedFinite DEF RoomInv, kMaxVerityDevicesPerApexName
<1>4. pc'[t] # "idle" => Package(t)' = Package(t)
  BY <1>2 DEF Stays
<1>5. pc'[t] \in RoomLabels => pc'[t] # "idle"
  BY DEF RoomLabels
<1> QED
  BY <1>1, <1>2, <1>3, <1>4, <1>5, RoomStepSame DEF Stays

(* The one device that the others make room for.                            *)
LEMMA RoomMount ==
  ASSUME TypeInv, SafeInv, RoomInv, NEW t \in Threads, Mount(t)
  PROVE  RoomInv'
<1>1. /\ pc[t] = "mount" /\ pc'[t] = "add" /\ Stays(t, UnloadedLabels)
      /\ KnownAt(pc[t], call[t]) /\ call[t].new \in Files /\ Package(t) \in Packages
  <2>1. pc[t] = "mount" /\ pc'[t] = "add"
    BY DEF Mount, Goto, TypeInv, TypeOK
  <2>2. Stays(t, UnloadedLabels)
    BY <2>1, ActivateStays DEF ActivateNew, Mount, BindAborts, BindFails
  <2> QED
    BY <2>1, <2>2, CallFacts
<1>2. PICK p : p = Package(t)
  OBVIOUS
<1>3. PICK image : image.dev = DeviceName(t) /\ \E pt : MountPackageImpl(image, pt)
  BY DEF Mount, MountImage, NewImages
<1>4. image.dev # NoName => image.dev.pkg = p
  BY <1>2, <1>3 DEF DeviceName, IdName, Package
<1>5. \A q \in Packages : DevicesOf(q)' \subseteq
                            DevicesOf(q) \cup {n \in {image.dev} : n # NoName /\ n.pkg = q}
  BY <1>3, NamesAre
<1>6. ASSUME NEW q \in Packages
      PROVE  /\ IsFiniteSet(DevicesOf(q)')
             /\ Cardinality(Numbered(q))' <= kMaxVerityDevicesPerApexName + 1
             /\ \A u \in Threads : Attends(u, q)' /\ pc'[u] \in RoomLabels =>
                  Cardinality(Numbered(q))' <= kMaxVerityDevicesPerApexName
  <2>1. IsFiniteSet(DevicesOf(q)')
    <3>1. IsFiniteSet(DevicesOf(q) \cup {image.dev})
      BY FS_AddElement DEF RoomInv
    <3>2. DevicesOf(q)' \subseteq DevicesOf(q) \cup {image.dev}
      BY <1>5
    <3> QED
      BY <3>1, <3>2, FS_Subset
  <2>2. IsFiniteSet(Numbered(q)) /\ Cardinality(Numbered(q)) \in Nat
    BY NumberedFinite DEF RoomInv
  <2>3. CASE q = p
    <3>1. Cardinality(Numbered(q)) <= kMaxVerityDevicesPerApexName
      BY <1>1, <1>2, <2>3 DEF RoomInv, Attends, RoomLabels
    <3>2. Numbered(q)' \subseteq Numbered(q) \cup {image.dev}
      BY <1>5 DEF Numbered
    <3>3. /\ IsFiniteSet(Numbered(q) \cup {image.dev})
          /\ Cardinality(Numbered(q) \cup {image.dev}) <= Cardinality(Numbered(q)) + 1
      <4>1. PICK k \in Nat : k = Cardinality(Numbered(q))
        BY <2>2
      <4>2. /\ IsFiniteSet(Numbered(q) \cup {image.dev})
            /\ Cardinality(Numbered(q) \cup {image.dev}) \in {k, k + 1}
        BY <2>2, <4>1, FS_AddElement
      <4> QED
        BY <4>1, <4>2
    <3>4. /\ Cardinality(Numbered(q)') <= Cardinality(Numbered(q) \cup {image.dev})
          /\ Cardinality(Numbered(q)') \in Nat
          /\ Cardinality(Numbered(q) \cup {image.dev}) \in Nat
      BY <3>2, <3>3, FS_Subset, FS_CardinalityType
    <3>5. Cardinality(Numbered(q))' <= kMaxVerityDevicesPerApexName + 1
      BY <2>2, <3>1, <3>3, <3>4 DEF kMaxVerityDevicesPerApexName
    <3>6. \A u \in Threads : ~(Attends(u, q)' /\ pc'[u] \in RoomLabels)
      <4>1. \A u \in Threads : u # t => ~Attends(u, q)
        BY <1>1, <1>2, <2>3 DEF SafeInv, TurnInv, Attends
      <4>2. \A u \in Threads : u # t => ~Attends(u, q)'
        BY <1>1, <4>1 DEF Attends, Stays
      <4> QED
        BY <1>1, <4>2 DEF RoomLabels
    <3> QED
      BY <2>1, <3>5, <3>6
  <2>4. CASE q # p
    <3>1. DevicesOf(q)' \subseteq DevicesOf(q)
      BY <1>4, <1>5, <2>4
    <3>2. Numbered(q)' \subseteq Numbered(q)
      BY <3>1 DEF Numbered
    <3>3. /\ Cardinality(Numbered(q))' <= Cardinality(Numbered(q))
          /\ Cardinality(Numbered(q))' \in Nat
      BY <2>1, <3>2, FewerNumbered DEF RoomInv
    <3>4. \A u \in Threads : Attends(u, q)' /\ pc'[u] \in RoomLabels =>
            Attends(u, q) /\ pc[u] \in RoomLabels
      BY <1>1, <1>2, <2>4 DEF Attends, Stays, RoomLabels
    <3> QED
      BY <2>1, <2>2, <3>3, <3>4 DEF RoomInv, kMaxVerityDevicesPerApexName
  <2> QED
    BY <2>3, <2>4
<1> QED
  BY <1>6 DEF RoomInv

LEMMA RoomActivate ==
  ASSUME TypeInv, SafeInv, RoomInv, Recoverable, NEW t \in Threads, ActivateNew(t)
  PROVE  RoomInv'
<1>1. CASE BindAborts(t)
  BY <1>1, RoomPowerOff DEF BindAborts, Abort
<1>2. CASE Mount(t)
  BY <1>2, RoomMount
<1>3. CASE ~BindAborts(t) /\ ~Mount(t)
  <2>1. ~BindFails(t)
    BY BindFailsNot
  <2>2. Stays(t, UnloadedLabels) /\ (pc'[t] \in RoomLabels => pc[t] \in RoomLabels)
    BY <1>3, <2>1, ActivateStays
  <2>3. NoNewNames
    <3>1. Link(t) \/ Activate(t) \/ Add(t) \/ Undo(t) => devices' = devices
      BY DEF Link, Activate, Add, Undo, mounted, kernel
    <3>2. MountFails(t) => \E name : MountPackageFails(name)
      BY DEF MountFails
    <3>3. Bind(t) => devices' = devices \/ \E f, covering : BindMount(f, covering)
      BY DEF Bind, kernel
    <3> QED
      BY <1>3, <2>1, <3>1, <3>2, <3>3, KernelNames DEF ActivateNew
  <2>4. pc'[t] # "idle"
    BY <2>2 DEF Stays, UnloadedLabels
  <2> QED
    BY <2>2, <2>3, <2>4, RoomStepSame DEF Stays
<1> QED
  BY <1>1, <1>2, <1>3

LEMMA RoomBoot ==
  ASSUME TypeInv, Boot
  PROVE  RoomInv'
<1> SUFFICES ASSUME NEW p \in Packages
             PROVE  /\ IsFiniteSet(DevicesOf(p)')
                    /\ Cardinality(Numbered(p))' \in Nat
                    /\ Cardinality(Numbered(p))' <= kMaxVerityDevicesPerApexName
  BY DEF RoomInv, kMaxVerityDevicesPerApexName
<1>1. DevicesOf(p)' \subseteq {BootName(p)} /\ Numbered(p)' \subseteq {BootName(p)}
  <2>1. \A d \in devices' : \E q \in Packages : d.name = BootName(q)
    BY DEF Boot
  <2>2. \A q : BootName(q).pkg = q
    BY DEF BootName
  <2> QED
    BY <2>1, <2>2 DEF DevicesOf, Numbered
<1>2. IsFiniteSet({BootName(p)}) /\ Cardinality({BootName(p)}) = 1
  BY FS_Singleton
<1>3. /\ IsFiniteSet(DevicesOf(p)') /\ IsFiniteSet(Numbered(p)')
      /\ Cardinality(Numbered(p)') <= 1 /\ Cardinality(Numbered(p)') \in Nat
  BY <1>1, <1>2, FS_Subset, FS_CardinalityType
<1> QED
  BY <1>3 DEF kMaxVerityDevicesPerApexName

LEMMA RoomInit == Init => RoomInv
<1> SUFFICES ASSUME Init, NEW p \in Packages
             PROVE  /\ IsFiniteSet(DevicesOf(p))
                    /\ Cardinality(Numbered(p)) <= kMaxVerityDevicesPerApexName + 1
                    /\ \A t \in Threads : ~Attends(t, p)
  BY DEF RoomInv
<1>1. DevicesOf(p) = {} /\ Numbered(p) = {}
  BY DEF Init, DevicesOf, Numbered
<1>2. \A t \in Threads : ~Attends(t, p)
  BY DEF Init, Attends
<1> QED
  BY <1>1, <1>2, FS_EmptySet DEF kMaxVerityDevicesPerApexName

(* Where no device and no label matters.                                    *)
LEMMA RoomIdle ==
  ASSUME RoomInv, NoNewNames,
         \A u \in Threads : pc'[u] = pc[u] /\ Package(u)' = Package(u)
  PROVE  RoomInv'
<1>1. \A q \in Packages : DevicesOf(q)' \subseteq DevicesOf(q)
  BY NamesAre
<1> SUFFICES ASSUME NEW p \in Packages
             PROVE  /\ IsFiniteSet(DevicesOf(p)')
                    /\ Cardinality(Numbered(p))' <= kMaxVerityDevicesPerApexName + 1
                    /\ \A u \in Threads : Attends(u, p)' /\ pc'[u] \in RoomLabels =>
                         Cardinality(Numbered(p))' <= kMaxVerityDevicesPerApexName
  BY DEF RoomInv
<1>2. IsFiniteSet(DevicesOf(p)) /\ IsFiniteSet(DevicesOf(p)')
  BY <1>1, FS_Subset DEF RoomInv
<1>3. Numbered(p)' \subseteq Numbered(p)
  BY <1>1 DEF Numbered
<1>4. /\ Cardinality(Numbered(p))' <= Cardinality(Numbered(p))
      /\ Cardinality(Numbered(p)) \in Nat /\ Cardinality(Numbered(p))' \in Nat
  BY <1>2, <1>3, FewerNumbered
<1>5. \A u \in Threads : Attends(u, p)' <=> Attends(u, p)
  BY DEF Attends
<1> QED
  BY <1>2, <1>4, <1>5 DEF RoomInv, kMaxVerityDevicesPerApexName

LEMMA RoomNext ==
  ASSUME Recoverable, TypeInv, SafeInv, RoomInv, [Next]_vars
  PROVE  RoomInv'
<1> USE DEF mounted, kernel, disk, memory, mainVars, bounds, history
<1>1. CASE Boot
  BY <1>1, RoomBoot
<1>2. CASE PowerLoss
  BY <1>2, RoomPowerOff DEF PowerLoss
<1>3. CASE Release \/ CleanUp
  <2>1. NoNewNames
    BY <1>3, KernelNames DEF Release, CleanUp, ScanFiles, CheckFile, UnlinkInactive, CleanedUp
  <2>2. pc' = pc /\ call' = call
    BY <1>3 DEF Release, CleanUp, ScanFiles, CheckFile, UnlinkInactive, CleanedUp
  <2> QED
    BY <2>1, <2>2, RoomIdle DEF Package
<1>4. ASSUME NEW t \in Threads, Install(t) \/ Stage(t)
      PROVE  RoomInv'
  <2>1. NoNewNames
    BY <1>4, KernelNames DEF Install, Stage
  <2>2. /\ \A u \in Threads : u # t => pc'[u] = pc[u] /\ call'[u] = call[u]
        /\ pc'[t] = "tempMount"
    BY <1>4 DEF Install, Stage, Goto, TypeInv, TypeOK
  <2>3. /\ \A u \in Threads : u # t => pc'[u] = pc[u] /\ Package(u)' = Package(u)
        /\ pc'[t] \notin RoomLabels
    BY <2>2 DEF Package, RoomLabels
  <2> QED
    BY <2>1, <2>3, RoomStepSame
<1>5. ASSUME NEW t \in Threads, Finish(t)
      PROVE  RoomInv'
  <2>1. NoNewNames
    BY <1>5, KernelNames DEF Finish, Accept, CollectInfo, WriteInfo, Reload
  <2>2. Stays(t, {"collect", "write", "reload", "idle"})
    BY <1>5, FinishStays
  <2>3. pc'[t] \notin RoomLabels
    BY <2>2 DEF Stays, RoomLabels
  <2> QED
    BY <2>1, <2>2, <2>3, RoomStepSame DEF Stays
<1>6. ASSUME NEW t \in Threads, Serve(t)
      PROVE  RoomInv'
  BY <1>5, <1>6, RoomTemp, RoomUnload, RoomActivate DEF Serve
<1>7. CASE UNCHANGED vars
  <2>1. NoNewNames
    BY <1>7, KernelNames DEF vars
  <2>2. pc' = pc /\ call' = call
    BY <1>7 DEF vars
  <2> QED
    BY <2>1, <2>2, RoomIdle DEF Package
<1> QED
  BY <1>1, <1>2, <1>3, <1>4, <1>6, <1>7 DEF Next

(* DevicesAreBounded: the check in ComputePackageIdMinor, which counts all  *)
(* devices of the package before the old one is gone, bounds those of       *)
(* activated APEXes, however long processes cling to what was unmounted.   *)
THEOREM DevicesStayFew ==
  ASSUME OneCallAPackage, Recoverable
  PROVE  Spec => []DevicesAreBounded
<1>1. Init => RoomInv
  BY RoomInit
<1>2. AllInv /\ RoomInv /\ [Next]_vars => RoomInv'
  BY RoomNext DEF AllInv
<1>3. RoomInv => DevicesAreBounded
  BY DEF RoomInv, DevicesAreBounded, Numbered
<1> QED
  BY <1>1, <1>2, <1>3, Invariant, PTL DEF Spec

-----------------------------------------------------------------------------
(* When calls do not overlap.                                               *)

OneCall == OneCallAPackage /\ "calls" \notin Overlap

AloneInv == \A t, u \in Threads : pc[t] # "idle" /\ pc[u] # "idle" => t = u

(* What was mounted has the loop device and the name of no entry: neither   *)
(* CHECK of CheckUniqueLoopDm fails.                                        *)
FreshInv == \A t \in Threads : pc[t] \in {"tempAdd", "add"} => ~Duplicate(call[t].entry)

CheckInv == AloneInv /\ FreshInv /\ ~aborted

(* Where a step of the call leads to, whichever it is.                      *)
LEMMA ServeStays ==
  ASSUME TypeInv, Recoverable, NEW t \in Threads, Serve(t)
  PROVE  \/ AddAborts(t) \/ BindAborts(t)
         \/ Stays(t, Labels) /\ UNCHANGED <<aborted, main>>
<1> USE DEF mounted, kernel, disk, memory, mainVars, bounds, history
<1>1. ASSUME TempMounts(t), ~AddAborts(t)
      PROVE  Stays(t, Labels) /\ UNCHANGED <<aborted, main>>
  <2>1. Stays(t, Labels)
    BY <1>1, TempStays DEF Stays, Labels, TempLabels
  <2>2. UNCHANGED <<aborted, main>>
    BY <1>1 DEF TempMounts, TempMount, TempMountFails, TempAdd, UnmountTemp, TempRemove, DropFind,
                DropRemove
  <2> QED
    BY <2>1, <2>2
<1>2. ASSUME Unload(t)
      PROVE  Stays(t, Labels) /\ UNCHANGED <<aborted, main>>
  <2>1. Stays(t, Labels)
    BY <1>2, UnloadStays DEF Stays, Labels, UnloadedLabels, RoomLabels
  <2>2. UNCHANGED <<aborted, main>>
    BY <1>2 DEF Unload, ComputePackageIdMinor, UnloadApexFromInit, Forget, UnmountActive,
                UnmountActiveFails, UnmountId, UnmountIdFails
  <2> QED
    BY <2>1, <2>2
<1>3. ASSUME ActivateNew(t), ~BindAborts(t)
      PROVE  Stays(t, Labels) /\ UNCHANGED <<aborted, main>>
  <2>1. ~BindFails(t)
    BY BindFailsNot
  <2>2. Stays(t, Labels)
    BY <1>3, <2>1, ActivateStays DEF Stays, Labels
  <2>3. UNCHANGED <<aborted, main>>
    BY <1>3, <2>1 DEF ActivateNew, Link, Activate, Mount, MountFails, Add, Bind, Undo
  <2> QED
    BY <2>2, <2>3
<1>4. ASSUME Finish(t)
      PROVE  Stays(t, Labels) /\ UNCHANGED <<aborted, main>>
  <2>1. Stays(t, Labels)
    BY <1>4, FinishStays DEF Stays, Labels, UnloadedLabels
  <2>2. UNCHANGED <<aborted, main>>
    BY <1>4 DEF Finish, Accept, CollectInfo, WriteInfo, Reload
  <2> QED
    BY <2>1, <2>2
<1> QED
  BY <1>1, <1>2, <1>3, <1>4 DEF Serve

(* The entry of an APEX that stands is mounted.                             *)
LEMMA StandingIsMounted ==
  ASSUME NEW q \in Packages, NEW e, NEW known, NEW bound, Stands(q, e, known, bound)
  PROVE  /\ e.image.loop \in LoopsInUse /\ e.image.file.pkg = q
         /\ known => Permanent(q) = {e}
         /\ e.image.dev # NoName => e.image.dev.minor >= 0 /\ e.image.dev.pkg = q
<1>1. e \in Entries /\ e.image.file.pkg = q /\ e.point = IdPoint(e.image.file)
  BY DEF Stands
<1>2. e.point \in Points /\ e.point.pkg = q /\ e.point.kind # "temp"
  BY <1>1, PointFacts, EntryTypes
<1>3. mounts[e.point] = <<e.image>>
  BY <1>2 DEF Stands
<1>4. e.image \in ImagesIn(mounts, detached)
  <2> DEFINE S == UNION {{mounts[pt][i] : i \in DOMAIN mounts[pt]} : pt \in Points}
  <2>1. 1 \in DOMAIN mounts[e.point] /\ mounts[e.point][1] = e.image
    BY <1>3
  <2>2. e.image \in S
    BY <1>2, <2>1
  <2>3. ImagesIn(mounts, detached) = S \cup detached
    BY DEF ImagesIn
  <2> HIDE DEF S
  <2> QED
    BY <2>2, <2>3
<1> QED
  BY <1>1, <1>4 DEF LoopsInUse, Stands

(* Before an image is mounted, whatever the database has is mounted.        *)
LEMMA EntriesAreMounted ==
  ASSUME TypeInv, SafeInv, NEW t \in Threads, pc[t] \in {"tempMount", "mount"},
         AloneInv, NEW g \in db
  PROVE  /\ g.image.loop \in LoopsInUse
         /\ g.image.dev # NoName => /\ g.image.dev.minor >= 0
                                    /\ g.image.dev.pkg = g.image.file.pkg
         /\ pc[t] = "mount" => g.image.file.pkg # Package(t)
<1>1. PICK q : q = g.image.file.pkg
  OBVIOUS
<1>2. g \in Entries /\ q \in Packages /\ g \in EntriesOf(q)
  <2>1. g \in Entries
    BY DEF TypeInv, TypeOK, MountedTypeOK
  <2>2. q \in Packages
    BY <1>1, <2>1, EntryTypes, FileTypes
  <2> QED
    BY <1>1, <2>1, <2>2 DEF EntriesOf
<1>3. pc[t] # "idle" /\ main # "off" /\ PackageInv(q)
  BY <1>2, CallFacts DEF SafeInv, MountInv
<1>4. \A u \in Threads : u # t => pc[u] = "idle"
  BY <1>3 DEF AloneInv
<1>5. CASE pc[t] = "tempMount" /\ Package(t) = q
  <2>1. PackageAt(q, "tempMount", call[t])
    BY <1>3, <1>5 DEF PackageInv, Attends
  <2>2. Temporary(q) = {}
    BY <2>1 DEF PackageAt, TempPart
  <2>3. PICK e \in EntriesOf(q) : Stands(q, e, TRUE, TRUE)
    BY <2>1 DEF PackageAt, ActivePart, BoundAt, TempLabels
  <2>4. g \in Permanent(q)
    BY <1>2, <2>2 DEF Permanent, Temporary
  <2>5. g = e
    BY <2>3, <2>4 DEF Stands
  <2>6. /\ e.image.loop \in LoopsInUse /\ e.image.file.pkg = q
        /\ e.image.dev # NoName => e.image.dev.minor >= 0 /\ e.image.dev.pkg = q
    BY <1>2, <2>3, StandingIsMounted
  <2> QED
    BY <1>5, <2>5, <2>6
<1>6. CASE pc[t] = "mount" /\ Package(t) = q
  <2>1. PackageAt(q, "mount", call[t])
    BY <1>3, <1>6 DEF PackageInv, Attends
  <2>2. Temporary(q) = {} /\ Permanent(q) = {}
    BY <2>1 DEF PackageAt, TempPart, ActivePart, Fallen
  <2> QED
    BY <1>2, <2>2 DEF Permanent, Temporary
<1>7. CASE Package(t) # q
  <2>1. PackageAt(q, "idle", NoCall)
    BY <1>3, <1>4, <1>7 DEF PackageInv, Attends
  <2>2. Temporary(q) = {}
    BY <2>1 DEF PackageAt, TempPart
  <2>3. PICK e \in EntriesOf(q) : Stands(q, e, TRUE, TRUE)
    BY <2>1 DEF PackageAt, ActivePart, BoundAt
  <2>4. g \in Permanent(q)
    BY <1>2, <2>2 DEF Permanent, Temporary
  <2>5. g = e
    BY <2>3, <2>4 DEF Stands
  <2>6. /\ e.image.loop \in LoopsInUse /\ e.image.file.pkg = q
        /\ e.image.dev # NoName => e.image.dev.minor >= 0 /\ e.image.dev.pkg = q
    BY <1>2, <2>3, StandingIsMounted
  <2> QED
    BY <1>7, <2>5, <2>6
<1> QED
  BY <1>5, <1>6, <1>7

LEMMA MountIsFresh ==
  ASSUME TypeInv, SafeInv, AloneInv, NEW t \in Threads, TempMount(t) \/ Mount(t)
  PROVE  FreshInv'
<1>1. PICK f, pt, name :
        /\ MountImage(t, f, pt, name)
        /\ name # NoName =>
             \/ name.minor = -1
             \/ pc[t] = "mount" /\ name.pkg = Package(t)
  <2>1. CASE TempMount(t)
    BY <2>1 DEF TempMount, TempName, IdName
  <2>2. CASE Mount(t)
    BY <2>2 DEF Mount, DeviceName, IdName, Package
  <2> QED
    BY <2>1, <2>2
<1>2. PICK image \in NewImages(f, name) :
        call' = [call EXCEPT ![t].entry = [image |-> image, point |-> pt]]
  BY <1>1 DEF MountImage
<1>3. image.loop \notin LoopsInUse /\ image.dev = name
  BY <1>2 DEF NewImages, FreeLoops
<1>4. pc[t] \in {"tempMount", "mount"} /\ db' = db
  BY DEF TempMount, Mount
<1>5. call'[t].entry.image = image
  BY <1>2 DEF TypeInv, TypeOK, CallType
<1>6. ASSUME NEW g \in db
      PROVE  /\ g.image.loop # image.loop
             /\ image.dev # NoName => g.image.dev # image.dev
  <2>1. /\ g.image.loop \in LoopsInUse
        /\ g.image.dev # NoName => /\ g.image.dev.minor >= 0
                                   /\ g.image.dev.pkg = g.image.file.pkg
        /\ pc[t] = "mount" => g.image.file.pkg # Package(t)
    BY <1>4, EntriesAreMounted
  <2>2. ASSUME image.dev # NoName, g.image.dev = image.dev PROVE FALSE
    BY <1>1, <1>3, <2>1, <2>2
  <2> QED
    BY <1>3, <2>1, <2>2
<1>7. ~Duplicate(call[t].entry)'
  BY <1>4, <1>5, <1>6 DEF Duplicate
<1>8. \A u \in Threads : u # t => pc'[u] = "idle"
  <2>1. \A u \in Threads : u # t => pc[u] = "idle"
    BY <1>4 DEF AloneInv
  <2>2. \A u \in Threads : u # t => pc'[u] = pc[u]
    BY DEF TempMount, Mount, Goto, TypeInv, TypeOK
  <2> QED
    BY <2>1, <2>2
<1> QED
  BY <1>7, <1>8 DEF FreshInv

LEMMA NothingAborts ==
  ASSUME TypeInv, SafeInv, FreshInv, NEW t \in Threads
  PROVE  ~AddAborts(t) /\ ~BindAborts(t)
<1>1. ~AddAborts(t)
  BY DEF AddAborts, FreshInv
<1>2. ASSUME BindAborts(t) PROVE FALSE
  <2>1. PICK p, c : p = Package(t) /\ c = call[t]
    OBVIOUS
  <2>2. PackageAt(p, "bind", c)
    BY <1>2, <2>1, CallFacts DEF BindAborts
  <2>3. Permanent(p) = {c.entry}
    BY <2>2 DEF PackageAt, ActivePart, Stands
  <2>4. EntriesOf(p) # {}
    BY <2>3 DEF Permanent
  <2> QED
    BY <1>2, <2>1, <2>4 DEF BindAborts
<1> QED
  BY <1>1, <1>2

LEMMA ServesACall ==
  ASSUME NEW t \in Threads, Serve(t)
  PROVE  pc[t] # "idle"
<1>1. TempMounts(t) => pc[t] # "idle"
  BY DEF TempMounts, TempMount, TempMountFails, TempAdd, AddAborts, UnmountTemp, TempRemove, DropFind,
         DropRemove
<1>2. Unload(t) => pc[t] # "idle"
  BY DEF Unload, ComputePackageIdMinor, UnloadApexFromInit, Forget, UnmountActive, UnmountActiveFails,
         UnmountId, UnmountIdFails
<1>3. ActivateNew(t) => pc[t] # "idle"
  BY DEF ActivateNew, Link, Activate, Mount, MountFails, Add, Bind, BindFails, BindAborts, Undo
<1>4. Finish(t) => pc[t] # "idle"
  BY DEF Finish, Accept, CollectInfo, WriteInfo, Reload
<1> QED
  BY <1>1, <1>2, <1>3, <1>4 DEF Serve

LEMMA OnlyMountsLeadToAdd ==
  ASSUME TypeInv, Recoverable, NEW t \in Threads, Serve(t), ~TempMount(t), ~Mount(t),
         ~AddAborts(t), ~BindAborts(t)
  PROVE  pc'[t] \notin {"tempAdd", "add"}
<1> USE DEF TypeInv, TypeOK, Goto, Return, Error
<1>1. TempMounts(t) => pc'[t] \notin {"tempAdd", "add"}
  BY DEF TempMounts, TempMountFails, TempAdd, UnmountTemp, TempRemove, DropFind, DropRemove
<1>2. Unload(t) => pc'[t] \notin {"tempAdd", "add"}
  BY DEF Unload, ComputePackageIdMinor, UnloadApexFromInit, Forget, UnmountActive, UnmountActiveFails,
         UnmountId, UnmountIdFails
<1>3. ActivateNew(t) => pc'[t] \notin {"tempAdd", "add"}
  <2>1. ~BindFails(t)
    BY BindFailsNot
  <2> QED
    BY <2>1 DEF ActivateNew, Link, Activate, MountFails, Add, Bind, Undo, Activated, ActivationFailed
<1>4. Finish(t) => pc'[t] \notin {"tempAdd", "add"}
  BY DEF Finish, Accept, CollectInfo, WriteInfo, Reload
<1> QED
  BY <1>1, <1>2, <1>3, <1>4 DEF Serve

LEMMA CheckNext ==
  ASSUME OneCall, Recoverable, TypeInv, SafeInv, CheckInv, [Next]_vars
  PROVE  CheckInv'
<1> USE DEF mounted, kernel, disk, memory, mainVars, bounds, history
<1>1. CASE Boot \/ Release \/ CleanUp \/ UNCHANGED vars
  <2>1. UNCHANGED <<pc, call, aborted>>
    BY <1>1 DEF Boot, Release, CleanUp, ScanFiles, CheckFile, UnlinkInactive, CleanedUp, vars
  <2>2. (\A t \in Threads : pc[t] = "idle") \/ db' = db
    <3>1. Boot => \A t \in Threads : pc[t] = "idle"
      BY CallFacts DEF Boot
    <3>2. ~Boot => db' = db
      BY <1>1 DEF Release, ReleaseDetached, CleanUp, ScanFiles, CheckFile, UnlinkInactive,
                  CleanedUp, vars
    <3> QED
      BY <3>1, <3>2
  <2>3. FreshInv'
    BY <2>1, <2>2 DEF CheckInv, FreshInv, Duplicate
  <2>4. AloneInv' /\ ~aborted'
    BY <2>1 DEF CheckInv, AloneInv
  <2> QED
    BY <2>3, <2>4 DEF CheckInv
<1>2. CASE PowerLoss
  <2>1. (\A t \in Threads : pc'[t] = "idle") /\ aborted' = aborted
    BY <1>2 DEF PowerLoss, PowerOff
  <2> QED
    BY <2>1 DEF CheckInv, AloneInv, FreshInv
<1>3. ASSUME NEW t \in Threads, Install(t) \/ Stage(t)
      PROVE  CheckInv'
  <2>1. \E p : MayCall(p)
    BY <1>3 DEF Install, Stage
  <2>2. \A u \in Threads : pc[u] = "idle"
    BY <2>1 DEF MayCall, OneCall, Idle
  <2>3. /\ pc'[t] = "tempMount" /\ aborted' = aborted
        /\ \A u \in Threads : u # t => pc'[u] = pc[u]
    BY <1>3 DEF Install, Stage, Goto, TypeInv, TypeOK
  <2>4. \A u \in Threads : u # t => pc'[u] = "idle"
    BY <2>2, <2>3
  <2>5. AloneInv'
    BY <2>4 DEF AloneInv
  <2>6. FreshInv'
    BY <2>3, <2>4 DEF FreshInv
  <2> QED
    BY <2>3, <2>5, <2>6 DEF CheckInv
<1>4. ASSUME NEW t \in Threads, Serve(t)
      PROVE  CheckInv'
  <2>1. Stays(t, Labels) /\ aborted' = aborted
    BY <1>4, ServeStays, NothingAborts DEF CheckInv
  <2>2. pc[t] # "idle"
    BY <1>4, ServesACall
  <2>3. \A u \in Threads : u # t => pc'[u] = "idle"
    BY <2>1, <2>2 DEF CheckInv, AloneInv, Stays
  <2>4. AloneInv'
    BY <2>3 DEF AloneInv
  <2>5. FreshInv'
    <3>1. CASE TempMount(t) \/ Mount(t)
      BY <3>1, MountIsFresh DEF CheckInv
    <3>2. CASE ~TempMount(t) /\ ~Mount(t)
      <4>1. pc'[t] \notin {"tempAdd", "add"}
        BY <1>4, <3>2, OnlyMountsLeadToAdd, NothingAborts DEF CheckInv
      <4> QED
        BY <2>3, <4>1 DEF FreshInv
    <3> QED
      BY <3>1, <3>2
  <2> QED
    BY <2>1, <2>4, <2>5 DEF CheckInv
<1> QED
  BY <1>1, <1>2, <1>3, <1>4 DEF Next

(* NoCheckFails: when calls do not overlap, the CHECKs of                   *)
(* CheckUniqueLoopDm and DoIfLatest (apex_database.h) hold: a loop device   *)
(* is free only when the mount on it has left the database, too.           *)
THEOREM NoCheckEverFails ==
  ASSUME OneCall, Recoverable
  PROVE  Spec => []NoCheckFails
<1>1. Init => CheckInv
  BY DEF Init, CheckInv, AloneInv, FreshInv
<1>2. AllInv /\ CheckInv /\ [Next]_vars => CheckInv'
  BY CheckNext DEF AllInv
<1>3. CheckInv => NoCheckFails
  BY DEF CheckInv, NoCheckFails
<1>4. Spec => []AllInv
  BY Invariant DEF OneCall
<1> QED
  BY <1>1, <1>2, <1>3, <1>4, PTL DEF Spec

-----------------------------------------------------------------------------
(* apex-info-list.xml.                                                      *)

ShownFiles == {Shown(p) : p \in Packages}
FilesBut(p, f) == {IF q = p THEN f ELSE Shown(q) : q \in Packages}

(* What it lists while a call is under way: the old APEX, until it is       *)
(* written again.                                                          *)
InfoAt(p, l, c) ==
  /\ c.op = "stage" => info = ShownFiles
  /\ c.op = "install" =>
       /\ ~NewIsActive(l, c) => info = FilesBut(p, c.cur)
       /\ l = "write" => c.list = FilesBut(p, c.target)
       /\ l = "reload" /\ c.ok => info = FilesBut(p, c.target)

InfoInv ==
  main # "off" =>
    /\ Idle => info = ShownFiles
    /\ \A t \in Threads : pc[t] # "idle" => InfoAt(Package(t), pc[t], call[t])

LEMMA ShownFrame ==
  ASSUME NEW q, mounts'[ActivePoint(q)] = mounts[ActivePoint(q)]
  PROVE  Shown(q)' = Shown(q)
BY DEF Shown, Top

LEMMA FilesButFrame ==
  ASSUME NEW p, NEW f, \A q \in Packages : q # p => Shown(q)' = Shown(q)
  PROVE  /\ FilesBut(p, f)' = FilesBut(p, f)
         /\ Shown(p)' = Shown(p) => ShownFiles' = ShownFiles
<1>1. \A q \in Packages : (IF q = p THEN f ELSE Shown(q)') = IF q = p THEN f ELSE Shown(q)
  OBVIOUS
<1>2. FilesBut(p, f)' = FilesBut(p, f)
  BY <1>1 DEF FilesBut
<1>3. Shown(p)' = Shown(p) => ShownFiles' = ShownFiles
  BY DEF ShownFiles
<1> QED
  BY <1>2, <1>3

LEMMA FilesButShown == ASSUME NEW p, NEW f, Shown(p) = f PROVE FilesBut(p, f) = ShownFiles
BY DEF FilesBut, ShownFiles

(* Only UnmountPackage and DoIfLatest change what is bound at /apex/name.   *)
LEMMA ShownStays ==
  ASSUME TypeInv, SafeInv, Recoverable, NEW t \in Threads, Serve(t), ~AddAborts(t), ~BindAborts(t),
         NEW q \in Packages, q # Package(t) \/ (~UnmountActive(t) /\ ~Bind(t))
  PROVE  Shown(q)' = Shown(q)
<1> USE DEF mounted, kernel, disk, memory, mainVars, bounds, history
<1> DEFINE Kept1 == mounts'[ActivePoint(q)] = mounts[ActivePoint(q)]
<1>1. /\ mounts \in [Points -> Seq(Images)] /\ ActivePoint(q) \in Points
      /\ ActivePoint(q).pkg = q /\ ActivePoint(q).kind = "active"
  BY ActivePointFacts DEF TypeInv, TypeOK, MountedTypeOK
<1>2. \A pt \in Points : \A s : pt # ActivePoint(q) /\ mounts' = [mounts EXCEPT ![pt] = s] => Kept1
  BY <1>1
<1>3. mounts' = mounts => Kept1
  OBVIOUS
<1>4. \A pt \in Points : pt # ActivePoint(q) /\ mounts' \in {mounts, Under(pt), Popped(pt)} => Kept1
  <2> SUFFICES ASSUME NEW pt \in Points, pt # ActivePoint(q), mounts' \in {mounts, Under(pt), Popped(pt)}
               PROVE  Kept1
    OBVIOUS
  <2>1. mounts' = mounts \/ mounts' = Popped(pt)
    BY DEF Under
  <2> QED
    BY <1>1, <2>1 DEF Popped
<1>5. \A image : \A pt \in Points : pt # ActivePoint(q) /\ MountPackageImpl(image, pt) => Kept1
  BY <1>2 DEF MountPackageImpl
<1>6. pc[t] # "idle" /\ call[t].new \in Files /\ Package(t) \in Packages /\ PackageAt(Package(t), pc[t], call[t])
  BY ServesACall, CallFacts
<1>7. CASE TempMounts(t)
  <2>1. ASSUME TempMount(t) PROVE Kept1
    <3>1. \E image : MountPackageImpl(image, TempPoint(call[t].new))
      BY <2>1 DEF TempMount, MountImage
    <3> QED
      BY <1>1, <1>5, <1>6, <3>1, PointFacts
  <2>2. ASSUME UnmountTemp(t) PROVE Kept1
    <3>1. call[t].entry.point = TempPoint(call[t].new)
      BY <1>6, <2>2 DEF UnmountTemp, PackageAt, TempPart, TempMounted
    <3>2. mounts' \in {mounts, Under(call[t].entry.point)}
      BY <2>2 DEF UnmountTemp, Unmount, UnmountFails
    <3> QED
      BY <1>1, <1>4, <1>6, <3>1, <3>2, PointFacts
  <2>3. TempMountFails(t) \/ TempAdd(t) \/ TempRemove(t) \/ DropFind(t) \/ DropRemove(t) => mounts' = mounts
    BY DEF TempMountFails, MountPackageFails, TempAdd, TempRemove, DropFind, DropRemove
  <2>4. Kept1
    BY <1>3, <1>7, <2>1, <2>2, <2>3 DEF TempMounts
  <2> QED
    BY <2>4, ShownFrame
<1>8. CASE Unload(t)
  <2>1. ASSUME UnmountActive(t) PROVE Kept1
    <3>1. mounts' = mounts \/ mounts' = Popped(ActivePoint(Package(t)))
      BY <2>1 DEF UnmountActive, Umount
    <3>2. ActivePoint(Package(t)) \in Points /\ ActivePoint(Package(t)) # ActivePoint(q)
      BY <1>1, <1>6, <2>1, ActivePointFacts
    <3> QED
      BY <1>4, <3>1, <3>2
  <2>2. ASSUME UnmountId(t) PROVE Kept1
    <3>1. /\ call[t].entry.point = IdPoint(call[t].entry.image.file)
          /\ call[t].entry \in Entries
      BY <1>6, <2>2 DEF UnmountId, PackageAt, ActivePart, Stands
    <3>2. call[t].entry.point \in Points /\ call[t].entry.point # ActivePoint(q)
      BY <1>1, <3>1, EntryTypes DEF IdPoint
    <3>3. mounts' = Under(call[t].entry.point)
      BY <2>2 DEF UnmountId, Unmount
    <3> QED
      BY <1>4, <3>2, <3>3
  <2>3. ~UnmountIdFails(t)
    BY UnmountIdFailsNot
  <2>4. ComputePackageIdMinor(t) \/ UnloadApexFromInit(t) \/ UnmountActiveFails(t) \/ Forget(t) => mounts' = mounts
    BY DEF ComputePackageIdMinor, UnloadApexFromInit, UnmountActiveFails, Forget
  <2>5. Kept1
    BY <1>3, <1>8, <2>1, <2>2, <2>3, <2>4 DEF Unload
  <2> QED
    BY <2>5, ShownFrame
<1>9. CASE ActivateNew(t)
  <2>1. ASSUME Mount(t) PROVE Kept1
    <3>1. call[t].target \in Files /\ \E image : MountPackageImpl(image, IdPoint(call[t].target))
      BY <2>1, ActivateFacts DEF Mount, MountImage, Activating, ActivateLabels4
    <3> QED
      BY <1>1, <1>5, <3>1, PointFacts
  <2>2. ASSUME Bind(t) PROVE Kept1
    <3>1. call[t].target \in Files /\ call[t].target.pkg = Package(t)
      BY <2>2, ActivateFacts DEF Bind, ActivateLabels4
    <3>2. ActivePoint(Package(t)) \in Points /\ ActivePoint(Package(t)) # ActivePoint(q)
      BY <1>1, <1>6, <2>2, ActivePointFacts
    <3>3. PICK pt \in Points : pt = ActivePoint(Package(t)) /\ pt # ActivePoint(q)
      BY <3>2
    <3>4. \/ mounts' = mounts
          \/ \E covering \in BOOLEAN : BindMount(call[t].target, covering)
      BY <2>2 DEF Bind, Activating
    <3>5. ASSUME NEW covering \in BOOLEAN, BindMount(call[t].target, covering)
          PROVE  Kept1
      <4> DEFINE base == IF covering THEN mounts ELSE Under(pt)
      <4>1. base = mounts \/ base = Popped(pt)
        BY DEF Under
      <4>2. base[ActivePoint(q)] = mounts[ActivePoint(q)] /\ DOMAIN base = Points
        BY <1>1, <3>3, <4>1 DEF Popped
      <4>3. \E s : mounts' = [base EXCEPT ![pt] = s]
        BY <3>1, <3>3, <3>5 DEF BindMount
      <4> HIDE DEF base
      <4> QED
        BY <1>1, <3>3, <4>2, <4>3
    <3> QED
      BY <1>3, <3>4, <3>5
  <2>3. ~BindFails(t)
    BY BindFailsNot
  <2>4. Link(t) \/ Activate(t) \/ MountFails(t) \/ Add(t) \/ Undo(t) => mounts' = mounts
    BY DEF Link, Activate, MountFails, MountPackageFails, Add, Undo
  <2>5. Kept1
    BY <1>3, <1>9, <2>1, <2>2, <2>3, <2>4 DEF ActivateNew
  <2> QED
    BY <2>5, ShownFrame
<1>10. CASE Finish(t)
  <2>1. mounts' = mounts
    BY <1>10 DEF Finish, Accept, CollectInfo, WriteInfo, Reload
  <2> QED
    BY <2>1, ShownFrame
<1> QED
  BY <1>7, <1>8, <1>9, <1>10 DEF Serve

(* Where a call on a package whose APEX stands has not changed it.          *)
LEMMA ListedNow ==
  ASSUME NEW p \in Packages, NEW l, NEW c, l # "idle", InfoAt(p, l, c), PackageAt(p, l, c),
         l \in BoundAt \ {"accept", "collect", "write"}, c.op \in {"install", "stage"}
  PROVE  info = ShownFiles
<1>1. CASE c.op = "stage"
  BY <1>1 DEF InfoAt
<1>2. CASE c.op = "install"
  <2>1. PICK e \in EntriesOf(p) :
          /\ Stands(p, e, TRUE, TRUE)
          /\ IF NewIsActive(l, c) THEN e.image.file = c.target ELSE e.image.file = c.cur
    BY <1>2 DEF PackageAt, ActivePart
  <2>2. Shown(p) = IF NewIsActive(l, c) THEN c.target ELSE c.cur
    BY <2>1, ShownIs
  <2>3. info = FilesBut(p, IF NewIsActive(l, c) THEN c.target ELSE c.cur)
    BY <1>2 DEF InfoAt, NewIsActive
  <2> QED
    BY <2>2, <2>3, FilesButShown
<1> QED
  BY <1>1, <1>2

(* GetActivePackages, when nothing else runs.                               *)
LEMMA CollectedIsShown ==
  ASSUME TypeInv, SafeInv, AloneInv, NEW t \in Threads, pc[t] = "collect"
  PROVE  GetActivePackages = FilesBut(Package(t), call[t].target)
<1>1. PICK p, c : p = Package(t) /\ c = call[t]
  OBVIOUS
<1>2. p \in Packages /\ PackageAt(p, "collect", c) /\ main # "off"
  BY <1>1, CallFacts
<1>3. \A u \in Threads : u # t => pc[u] = "idle"
  BY DEF AloneInv
<1> DEFINE F(q) == IF q = p THEN c.target ELSE Shown(q)
<1>4. ASSUME NEW q \in Packages
      PROVE  \E e \in EntriesOf(q) : /\ GetLatestMountedApex(q) = {e}
                                     /\ Exists(e.image.file) /\ e.image.file = F(q)
  <2>1. \E e \in EntriesOf(q) : /\ Stands(q, e, TRUE, TRUE) /\ Exists(e.image.file)
                                /\ e.image.file = F(q) /\ Temporary(q) = {}
    <3>1. CASE q = p
      <4>1. PICK e \in EntriesOf(q) : Stands(q, e, TRUE, TRUE) /\ e.image.file = c.target
        BY <1>2, <3>1, AcceptFacts
      <4>2. c.target \in DataFiles(p)
        BY <1>2, AcceptFacts
      <4>3. Exists(e.image.file)
        BY <4>1, <4>2 DEF Exists, DataFiles
      <4>4. Temporary(q) = {}
        BY <1>2, <3>1 DEF PackageAt, TempPart
      <4> QED
        BY <3>1, <4>1, <4>3, <4>4
    <3>2. CASE q # p
      <4>1. PackageAt(q, "idle", NoCall)
        BY <1>1, <1>2, <1>3, <3>2 DEF SafeInv, MountInv, PackageInv, Attends
      <4>2. PICK e \in EntriesOf(q) : Stands(q, e, TRUE, TRUE) /\ Kept(q, e.image.file)
        BY <4>1 DEF PackageAt, ActivePart, BoundAt, NewIsActive
      <4>3. Exists(e.image.file)
        BY <4>2 DEF Kept, DataFiles, Exists, OnData, BuiltIn
      <4>4. Shown(q) = e.image.file
        BY <4>2, ShownIs
      <4>5. Temporary(q) = {}
        BY <4>1 DEF PackageAt, TempPart
      <4> QED
        BY <3>2, <4>2, <4>3, <4>4, <4>5
    <3> QED
      BY <3>1, <3>2
  <2>2. PICK e \in EntriesOf(q) : /\ Stands(q, e, TRUE, TRUE) /\ Exists(e.image.file)
                                  /\ e.image.file = F(q) /\ Temporary(q) = {}
    BY <2>1
  <2>3. EntriesOf(q) = {e} /\ ~IsTemp(e)
    <3>1. EntriesOf(q) = Permanent(q) \cup Temporary(q)
      BY DEF Permanent, Temporary
    <3>2. Permanent(q) = {e}
      BY <2>2 DEF Stands
    <3>3. ~IsTemp(e)
      BY <3>2 DEF Permanent
    <3> QED
      BY <2>2, <3>1, <3>2, <3>3
  <2>4. e \in Entries
    BY <2>2 DEF Stands
  <2>5. GetLatestMountedApex(q) = {e}
    BY <2>3, <2>4, NotLessItself DEF GetLatestMountedApex, Latest
  <2> QED
    BY <2>2, <2>5
<1> HIDE DEF F
<1>5. \A f : f \in GetActivePackages <=>
             \E q \in Packages : \E e \in GetLatestMountedApex(q) : Exists(e.image.file) /\ f = e.image.file
  BY DEF GetActivePackages
<1>6. \A f : f \in GetActivePackages <=> \E q \in Packages : f = F(q)
  BY <1>4, <1>5
<1>7. GetActivePackages = {F(q) : q \in Packages}
  BY <1>6
<1> QED
  BY <1>1, <1>7 DEF F, FilesBut

(* What a step of a call does to what InfoAt speaks of.                     *)
InfoMoves(t) ==
  pc'[t] # "idle" =>
    /\ call'[t].op = call[t].op /\ call'[t].cur = call[t].cur
    /\ NewIsActive(pc[t], call[t]) => NewIsActive(pc'[t], call'[t])
    /\ pc'[t] = "write" => CollectInfo(t)
    /\ pc'[t] = "reload" /\ call'[t].ok => WriteInfo(t)

LEMMA InfoMovesServe ==
  ASSUME TypeInv, SafeInv, Recoverable, NEW t \in Threads, Serve(t), ~AddAborts(t), ~BindAborts(t)
  PROVE  InfoMoves(t) /\ (info' = info \/ WriteInfo(t))
<1> USE DEF mounted, kernel, disk, memory, mainVars, bounds, history
<1>1. CASE TempMounts(t)
  <2>1. ~NewIsActive(pc[t], call[t]) /\ pc'[t] \notin {"write", "reload"}
    <3>1. ~NewIsActive(pc[t], call[t])
      BY <1>1 DEF TempMounts, TempMount, TempMountFails, TempAdd, AddAborts, UnmountTemp, TempRemove,
                  DropFind, DropRemove, NewIsActive
    <3>2. pc'[t] \in TempLabels \cup {"idle", "minor"}
      BY <1>1, TempStays DEF Stays
    <3> QED
      BY <3>1, <3>2 DEF TempLabels
  <2>2. pc'[t] # "idle" => call'[t].op = call[t].op /\ call'[t].cur = call[t].cur
    <3> USE DEF TypeInv, TypeOK, CallType, Goto, Return
    <3>1. TempMount(t) => call'[t].op = call[t].op /\ call'[t].cur = call[t].cur
      BY DEF TempMount, MountImage
    <3>2. TempMountFails(t) => pc'[t] = "idle"
      BY DEF TempMountFails
    <3>3. TempAdd(t) => call'[t].op = call[t].op /\ call'[t].cur = call[t].cur
      BY DEF TempAdd
    <3>4. UnmountTemp(t) \/ DropRemove(t) => call' = call
      BY DEF UnmountTemp, DropRemove
    <3>5. TempRemove(t) => call' = call \/ pc'[t] = "idle"
      BY DEF TempRemove
    <3>6. DropFind(t) => pc'[t] = "idle" \/ (call'[t].op = call[t].op /\ call'[t].cur = call[t].cur)
      BY DEF DropFind
    <3> QED
      BY <1>1, <3>1, <3>2, <3>3, <3>4, <3>5, <3>6 DEF TempMounts
  <2>3. info' = info
    BY <1>1 DEF TempMounts, TempMount, TempMountFails, TempAdd, UnmountTemp, TempRemove, DropFind,
                DropRemove
  <2> QED
    BY <2>1, <2>2, <2>3 DEF InfoMoves
<1>2. CASE Unload(t)
  <2>1. ~NewIsActive(pc[t], call[t]) /\ pc'[t] # "write"
    <3>1. ~NewIsActive(pc[t], call[t])
      BY <1>2, UnloadStays DEF RoomLabels, NewIsActive, ComputePackageIdMinor
    <3>2. pc'[t] \in RoomLabels \cup {"idle", "reload"}
      BY <1>2, UnloadStays DEF Stays
    <3> QED
      BY <3>1, <3>2 DEF RoomLabels
  <2>2. pc'[t] # "idle" => /\ call'[t].op = call[t].op /\ call'[t].cur = call[t].cur
                           /\ pc'[t] = "reload" => ~call'[t].ok
    <3> USE DEF TypeInv, TypeOK, CallType, Goto, Return, Error
    <3>1. ComputePackageIdMinor(t) \/ UnloadApexFromInit(t) =>
            \/ pc'[t] = "idle"
            \/ call'[t].op = call[t].op /\ call'[t].cur = call[t].cur /\ pc'[t] # "reload"
      BY DEF ComputePackageIdMinor, UnloadApexFromInit
    <3>2. UnmountActive(t) => call'[t].op = call[t].op /\ call'[t].cur = call[t].cur /\ pc'[t] # "reload"
      BY DEF UnmountActive
    <3>3. UnmountActiveFails(t) \/ UnmountIdFails(t) =>
            call'[t].op = call[t].op /\ call'[t].cur = call[t].cur /\ ~call'[t].ok
      BY ZenonT(60) DEF UnmountActiveFails, UnmountIdFails
    <3>4. Forget(t) \/ UnmountId(t) => call' = call /\ pc'[t] # "reload"
      BY DEF Forget, UnmountId
    <3> QED
      BY <1>2, <3>1, <3>2, <3>3, <3>4 DEF Unload
  <2>3. info' = info
    BY <1>2 DEF Unload, ComputePackageIdMinor, UnloadApexFromInit, Forget, UnmountActive,
                UnmountActiveFails, UnmountId, UnmountIdFails
  <2> QED
    BY <2>1, <2>2, <2>3 DEF InfoMoves
<1>3. CASE ActivateNew(t)
  <2>1. ~NewIsActive(pc[t], call[t]) /\ pc'[t] # "write"
    <3>1. ~BindFails(t)
      BY BindFailsNot
    <3> USE DEF TypeInv, TypeOK, Goto
    <3>2. ~NewIsActive(pc[t], call[t])
      BY <1>3, <3>1 DEF ActivateNew, Link, Activate, Mount, MountFails, Add, Bind, Undo, NewIsActive
    <3>3. pc'[t] # "write"
      BY <1>3, <3>1 DEF ActivateNew, Link, Activate, Mount, MountFails, Add, Bind, Undo, Activated,
                        ActivationFailed
    <3> QED
      BY <3>2, <3>3
  <2>2. /\ call'[t].op = call[t].op /\ call'[t].cur = call[t].cur
        /\ pc'[t] = "reload" => ~call'[t].ok
    <3>1. ~BindFails(t)
      BY BindFailsNot
    <3>2. Activate(t) \/ Mount(t) \/ MountFails(t) \/ Add(t) \/ Bind(t) => (Undoing(t) <=> ~call[t].ok)
      BY ActivateFacts DEF Activate, Mount, MountFails, Add, Bind, ActivateLabels4
    <3> USE DEF TypeInv, TypeOK, CallType, Goto
    <3>3. Link(t) \/ Undo(t) => /\ call'[t].op = call[t].op /\ call'[t].cur = call[t].cur
                                /\ pc'[t] # "reload"
      BY DEF Link, Undo
    <3>4. Mount(t) => /\ call'[t].op = call[t].op /\ call'[t].cur = call[t].cur
                      /\ pc'[t] # "reload"
      BY DEF Mount, MountImage
    <3>5. Activate(t) \/ MountFails(t) \/ Add(t) \/ Bind(t) =>
            call' = call /\ (pc'[t] = "reload" => Undoing(t))
      BY DEF Activate, MountFails, Add, Bind, Activated, ActivationFailed
    <3> QED
      BY <1>3, <3>1, <3>2, <3>3, <3>4, <3>5 DEF ActivateNew
  <2>3. info' = info
    BY <1>3 DEF ActivateNew, Link, Activate, Mount, MountFails, Add, Bind, BindFails, Undo
  <2> QED
    BY <2>1, <2>2, <2>3 DEF InfoMoves
<1>4. CASE Finish(t)
  <2> USE DEF TypeInv, TypeOK, CallType, Goto, Return
  <2>1. ASSUME Accept(t) PROVE InfoMoves(t) /\ info' = info
    BY <2>1 DEF Accept, InfoMoves, NewIsActive
  <2>2. ASSUME CollectInfo(t) PROVE InfoMoves(t) /\ info' = info
    BY <2>2 DEF CollectInfo, InfoMoves, NewIsActive
  <2>3. ASSUME WriteInfo(t) PROVE InfoMoves(t)
    <3>1. call[t].ok
      <4>1. pc[t] = "write"
        BY <2>3 DEF WriteInfo
      <4>2. FilesPart(Package(t), "write", call[t])
        BY <4>1, CallFacts DEF PackageAt
      <4> QED
        BY <4>2 DEF FilesPart
    <3>2. pc'[t] = "reload" /\ call' = call
      BY <2>3 DEF WriteInfo
    <3> QED
      BY <2>3, <3>1, <3>2 DEF InfoMoves, NewIsActive
  <2>4. ASSUME Reload(t) PROVE InfoMoves(t) /\ info' = info
    BY <2>4 DEF Reload, InfoMoves
  <2> QED
    BY <1>4, <2>1, <2>2, <2>3, <2>4 DEF Finish
<1> QED
  BY <1>1, <1>2, <1>3, <1>4 DEF Serve

LEMMA ReturnsFrom ==
  ASSUME TypeInv, Recoverable, NEW t \in Threads, Serve(t), ~AddAborts(t), ~BindAborts(t),
         pc'[t] = "idle"
  PROVE  pc[t] \in TempLabels \cup {"minor", "unload", "reload"}
<1> USE DEF TypeInv, TypeOK, Goto
<1>1. TempMounts(t) => pc[t] \in TempLabels
  BY DEF TempMounts, TempMount, TempMountFails, TempAdd, UnmountTemp, TempRemove, DropFind, DropRemove,
         TempLabels
<1>2. Unload(t) => pc[t] \in {"minor", "unload"}
  BY DEF Unload, ComputePackageIdMinor, UnloadApexFromInit, Forget, UnmountActive, UnmountActiveFails,
         UnmountId, UnmountIdFails, Error
<1>3. ~ActivateNew(t)
  <2>1. ~BindFails(t)
    BY BindFailsNot
  <2> QED
    BY <2>1, ActivateStays DEF Stays, UnloadedLabels
<1>4. Finish(t) => pc[t] = "reload"
  BY DEF Finish, Accept, CollectInfo, WriteInfo, Reload
<1> QED
  BY <1>1, <1>2, <1>3, <1>4 DEF Serve

LEMMA InfoServe ==
  ASSUME TypeInv, SafeInv, Recoverable, "write" \notin Failures, CheckInv, InfoInv,
         NEW t \in Threads, Serve(t)
  PROVE  InfoInv'
<1> USE DEF mounted, kernel, disk, memory, mainVars, bounds, history
<1>0. ~AddAborts(t) /\ ~BindAborts(t)
  BY NothingAborts DEF CheckInv
<1>1. PICK p, l, c : p = Package(t) /\ l = pc[t] /\ c = call[t]
  OBVIOUS
<1>2. PICK k, d : k = pc'[t] /\ d = call'[t]
  OBVIOUS
<1>3. /\ p \in Packages /\ PackageAt(p, l, c) /\ KnownAt(l, c) /\ l # "idle" /\ l \in Labels
      /\ c.op \in {"install", "stage"} /\ main # "off" /\ InfoAt(p, l, c)
  BY <1>1, ServesACall, CallFacts DEF InfoInv
<1>4. InfoMoves(t) /\ (info' = info \/ WriteInfo(t))
  BY <1>0, InfoMovesServe
<1>5. \A u \in Threads : u # t => pc'[u] = "idle"
  BY <1>0, <1>1, <1>3, ServeStays DEF CheckInv, AloneInv, Stays
<1>6. \A q \in Packages : q # p => Shown(q)' = Shown(q)
  BY <1>0, <1>1, ShownStays
<1>7. CASE k = "idle"
  <2>1. ~UnmountActive(t) /\ ~Bind(t) /\ ~WriteInfo(t)
    BY <1>2, <1>7 DEF UnmountActive, Bind, WriteInfo, Activated, Goto, TypeInv, TypeOK
  <2>2. Shown(p)' = Shown(p)
    BY <1>0, <1>1, <1>3, <2>1, ShownStays
  <2>3. l \in BoundAt \ {"accept", "collect", "write"}
    BY <1>0, <1>1, <1>2, <1>7, ReturnsFrom DEF BoundAt, TempLabels
  <2>4. info = ShownFiles
    BY <1>3, <2>3, ListedNow
  <2>5. info' = ShownFiles'
    BY <1>4, <1>6, <2>1, <2>2, <2>4, FilesButFrame
  <2>6. \A u \in Threads : pc'[u] = "idle"
    BY <1>2, <1>5, <1>7
  <2> QED
    BY <2>5, <2>6 DEF InfoInv
<1>8. CASE k # "idle"
  <2>1. d.op = c.op /\ d.cur = c.cur /\ Package(t)' = p
    BY <1>0, <1>1, <1>2, <1>4, <1>8, ServeStays DEF InfoMoves, Stays
  <2>2. ASSUME c.op = "stage" PROVE info' = ShownFiles'
    <3>1. l \notin InstallLabels
      BY <1>3, <2>2 DEF KnownAt
    <3>2. ~UnmountActive(t) /\ ~Bind(t) /\ ~WriteInfo(t)
      BY <1>1, <3>1 DEF UnmountActive, Bind, WriteInfo, InstallLabels, UnloadedLabels
    <3>3. Shown(p)' = Shown(p)
      BY <1>0, <1>1, <1>3, <3>2, ShownStays
    <3> QED
      BY <1>3, <1>4, <1>6, <2>2, <3>2, <3>3, FilesButFrame DEF InfoAt
  <2>3. ASSUME c.op = "install", ~NewIsActive(k, d) PROVE info' = FilesBut(p, d.cur)'
    <3>1. ~NewIsActive(l, c)
      BY <1>1, <1>2, <1>4, <1>8, <2>3 DEF InfoMoves
    <3>2. ~WriteInfo(t)
      BY <1>1, <3>1 DEF WriteInfo, NewIsActive
    <3>3. info = FilesBut(p, c.cur)
      BY <1>3, <2>3, <3>1 DEF InfoAt
    <3>4. FilesBut(p, d.cur)' = FilesBut(p, d.cur)
      <4>1. PICK f : f = d.cur
        OBVIOUS
      <4>2. FilesBut(p, f)' = FilesBut(p, f)
        BY <1>6, FilesButFrame
      <4> QED
        BY <4>1, <4>2
    <3> QED
      BY <1>4, <2>1, <3>2, <3>3, <3>4
  <2>4. ASSUME c.op = "install", k = "write" PROVE d.list = FilesBut(p, d.target)'
    <3>1. CollectInfo(t)
      BY <1>2, <1>4, <1>8, <2>4 DEF InfoMoves
    <3>2. GetActivePackages = FilesBut(p, c.target)
      BY <1>1, <3>1, CollectedIsShown DEF CollectInfo, CheckInv
    <3>3. d.list = GetActivePackages /\ d.target = c.target
      BY <1>1, <1>2, <3>1 DEF CollectInfo, TypeInv, TypeOK, CallType
    <3>4. FilesBut(p, c.target)' = FilesBut(p, c.target)
      BY <1>6, FilesButFrame
    <3> QED
      BY <3>2, <3>3, <3>4
  <2>5. ASSUME c.op = "install", k = "reload", d.ok PROVE info' = FilesBut(p, d.target)'
    <3>1. WriteInfo(t)
      BY <1>2, <1>4, <1>8, <2>5 DEF InfoMoves
    <3>2. info' = c.list /\ d = c
      BY <1>1, <1>2, <3>1 DEF WriteInfo, Fail
    <3>3. c.list = FilesBut(p, c.target)
      BY <1>1, <1>3, <2>5, <3>1 DEF InfoAt, WriteInfo
    <3>4. FilesBut(p, c.target)' = FilesBut(p, c.target)
      BY <1>6, FilesButFrame
    <3> QED
      BY <3>2, <3>3, <3>4
  <2>6. InfoAt(p, k, d)'
    BY <2>1, <2>2, <2>3, <2>4, <2>5 DEF InfoAt
  <2>7. InfoAt(Package(t), pc[t], call[t])'
    BY <1>2, <2>1, <2>6
  <2>8. ~Idle'
    BY <1>2, <1>8 DEF Idle
  <2> QED
    BY <1>5, <2>7, <2>8 DEF InfoInv
<1> QED
  BY <1>7, <1>8

LEMMA InfoBoot ==
  ASSUME TypeInv, SafeInv, Boot
  PROVE  InfoInv'
<1>1. PICK chosen \in [Packages -> Files], loop \in [Packages -> Loops] :
        /\ mounts' = [pt \in Points |->
             IF pt \in {ActivePoint(pt.pkg), IdPoint(chosen[pt.pkg])}
             THEN <<BootImage(chosen[pt.pkg], loop[pt.pkg])>> ELSE <<>>]
        /\ info' = {chosen[p] : p \in Packages}
  <2>1. PICK chosen \in [Packages -> Files], loop \in [Packages -> Loops] :
          LET image == [p \in Packages |-> BootImage(chosen[p], loop[p])] IN
          /\ mounts' = [pt \in Points |->
               IF pt \in {ActivePoint(pt.pkg), IdPoint(chosen[pt.pkg])}
               THEN <<image[pt.pkg]>> ELSE <<>>]
          /\ info' = {chosen[p] : p \in Packages}
    BY DEF Boot
  <2> DEFINE image == [p \in Packages |-> BootImage(chosen[p], loop[p])]
  <2>2. \A pt \in Points : image[pt.pkg] = BootImage(chosen[pt.pkg], loop[pt.pkg])
    BY PointTypes
  <2>3. mounts' = [pt \in Points |->
               IF pt \in {ActivePoint(pt.pkg), IdPoint(chosen[pt.pkg])}
               THEN <<image[pt.pkg]>> ELSE <<>>]
    BY <2>1
  <2> HIDE DEF image
  <2> QED
    BY <2>1, <2>2, <2>3
<1>2. ASSUME NEW p \in Packages
      PROVE  Shown(p)' = chosen[p]
  <2>1. ActivePoint(p) \in Points /\ ActivePoint(p).pkg = p
    BY ActivePointFacts
  <2>2. mounts'[ActivePoint(p)] = <<BootImage(chosen[p], loop[p])>>
    BY <1>1, <2>1
  <2>3. BootImage(chosen[p], loop[p]).file = chosen[p]
    BY DEF BootImage
  <2> QED
    BY <2>2, <2>3 DEF Shown, Top
<1>3. info' = ShownFiles'
  BY <1>1, <1>2 DEF ShownFiles
<1>4. \A t \in Threads : pc'[t] = "idle"
  BY CallFacts DEF Boot
<1> QED
  BY <1>3, <1>4 DEF InfoInv

LEMMA InfoInstall ==
  ASSUME OneCall, TypeInv, SafeInv, InfoInv, NEW t \in Threads, Install(t) \/ Stage(t)
  PROVE  InfoInv'
<1> USE DEF mounted, disk, memory, mainVars, bounds, history
<1>1. PICK p \in Packages :
        /\ MayCall(p)
        /\ \E d : /\ call' = [call EXCEPT ![t] = d] /\ d.new.pkg = p
                  /\ \/ d.op = "stage"
                     \/ /\ d.op = "install"
                        /\ \E e \in GetLatestMountedApex(p) : d.cur = e.image.file
  <2>1. CASE Install(t)
    <3>1. PICK p \in Packages, v \in Versions, force \in Forces :
            /\ MayCall(p)
            /\ \E e \in GetLatestMountedApex(p) :
                 /\ Exists(e.image.file)
                 /\ v >= e.image.file.ver
                 /\ call' = [call EXCEPT ![t] =
                      [NoCall EXCEPT !.op = "install", !.new = Upload(p, v), !.force = force,
                                     !.cur = e.image.file, !.ok = TRUE]]
      BY <2>1 DEF Install
    <3>2. PICK e \in GetLatestMountedApex(p) :
            call' = [call EXCEPT ![t] =
              [NoCall EXCEPT !.op = "install", !.new = Upload(p, v), !.force = force,
                             !.cur = e.image.file, !.ok = TRUE]]
      BY <3>1
    <3>3. PICK d : d = [NoCall EXCEPT !.op = "install", !.new = Upload(p, v), !.force = force,
                                      !.cur = e.image.file, !.ok = TRUE]
      OBVIOUS
    <3>4. d.op = "install" /\ d.new.pkg = p /\ d.cur = e.image.file
      BY <3>3 DEF NoCall, Upload
    <3> QED
      BY ZenonT(60), <3>1, <3>2, <3>3, <3>4
  <2>2. CASE Stage(t)
    <3>1. PICK p \in Packages, v \in Versions :
            /\ MayCall(p)
            /\ call' = [call EXCEPT ![t] =
                 [NoCall EXCEPT !.op = "stage", !.new = Upload(p, v), !.ok = TRUE]]
      BY <2>2 DEF Stage
    <3>2. PICK d : d = [NoCall EXCEPT !.op = "stage", !.new = Upload(p, v), !.ok = TRUE]
      OBVIOUS
    <3>3. d.op = "stage" /\ d.new.pkg = p
      BY <3>2 DEF NoCall, Upload
    <3> QED
      BY <3>1, <3>2, <3>3
  <2> QED
    BY <2>1, <2>2
<1>2. /\ main # "off" /\ \A u \in Threads : pc[u] = "idle"
      /\ UNCHANGED <<mounts, info, main>>
  BY <1>1 DEF MayCall, OneCall, Idle, Install, Stage
<1>3. info = ShownFiles /\ PackageInv(p)
  BY <1>2 DEF InfoInv, Idle, SafeInv, MountInv
<1>4. /\ pc'[t] = "tempMount" /\ \A u \in Threads : u # t => pc'[u] = "idle"
  BY <1>2 DEF Install, Stage, Goto, TypeInv, TypeOK
<1>5. \A q : Shown(q)' = Shown(q)
  BY <1>2, ShownFrame
<1>6. \A f : FilesBut(p, f)' = FilesBut(p, f) /\ ShownFiles' = ShownFiles
  BY <1>5, FilesButFrame
<1>7. PackageAt(p, "idle", NoCall)
  BY <1>2, <1>3 DEF PackageInv, Attends
<1>8. ASSUME NEW e \in GetLatestMountedApex(p)
      PROVE  Shown(p) = e.image.file
  <2>1. PICK x \in EntriesOf(p) : Stands(p, x, TRUE, TRUE)
    BY <1>7 DEF PackageAt, ActivePart, BoundAt
  <2>2. e \in Permanent(p)
    BY <1>8 DEF GetLatestMountedApex, Latest, GreatestOf, Permanent
  <2>3. e = x
    BY <2>1, <2>2 DEF Stands
  <2> QED
    BY <2>1, <2>3, ShownIs
<1>9. PICK d : d = call'[t]
  OBVIOUS
<1>10. /\ Package(t)' = p
       /\ d.op = "stage" \/ (d.op = "install" /\ d.cur = Shown(p))
  <2>1. call \in [Threads -> CallType]
    BY DEF TypeInv, TypeOK
  <2> QED
    BY <1>1, <1>8, <1>9, <2>1 DEF Package
<1>11. InfoAt(p, "tempMount", d)'
  <2>1. d.op = "install" => info' = FilesBut(p, d.cur)'
    BY <1>2, <1>3, <1>6, <1>10, FilesButShown
  <2>2. d.op = "stage" => info' = ShownFiles'
    BY <1>2, <1>3, <1>6
  <2> QED
    BY <2>1, <2>2 DEF InfoAt
<1>12. InfoAt(Package(t), pc[t], call[t])'
  BY <1>4, <1>9, <1>10, <1>11
<1> QED
  BY <1>4, <1>12 DEF InfoInv, Idle

LEMMA InfoNext ==
  ASSUME OneCall, Recoverable, "write" \notin Failures, TypeInv, SafeInv, CheckInv, InfoInv,
         [Next]_vars
  PROVE  InfoInv'
<1> USE DEF mounted, disk, memory, mainVars, bounds, history
<1>1. CASE Release \/ CleanUp \/ UNCHANGED vars
  <2>1. UNCHANGED <<mounts, info, pc, call>> /\ (main' # "off" => main # "off")
    BY <1>1 DEF Release, ReleaseDetached, CleanUp, ScanFiles, CheckFile, UnlinkInactive, CleanedUp, vars
  <2>2. \A q : Shown(q)' = Shown(q)
    BY <2>1, ShownFrame
  <2>3. ShownFiles' = ShownFiles
    BY <2>2 DEF ShownFiles
  <2>4. \A p, f : FilesBut(p, f)' = FilesBut(p, f)
    BY <2>2, FilesButFrame
  <2>5. ASSUME NEW t \in Threads, InfoAt(Package(t), pc[t], call[t])
        PROVE  InfoAt(Package(t), pc[t], call[t])'
    <3>1. PICK p, l, c : p = Package(t) /\ l = pc[t] /\ c = call[t]
      OBVIOUS
    <3>2. InfoAt(p, l, c)'
      BY <2>1, <2>3, <2>4, <2>5, <3>1 DEF InfoAt
    <3>3. Package(t)' = p /\ pc'[t] = l /\ call'[t] = c
      BY <2>1, <3>1 DEF Package
    <3> QED
      BY <3>2, <3>3
  <2> QED
    BY <2>1, <2>3, <2>5 DEF InfoInv, Idle
<1>2. CASE PowerLoss
  BY <1>2 DEF PowerLoss, PowerOff, InfoInv
<1>3. CASE Boot
  BY <1>3, InfoBoot
<1>4. ASSUME NEW t \in Threads, Install(t) \/ Stage(t) \/ Serve(t)
      PROVE  InfoInv'
  BY <1>4, InfoInstall, InfoServe
<1> QED
  BY <1>1, <1>2, <1>3, <1>4 DEF Next

(* InfoListIsCurrent: when calls do not overlap and the file can be         *)
(* written, UpdateApexInfoList leaves in apex-info-list.xml what            *)
(* /apex/name shows, also when the install failed and the old APEX is back. *)
THEOREM InfoListStaysCurrent ==
  ASSUME OneCall, Recoverable, "write" \notin Failures
  PROVE  Spec => []InfoListIsCurrent
<1>1. Init => CheckInv /\ InfoInv
  BY DEF Init, CheckInv, AloneInv, FreshInv, InfoInv
<1>2. AllInv /\ CheckInv /\ InfoInv /\ [Next]_vars => CheckInv' /\ InfoInv'
  BY CheckNext, InfoNext DEF AllInv
<1>3. InfoInv => InfoListIsCurrent
  BY DEF InfoInv, InfoListIsCurrent, Quiet, ShownFiles
<1>4. Spec => []AllInv
  BY Invariant DEF OneCall
<1> QED
  BY <1>1, <1>2, <1>3, <1>4, PTL DEF Spec
=============================================================================
