------------------------ MODULE RebootlessSafety_proofs ------------------------
(* What InstallPackage leaves, for every value of the constants: the        *)
(* database and the kernel agree, what was accepted is active and is what   *)
(* the next boot takes, and no device is left over.                        *)
EXTENDS RebootlessInstall_proofs, FiniteSetTheorems, WellFoundedInduction

(* The configurations: calls on one package, and the clean-up after boot    *)
(* and calls, do not overlap; nothing fails that InstallPackage does not    *)
(* make up for (section 4 of the README says what happens otherwise).      *)
OneCallAPackage == "package" \notin Overlap /\ "cleanup" \notin Overlap
Recoverable == Failures \cap {"unmountId", "bind", "undo", "unlink"} = {}

-----------------------------------------------------------------------------
(* Who works on what.                                                      *)

Attends(t, p) == pc[t] # "idle" /\ Package(t) = p
StageLabels == {"tempMount", "tempAdd", "tempUnmount", "tempRemove", "dropFind", "dropRemove",
                "dropUnmount"}
DropLabels == {"dropFind", "dropRemove", "dropUnmount"}

TurnInv ==
  /\ \A t, u \in Threads : pc[t] # "idle" /\ pc[u] # "idle" /\ Package(t) = Package(u) => t = u
  /\ \A t \in Threads : pc[t] # "idle" => /\ main \in {"wait", "done"}
                                          /\ call[t].new.minor = -2
                                          /\ call[t].op = "install" => pc[t] \notin DropLabels
                                          /\ call[t].op \in {"install", "stage"}
  /\ main = "unlink" => doomed \in Files /\ ~IsMounted(doomed)

-----------------------------------------------------------------------------
(* Where the APEX of a package is, at each label of a call on it.           *)

Permanent(p) == {e \in EntriesOf(p) : ~IsTemp(e)}
Temporary(p) == {e \in EntriesOf(p) : IsTemp(e)}

(* The devices of p: those of activated APEXes have a number.               *)
ActiveDevices(p) == {d \in devices : d.name.pkg = p /\ d.name.minor >= 0}
TempDevices(p) == {d \in devices : d.name.pkg = p /\ d.name.minor = -1}

(* They are that of the mounted APEX, and those that go with a detached     *)
(* image.                                                                  *)
DevicesAre(p, dev) ==
  \A d \in ActiveDevices(p) :
    IF d.name = dev THEN ~d.deferred ELSE d.deferred /\ \E m \in detached : m.dev = d.name

(* e is mounted; it may be in the database, and bound at /apex/name.        *)
Stands(p, e, known, bound) ==
  /\ e \in Entries /\ e.image.file.pkg = p /\ e.point = IdPoint(e.image.file)
  /\ Permanent(p) = IF known THEN {e} ELSE {}
  /\ \A pt \in Points : pt.pkg = p /\ pt.kind # "temp" =>
       mounts[pt] = IF pt = e.point \/ (bound /\ pt = ActivePoint(p)) THEN <<e.image>> ELSE <<>>
  /\ DevicesAre(p, e.image.dev)
  /\ e.image.dev # NoName => /\ e.image.dev.pkg = p /\ e.image.dev.minor >= 0
                             /\ \E d \in ActiveDevices(p) : d.name = e.image.dev

(* Nothing of p is mounted.                                                *)
Fallen(p) ==
  /\ Permanent(p) = {}
  /\ \A pt \in Points : pt.pkg = p /\ pt.kind # "temp" => mounts[pt] = <<>>
  /\ DevicesAre(p, NoName)

BoundAt == {"idle", "minor", "unload", "unmount", "accept", "collect", "write", "reload"}
             \cup TempLabels
NewIsActive(l, c) == l \in {"accept", "collect", "write"} \/ (l = "reload" /\ c.ok)
(* a file that the next boot finds *)
Kept(p, f) == f \in DataFiles(p) \/ f = BuiltIn(p)

ActivePart(p, l, c) ==
  /\ l \in BoundAt => \E e \in EntriesOf(p) :
       /\ Stands(p, e, TRUE, TRUE)
       /\ IF NewIsActive(l, c) THEN e.image.file = c.target
          ELSE /\ e.image.file.ver = accepted[p] /\ Kept(p, e.image.file)
               /\ c.op = "install" => e.image.file = c.cur
  /\ l = "forget" => Stands(p, c.entry, TRUE, FALSE) /\ c.entry.image.file = c.cur
  /\ l = "unmountId" => Stands(p, c.entry, FALSE, FALSE) /\ c.entry.image.file = c.cur
  /\ l \in {"link", "activate", "mount", "undo"} => Fallen(p)
  /\ l = "add" => Stands(p, c.entry, FALSE, FALSE) /\ c.entry.image.file = c.target
  /\ l = "bind" => Stands(p, c.entry, TRUE, FALSE) /\ c.entry.image.file = c.target

(* The temporary mount: there between mounting and unmounting it, and       *)
(* afterwards only if that failed.                                         *)
TempMounted(p, l) ==
  \/ l \in {"tempAdd", "tempUnmount", "dropRemove", "dropUnmount"}
  \/ l = "dropFind" /\ Temporary(p) # {}

TempPart(p, l, c) ==
  /\ \A pt \in Points : pt.pkg = p /\ pt.kind = "temp" /\ mounts[pt] # <<>> =>
       /\ mounts[pt] = <<Top(pt)>> /\ Top(pt).dev = [pkg |-> p, ver |-> pt.ver, minor |-> -1]
       /\ faults > 0 \/ (TempMounted(p, l) /\ pt = TempPoint(c.new))
  /\ \A d \in TempDevices(p) :
       /\ ~d.deferred
       /\ faults > 0 \/ (TempMounted(p, l) /\ d.name = TempName(c.new))
  /\ Temporary(p) = IF l \in {"tempUnmount", "tempRemove", "dropRemove"}
                       \/ (l = "dropFind" /\ Temporary(p) # {})
                    THEN {c.entry} ELSE {}
  /\ TempMounted(p, l) \/ l = "tempRemove" =>
       /\ c.entry \in Entries /\ c.entry.image.file = c.new
       /\ c.entry.point = TempPoint(c.new) /\ c.entry.image.dev = TempName(c.new)
  /\ TempMounted(p, l) => /\ mounts[c.entry.point] = <<c.entry.image>>
                          /\ \E d \in TempDevices(p) : d.name = TempName(c.new)

(* The files of p in /data/apex/active.                                    *)
Linked(l, c) ==
  c.ok /\ l \in {"activate", "mount", "add", "bind", "accept", "collect", "write", "reload"}
NewTarget(c) == Target(c.new, c.minor)

FilesPart(p, l, c) ==
  /\ PreVersion[p] <= accepted[p]
  /\ \A f \in DataFiles(p) :
       f.ver <= accepted[p] \/ (c.ok /\ (Linked(l, c) \/ l = "undo") /\ f = NewTarget(c))
  /\ c.op = "install" => /\ c.cur \in Files /\ c.cur.ver = accepted[p] /\ c.cur.pkg = p
                         /\ c.new.ver >= accepted[p]
                         /\ (NewIsActive(l, c) /\ l # "accept") \/ Kept(p, c.cur)
  /\ l \in {"unload", "unmount", "forget", "unmountId", "link"} => NewTarget(c) \notin DataFiles(p) /\ c.ok
  /\ l \in UnloadedLabels \cup {"unload"} => c.minor >= 1 /\ NewTarget(c) # c.cur
  /\ Linked(l, c) => c.target = NewTarget(c) /\ c.target \in DataFiles(p)
  /\ l = "undo" => c.ok /\ c.target = NewTarget(c)
  /\ l \in {"minor", "accept", "collect", "write"} => c.ok
  /\ ~c.ok /\ l \in {"activate", "mount", "add", "bind"} => c.target = c.cur

(* The number of the new device is above those of all others.               *)
MinorPart(p, l, c) ==
  l \in {"unload", "unmount", "forget", "unmountId", "link", "activate", "mount", "undo"} =>
    \A d \in ActiveDevices(p) : d.name.minor < c.minor

PackageAt(p, l, c) ==
  ActivePart(p, l, c) /\ TempPart(p, l, c) /\ FilesPart(p, l, c) /\ MinorPart(p, l, c)

(* What processes still use is an image of /apex/name.                     *)
DetachedInv == \A m \in detached : m.dev # NoName => m.dev.minor >= 0

PackageInv(p) ==
  /\ \A t \in Threads : Attends(t, p) => PackageAt(p, pc[t], call[t])
  /\ (\A t \in Threads : ~Attends(t, p)) => PackageAt(p, "idle", NoCall)

MountInv == main # "off" => \A p \in Packages : PackageInv(p)
SafeInv == TurnInv /\ DetachedInv /\ MountInv

-----------------------------------------------------------------------------
(* Points, devices and images.                                             *)

LEMMA PointFacts ==
  ASSUME NEW f \in Files
  PROVE  /\ ActivePoint(f.pkg) \in Points /\ IdPoint(f) \in Points /\ TempPoint(f) \in Points
         /\ ActivePoint(f.pkg).pkg = f.pkg /\ IdPoint(f).pkg = f.pkg /\ TempPoint(f).pkg = f.pkg
         /\ ActivePoint(f.pkg).kind = "active" /\ IdPoint(f).kind = "id"
         /\ TempPoint(f).kind = "temp" /\ TempPoint(f).ver = f.ver
         /\ ActivePoint(f.pkg) # IdPoint(f)
BY FileTypes DEF ActivePoint, IdPoint, TempPoint

LEMMA PointTypes == ASSUME NEW pt \in Points PROVE pt.pkg \in Packages /\ pt.kind \in {"active", "id", "temp"}
BY DEF Points

LEMMA ActivePointFacts ==
  ASSUME NEW p \in Packages
  PROVE  /\ ActivePoint(p) \in Points /\ ActivePoint(p).pkg = p /\ ActivePoint(p).kind = "active"
         /\ \A pt \in Points : pt.kind = "active" => pt = ActivePoint(pt.pkg)
BY DEF ActivePoint, Points

LEMMA DeviceTypes ==
  ASSUME TypeInv, NEW d \in devices
  PROVE  /\ d.name \in Names /\ d.name # NoName /\ d.name.pkg \in Packages /\ d.name.minor \in Int
         /\ d.name.minor >= 0 \/ d.name.minor = -1
         /\ d.loop \in Loops /\ d.deferred \in BOOLEAN
         /\ d = [name |-> d.name, loop |-> d.loop, deferred |-> d.deferred]
<1>1. d \in [name : Names, loop : Loops, deferred : BOOLEAN]
  BY DEF TypeInv, TypeOK, MountedTypeOK
<1>2. d.name \in Names /\ d.loop \in Loops /\ d.deferred \in BOOLEAN
  BY <1>1
<1>3. d = [name |-> d.name, loop |-> d.loop, deferred |-> d.deferred]
  BY <1>1
<1>4. d.name.pkg \in Packages /\ d.name.minor \in -1 .. MaxMinor + 1
  BY <1>2 DEF Names
<1>5. d.name # NoName
  BY <1>2, NoneIsNothing DEF NoName
<1> QED
  BY <1>2, <1>3, <1>4, <1>5, VersionsAssumption

LEMMA NameTypes ==
  ASSUME NEW n \in Names
  PROVE  /\ n # NoName /\ n.pkg \in Packages /\ n.minor \in Int
         /\ n.minor >= 0 \/ n.minor = -1
BY NoneIsNothing, VersionsAssumption DEF Names, NoName

(* A package has its APEX somewhere, or nothing mounted.                    *)
LEMMA PackageForm ==
  ASSUME NEW p, NEW l \in Labels, NEW c, ActivePart(p, l, c)
  PROVE  \/ Fallen(p)
         \/ \E e \in Entries, known \in BOOLEAN, bound \in BOOLEAN : Stands(p, e, known, bound)
<1>1. CASE l \in BoundAt
  <2>1. PICK e \in EntriesOf(p) : Stands(p, e, TRUE, TRUE)
    BY <1>1 DEF ActivePart
  <2>2. e \in Entries
    BY <2>1 DEF Stands
  <2> QED
    BY <2>1, <2>2
<1>2. CASE l \in {"link", "activate", "mount", "undo"}
  BY <1>2 DEF ActivePart
<1>3. ASSUME l \in {"forget", "unmountId", "add", "bind"}
      PROVE  \E known, bound \in BOOLEAN : Stands(p, c.entry, known, bound)
  BY <1>3 DEF ActivePart
<1>4. CASE l \in {"forget", "unmountId", "add", "bind"}
  <2>1. PICK known \in BOOLEAN, bound \in BOOLEAN : Stands(p, c.entry, known, bound)
    BY <1>3, <1>4
  <2>2. c.entry \in Entries
    BY <2>1 DEF Stands
  <2> QED
    BY <2>1, <2>2
<1> QED
  BY <1>1, <1>2, <1>4 DEF Labels, BoundAt, TempLabels, UnloadedLabels

LEMMA At ==
  ASSUME TypeInv, MountInv, main # "off", NEW p \in Packages
  PROVE  \E l \in Labels, c \in CallType : PackageAt(p, l, c)
<1>1. PackageInv(p)
  BY DEF MountInv
<1>2. CASE \E t \in Threads : Attends(t, p)
  BY <1>1, <1>2 DEF PackageInv, TypeInv, TypeOK
<1>3. CASE \A t \in Threads : ~Attends(t, p)
  <2>1. "idle" \in Labels /\ NoCall \in CallType
    BY NoCallType, VersionsAssumption DEF Labels
  <2> QED
    BY <1>1, <1>3, <2>1 DEF PackageInv
<1> QED
  BY <1>2, <1>3

(* A device marked to be removed is one that a detached image needs.        *)
LEMMA Deferred ==
  ASSUME TypeInv, MountInv, main # "off", NEW d \in devices, d.deferred
  PROVE  \E m \in detached : m.dev = d.name
<1> DEFINE p == d.name.pkg
<1>1. p \in Packages /\ (d.name.minor >= 0 \/ d.name.minor = -1)
  BY DeviceTypes
<1>2. PICK l \in Labels, c \in CallType : PackageAt(p, l, c)
  BY <1>1, At
<1>3. CASE d.name.minor = -1
  <2>1. d \in TempDevices(p)
    BY <1>3 DEF TempDevices
  <2> QED
    BY <1>2, <2>1 DEF PackageAt, TempPart
<1>4. CASE d.name.minor >= 0
  <2>1. d \in ActiveDevices(p)
    BY <1>4 DEF ActiveDevices
  <2>2. Fallen(p) \/ \E e \in Entries, known \in BOOLEAN, bound \in BOOLEAN : Stands(p, e, known, bound)
    BY <1>2, PackageForm DEF PackageAt
  <2>3. \E dev : DevicesAre(p, dev)
    BY <2>2 DEF Fallen, Stands
  <2> QED
    BY <2>1, <2>3 DEF DevicesAre
<1> QED
  BY <1>1, <1>3, <1>4

LEMMA SettledAll ==
  ASSUME TypeInv, MountInv, main # "off", NEW ms, NEW det, detached \subseteq det
  PROVE  Settled(ms, det, devices) = devices
<1>1. ASSUME NEW d \in devices, d.deferred
      PROVE  Uses(ms, det, d.name)
  <2>1. PICK m \in detached : m.dev = d.name
    BY <1>1, Deferred
  <2>2. m \in ImagesIn(ms, det)
    <3> DEFINE S == UNION {{ms[pt][i] : i \in DOMAIN ms[pt]} : pt \in Points}
    <3>1. ImagesIn(ms, det) = S \cup det
      BY DEF ImagesIn
    <3> HIDE DEF S
    <3> QED
      BY <2>1, <3>1
  <2> QED
    BY <2>1, <2>2 DEF Uses
<1> QED
  BY <1>1 DEF Settled

(* Devices are named after the package whose mount points need them.        *)
LEMMA MountedDevices ==
  ASSUME TypeInv, MountInv, main # "off", NEW pt \in Points, NEW i \in DOMAIN mounts[pt],
         mounts[pt][i].dev # NoName
  PROVE  /\ mounts[pt][i].dev.pkg = pt.pkg
         /\ IF pt.kind = "temp" THEN mounts[pt][i].dev.minor = -1 ELSE mounts[pt][i].dev.minor >= 0
<1> DEFINE p == pt.pkg
<1>1. p \in Packages
  BY PointTypes
<1>2. PICK l \in Labels, c \in CallType : PackageAt(p, l, c)
  BY <1>1, At
<1>0. mounts[pt] # <<>>
  OBVIOUS
<1>3. CASE pt.kind = "temp"
  <2>1. mounts[pt] = <<Top(pt)>> /\ Top(pt).dev = [pkg |-> p, ver |-> pt.ver, minor |-> -1]
    BY <1>0, <1>2, <1>3 DEF PackageAt, TempPart
  <2>2. mounts[pt][i] = Top(pt)
    BY <2>1
  <2> QED
    BY <1>3, <2>1, <2>2
<1>4. CASE pt.kind # "temp"
  <2>1. Fallen(p) \/ \E e \in Entries, known \in BOOLEAN, bound \in BOOLEAN : Stands(p, e, known, bound)
    BY <1>2, PackageForm DEF PackageAt
  <2>2. PICK e \in Entries, known \in BOOLEAN, bound \in BOOLEAN : Stands(p, e, known, bound)
    BY <1>0, <1>4, <2>1 DEF Fallen
  <2>3. mounts[pt] = <<e.image>>
    BY <1>0, <1>4, <2>2 DEF Stands
  <2>4. mounts[pt][i] = e.image
    BY <2>3
  <2> QED
    BY <1>4, <2>2, <2>4 DEF Stands
<1> QED
  BY <1>3, <1>4

-----------------------------------------------------------------------------
(* What a step leaves of a package as it is.                               *)

ActiveSame(q) ==
  /\ \A pt \in Points : pt.pkg = q /\ pt.kind # "temp" => mounts'[pt] = mounts[pt]
  /\ ActiveDevices(q)' = ActiveDevices(q)
  /\ detached \subseteq detached'
  /\ Permanent(q)' = Permanent(q)
TempSame(q) ==
  /\ \A pt \in Points : pt.pkg = q /\ pt.kind = "temp" => mounts'[pt] = mounts[pt]
  /\ TempDevices(q)' = TempDevices(q)
  /\ Temporary(q)' = Temporary(q)
  /\ faults \in Nat /\ faults' \in Nat /\ faults' >= faults
FilesSame(q) == DataFiles(q)' = DataFiles(q) /\ accepted'[q] = accepted[q]
Same(q) == ActiveSame(q) /\ TempSame(q) /\ FilesSame(q)

(* Of the same, what is the kernel's.                                      *)
ActiveKernelSame(q) ==
  /\ \A pt \in Points : pt.pkg = q /\ pt.kind # "temp" => mounts'[pt] = mounts[pt]
  /\ ActiveDevices(q)' = ActiveDevices(q)
TempKernelSame(q) ==
  /\ \A pt \in Points : pt.pkg = q /\ pt.kind = "temp" => mounts'[pt] = mounts[pt]
  /\ TempDevices(q)' = TempDevices(q)
KernelSame(q) == ActiveKernelSame(q) /\ TempKernelSame(q)

LEMMA StandsFrame ==
  ASSUME NEW q, NEW e, NEW known, NEW bound, Stands(q, e, known, bound), ActiveSame(q)
  PROVE  Stands(q, e, known, bound)'
<1>1. DevicesAre(q, e.image.dev)'
  BY DEF Stands, DevicesAre, ActiveSame
<1>2. \A pt \in Points : pt.pkg = q /\ pt.kind # "temp" =>
        mounts'[pt] = IF pt = e.point \/ (bound /\ pt = ActivePoint(q)) THEN <<e.image>> ELSE <<>>
  BY DEF Stands, ActiveSame
<1>3. Permanent(q)' = (IF known THEN {e} ELSE {})
  BY DEF Stands, ActiveSame
<1>4. e.image.dev # NoName => \E d \in ActiveDevices(q)' : d.name = e.image.dev
  BY DEF Stands, ActiveSame
<1> QED
  BY <1>1, <1>2, <1>3, <1>4 DEF Stands

LEMMA FallenFrame ==
  ASSUME NEW q, Fallen(q), ActiveSame(q)
  PROVE  Fallen(q)'
<1>1. DevicesAre(q, NoName)'
  BY DEF Fallen, DevicesAre, ActiveSame
<1> QED
  BY <1>1 DEF Fallen, ActiveSame

LEMMA ActiveFrame ==
  ASSUME NEW q, NEW l, NEW c, ActivePart(q, l, c), ActiveSame(q), FilesSame(q)
  PROVE  ActivePart(q, l, c)'
<1>1. ASSUME l \in BoundAt
      PROVE  \E e \in EntriesOf(q)' :
               /\ Stands(q, e, TRUE, TRUE)'
               /\ IF NewIsActive(l, c) THEN e.image.file = c.target
                  ELSE /\ e.image.file.ver = accepted'[q] /\ Kept(q, e.image.file)'
                       /\ c.op = "install" => e.image.file = c.cur
  <2>1. PICK e \in EntriesOf(q) :
          /\ Stands(q, e, TRUE, TRUE)
          /\ IF NewIsActive(l, c) THEN e.image.file = c.target
             ELSE /\ e.image.file.ver = accepted[q] /\ Kept(q, e.image.file)
                  /\ c.op = "install" => e.image.file = c.cur
    BY <1>1 DEF ActivePart
  <2>2. Stands(q, e, TRUE, TRUE)'
    BY <2>1, StandsFrame
  <2>3. e \in Permanent(q)'
    BY <2>2 DEF Stands
  <2>4. e \in EntriesOf(q)'
    BY <2>3 DEF Permanent
  <2>5. Kept(q, e.image.file) => Kept(q, e.image.file)'
    BY DEF Kept, FilesSame
  <2> QED
    BY <2>1, <2>2, <2>4, <2>5 DEF FilesSame
<1>2. \A e, known, bound : Stands(q, e, known, bound) => Stands(q, e, known, bound)'
  BY StandsFrame
<1>3. Fallen(q) => Fallen(q)'
  BY FallenFrame
<1> QED
  BY <1>1, <1>2, <1>3 DEF ActivePart

LEMMA TempFrame ==
  ASSUME NEW q, NEW l, NEW c, TempPart(q, l, c), TempSame(q),
         l # "idle" => c.new \in Files /\ c.new.pkg = q
  PROVE  TempPart(q, l, c)'
<1>1. TempMounted(q, l)' <=> TempMounted(q, l)
  BY DEF TempMounted, TempSame
<1>2. faults > 0 => faults' > 0
  BY DEF TempSame
<1>3. \A pt \in Points : pt.pkg = q /\ pt.kind = "temp" /\ mounts'[pt] # <<>> =>
       /\ mounts'[pt] = <<Top(pt)'>> /\ Top(pt)'.dev = [pkg |-> q, ver |-> pt.ver, minor |-> -1]
       /\ faults' > 0 \/ (TempMounted(q, l)' /\ pt = TempPoint(c.new))
  BY <1>1, <1>2 DEF TempPart, TempSame, Top
<1>4. \A d \in TempDevices(q)' :
       /\ ~d.deferred
       /\ faults' > 0 \/ (TempMounted(q, l)' /\ d.name = TempName(c.new))
  BY <1>1, <1>2 DEF TempPart, TempSame
<1>5. Temporary(q)' = IF l \in {"tempUnmount", "tempRemove", "dropRemove"}
                       \/ (l = "dropFind" /\ Temporary(q)' # {})
                    THEN {c.entry} ELSE {}
  BY DEF TempPart, TempSame
<1>6. TempMounted(q, l)' \/ l = "tempRemove" =>
       /\ c.entry \in Entries /\ c.entry.image.file = c.new
       /\ c.entry.point = TempPoint(c.new) /\ c.entry.image.dev = TempName(c.new)
  BY <1>1 DEF TempPart
<1>7. TempMounted(q, l)' => /\ mounts'[c.entry.point] = <<c.entry.image>>
                            /\ \E d \in TempDevices(q)' : d.name = TempName(c.new)
  <2> SUFFICES ASSUME TempMounted(q, l)
               PROVE  /\ mounts'[c.entry.point] = <<c.entry.image>>
                      /\ \E d \in TempDevices(q)' : d.name = TempName(c.new)
    BY <1>1
  <2>1. c.entry.point = TempPoint(c.new) /\ l # "idle"
    BY DEF TempPart, TempMounted
  <2>2. c.entry.point \in Points /\ c.entry.point.pkg = q /\ c.entry.point.kind = "temp"
    BY <2>1, PointFacts
  <2> QED
    BY <2>2 DEF TempPart, TempSame
<1> QED
  BY <1>3, <1>4, <1>5, <1>6, <1>7 DEF TempPart

LEMMA FilesFrame ==
  ASSUME NEW q, NEW l, NEW c, FilesPart(q, l, c), FilesSame(q)
  PROVE  FilesPart(q, l, c)'
<1>1. \A f : Kept(q, f)' <=> Kept(q, f)
  BY DEF Kept, FilesSame
<1> QED
  BY <1>1 DEF FilesPart, FilesSame, Linked, NewTarget, NewIsActive

(* A package on which a step does not work stays where it is.               *)
LEMMA PackageFrame ==
  ASSUME NEW q, NEW l, NEW c, PackageAt(q, l, c), Same(q),
         l # "idle" => c.new \in Files /\ c.new.pkg = q
  PROVE  PackageAt(q, l, c)'
<1>1. ActivePart(q, l, c)' /\ TempPart(q, l, c)' /\ FilesPart(q, l, c)'
  BY ActiveFrame, TempFrame, FilesFrame DEF PackageAt, Same
<1>2. MinorPart(q, l, c)'
  BY DEF PackageAt, MinorPart, Same, ActiveSame
<1> QED
  BY <1>1, <1>2 DEF PackageAt

-----------------------------------------------------------------------------
(* What the kernel's operators do to the package they work on, and that     *)
(* they leave the others alone.                                            *)

LEMMA MountEffect ==
  ASSUME TypeInv, NEW image \in Images, NEW pt \in Points, MountPackageImpl(image, pt),
         image.dev # NoName => /\ image.dev.pkg = pt.pkg
                               /\ image.dev.minor = -1 <=> pt.kind = "temp",
         pt.kind = "temp" => image.dev # NoName
  PROVE  /\ mounts[pt] = <<>> /\ mounts'[pt] = <<image>> /\ detached' = detached
         /\ \A x \in Points : x # pt => mounts'[x] = mounts[x]
         /\ \A q \in Packages : q # pt.pkg => KernelSame(q)
         /\ pt.kind = "temp" =>
              /\ ActiveKernelSame(pt.pkg)
              /\ TempDevices(pt.pkg)' = {d \in TempDevices(pt.pkg) : d.name # image.dev} \cup
                   {[name |-> image.dev, loop |-> image.loop, deferred |-> FALSE]}
         /\ pt.kind # "temp" =>
              /\ TempKernelSame(pt.pkg)
              /\ ActiveDevices(pt.pkg)' = {d \in ActiveDevices(pt.pkg) : d.name # image.dev} \cup
                   IF image.dev = NoName THEN {}
                   ELSE {[name |-> image.dev, loop |-> image.loop, deferred |-> FALSE]}
<1> DEFINE new == [name |-> image.dev, loop |-> image.loop, deferred |-> FALSE]
           fresh == IF image.dev = NoName THEN {} ELSE {new}
<1>0. image.dev \in Names \cup {NoName} /\ mounts \in [Points -> Seq(Images)]
  BY DEF Images, TypeInv, TypeOK, MountedTypeOK
<1>1. mounts[pt] = <<>> /\ mounts'[pt] = <<image>> /\ detached' = detached
  BY <1>0 DEF MountPackageImpl, Mountable
<1>2. \A x \in Points : x # pt => mounts'[x] = mounts[x]
  BY <1>0 DEF MountPackageImpl
<1>3. devices' = {d \in devices : d.name # image.dev} \cup fresh
  BY DEF MountPackageImpl, Named
<1>4. image.dev # NoName => new.name = image.dev /\ image.dev.minor \in Int
                            /\ (image.dev.minor = -1 \/ image.dev.minor >= 0)
  BY <1>0, NameTypes
<1>5. \A d \in fresh : /\ image.dev # NoName /\ d = new /\ d.name.pkg = pt.pkg
                       /\ d.name.minor = -1 <=> pt.kind = "temp"
                       /\ d.name.minor >= 0 <=> pt.kind # "temp"
  BY <1>4
<1>6. pt.kind = "temp" => fresh = {new}
  OBVIOUS
<1>7. \A d \in devices : image.dev = NoName => d.name # image.dev
  BY DeviceTypes
<1>8. \A d \in devices : d.name = image.dev => d.name.pkg = pt.pkg
                                               /\ (d.name.minor = -1 <=> pt.kind = "temp")
                                               /\ (d.name.minor >= 0 <=> pt.kind # "temp")
  BY <1>4, <1>7
<1> HIDE DEF new, fresh
<1>9. ASSUME NEW q \in Packages, q # pt.pkg
      PROVE  KernelSame(q)
  <2>1. ActiveDevices(q)' = ActiveDevices(q) /\ TempDevices(q)' = TempDevices(q)
    BY <1>3, <1>5, <1>8, <1>9 DEF ActiveDevices, TempDevices
  <2>2. \A x \in Points : x.pkg = q => mounts'[x] = mounts[x]
    BY <1>2, <1>9
  <2> QED
    BY <2>1, <2>2 DEF KernelSame, ActiveKernelSame, TempKernelSame
<1>10. ASSUME pt.kind = "temp"
       PROVE  /\ ActiveKernelSame(pt.pkg)
              /\ TempDevices(pt.pkg)' = {d \in TempDevices(pt.pkg) : d.name # image.dev} \cup {new}
  <2>1. ActiveDevices(pt.pkg)' = ActiveDevices(pt.pkg)
    BY <1>3, <1>5, <1>8, <1>10 DEF ActiveDevices
  <2>2. TempDevices(pt.pkg)' = {d \in TempDevices(pt.pkg) : d.name # image.dev} \cup fresh
    BY <1>3, <1>5, <1>8, <1>10 DEF TempDevices
  <2> QED
    BY <1>2, <1>6, <1>10, <2>1, <2>2 DEF ActiveKernelSame
<1>11. ASSUME pt.kind # "temp"
       PROVE  /\ TempKernelSame(pt.pkg)
              /\ ActiveDevices(pt.pkg)' = {d \in ActiveDevices(pt.pkg) : d.name # image.dev} \cup fresh
  <2>1. TempDevices(pt.pkg)' = TempDevices(pt.pkg)
    BY <1>3, <1>5, <1>8, <1>11 DEF TempDevices
  <2>2. ActiveDevices(pt.pkg)' = {d \in ActiveDevices(pt.pkg) : d.name # image.dev} \cup fresh
    BY <1>3, <1>5, <1>8, <1>11 DEF ActiveDevices
  <2> QED
    BY <1>2, <1>11, <2>1, <2>2 DEF TempKernelSame
<1> QED
  BY <1>1, <1>2, <1>9, <1>10, <1>11 DEF new, fresh

LEMMA NothingMounted ==
  ASSUME TypeInv, devices' = devices, mounts' = mounts
  PROVE  \A q : KernelSame(q)
BY DEF KernelSame, ActiveKernelSame, TempKernelSame, ActiveDevices, TempDevices

(* A failed mount deletes at most the device that had the name.             *)
LEMMA MountFailsEffect ==
  ASSUME TypeInv, NEW p \in Packages, NEW name \in Names \cup {NoName}, MountPackageFails(name),
         name # NoName => name.pkg = p
  PROVE  /\ mounts' = mounts /\ detached' = detached
         /\ \A q \in Packages : q # p => KernelSame(q)
         /\ name # NoName /\ name.minor = -1 => /\ ActiveKernelSame(p)
                                                /\ TempDevices(p)' \subseteq TempDevices(p)
         /\ (name = NoName \/ \A d \in devices : d.name # name) => KernelSame(p)
<1>1. mounts' = mounts /\ detached' = detached /\ devices' \in {devices, {d \in devices : d.name # name}}
  <2>1. devices \ Named(name) = {d \in devices : d.name # name}
    BY DEF Named
  <2> QED
    BY <2>1 DEF MountPackageFails
<1>2. \A d \in devices : d.name = name => name # NoName /\ d.name.pkg = p
  BY DeviceTypes
<1>3. ASSUME NEW q \in Packages, q # p
      PROVE  KernelSame(q)
  BY <1>1, <1>2, <1>3 DEF KernelSame, ActiveKernelSame, TempKernelSame, ActiveDevices, TempDevices
<1>4. ASSUME name # NoName, name.minor = -1
      PROVE  ActiveKernelSame(p) /\ TempDevices(p)' \subseteq TempDevices(p)
  <2>1. \A d \in devices : d.name.minor >= 0 => d.name # name
    BY <1>4
  <2> QED
    BY <1>1, <2>1 DEF ActiveKernelSame, ActiveDevices, TempDevices
<1>5. ASSUME name = NoName \/ \A d \in devices : d.name # name
      PROVE  KernelSame(p)
  <2>1. devices' = devices
    BY <1>1, <1>2, <1>5
  <2> QED
    BY <1>1, <2>1, NothingMounted
<1> QED
  BY <1>1, <1>3, <1>4, <1>5

(* When only mounts change, those of one package.                           *)
LEMMA MountsOf ==
  ASSUME TypeInv, NEW pt \in Points, NEW s, mounts' = [mounts EXCEPT ![pt] = s], devices' = devices
  PROVE  /\ mounts'[pt] = s
         /\ \A x \in Points : x # pt => mounts'[x] = mounts[x]
         /\ \A q \in Packages : q # pt.pkg => KernelSame(q)
         /\ pt.kind # "temp" => TempKernelSame(pt.pkg) /\ ActiveDevices(pt.pkg)' = ActiveDevices(pt.pkg)
         /\ pt.kind = "temp" => ActiveKernelSame(pt.pkg) /\ TempDevices(pt.pkg)' = TempDevices(pt.pkg)
<1>1. mounts \in [Points -> Seq(Images)]
  BY DEF TypeInv, TypeOK, MountedTypeOK
<1>2. mounts'[pt] = s /\ \A x \in Points : x # pt => mounts'[x] = mounts[x]
  BY <1>1
<1>3. \A q : ActiveDevices(q)' = ActiveDevices(q) /\ TempDevices(q)' = TempDevices(q)
  BY DEF ActiveDevices, TempDevices
<1> QED
  BY <1>2, <1>3 DEF KernelSame, ActiveKernelSame, TempKernelSame

(* Taking the only mount away leaves none.                                  *)
LEMMA PoppedOnly ==
  ASSUME TypeInv, NEW pt \in Points, NEW m, mounts[pt] = <<m>>
  PROVE  /\ Popped(pt) = [mounts EXCEPT ![pt] = <<>>] /\ Under(pt) = Popped(pt)
         /\ Top(pt) = m /\ mounts[pt] # <<>>
<1>1. Len(mounts[pt]) = 1 /\ mounts[pt] # <<>> /\ mounts[pt][1] = m
  OBVIOUS
<1>2. SubSeq(mounts[pt], 1, Len(mounts[pt]) - 1) = <<>>
  BY <1>1, mounts[pt] \in Seq(Images), SubSeqEmpty DEF TypeInv, TypeOK, MountedTypeOK
<1>3. mounts[pt] = <<>> => FALSE
  BY <1>1
<1> QED
  BY <1>1, <1>2, <1>3 DEF Popped, Under, Top

LEMMA NothingUnder ==
  ASSUME TypeInv, NEW pt \in Points, mounts[pt] = <<>>
  PROVE  Under(pt) = mounts
BY DEF Under

LEMMA UsesIs ==
  ASSUME NEW ms, NEW det, NEW name
  PROVE  Uses(ms, det, name) <=> \/ \E pt \in Points : \E i \in DOMAIN ms[pt] : ms[pt][i].dev = name
                                 \/ \E m \in det : m.dev = name
<1> DEFINE S == UNION {{ms[pt][i] : i \in DOMAIN ms[pt]} : pt \in Points}
<1>1. \A m : m \in S <=> \E pt \in Points : \E i \in DOMAIN ms[pt] : m = ms[pt][i]
  OBVIOUS
<1>2. Uses(ms, det, name) <=> \E m \in S \cup det : m.dev = name
  BY DEF Uses, ImagesIn
<1> HIDE DEF S
<1> QED
  BY <1>1, <1>2

LEMMA UmountEffect ==
  ASSUME TypeInv, MountInv, main # "off", NEW pt \in Points, NEW detach \in BOOLEAN,
         NEW m, mounts[pt] = <<m>>, Umount(pt, detach)
  PROVE  /\ mounts' = [mounts EXCEPT ![pt] = <<>>] /\ devices' = devices
         /\ detached \subseteq detached' /\ detached' \subseteq detached \cup {m}
<1>1. mounts' = [mounts EXCEPT ![pt] = <<>>] /\ Top(pt) = m
  BY PoppedOnly DEF Umount
<1>2. detached \subseteq detached' /\ detached' \subseteq detached \cup {m}
  BY <1>1 DEF Umount
<1>3. devices' = Settled(mounts', detached', devices)
  BY DEF Umount
<1> QED
  BY <1>1, <1>2, <1>3, SettledAll

LEMMA BindMountEffect ==
  ASSUME TypeInv, MountInv, main # "off", NEW f \in Files, NEW m,
         mounts[ActivePoint(f.pkg)] = <<>>, mounts[IdPoint(f)] = <<m>>, BindMount(f, FALSE)
  PROVE  /\ mounts' = [mounts EXCEPT ![ActivePoint(f.pkg)] = <<m>>] /\ devices' = devices
         /\ detached' = detached
<1>1. ActivePoint(f.pkg) \in Points /\ IdPoint(f) \in Points
  BY PointFacts
<1>2. Under(ActivePoint(f.pkg)) = mounts
  BY <1>1, NothingUnder
<1>3. mounts[ActivePoint(f.pkg)] \o mounts[IdPoint(f)] = <<m>>
  <2>1. mounts[IdPoint(f)] \in Seq(Images)
    BY <1>1 DEF TypeInv, TypeOK, MountedTypeOK
  <2>2. <<>> \o mounts[IdPoint(f)] = mounts[IdPoint(f)]
    BY <2>1, ConcatEmptySeq
  <2> QED
    BY <2>2
<1>4. mounts' = [mounts EXCEPT ![ActivePoint(f.pkg)] = <<m>>]
  BY <1>2, <1>3 DEF BindMount
<1>5. devices' = Settled(mounts', detached, devices) /\ detached' = detached
  BY DEF BindMount
<1> QED
  BY <1>4, <1>5, SettledAll

LEMMA UnmountFailsEffect ==
  ASSUME TypeInv, MountInv, main # "off", NEW e, NEW m, e.point \in Points,
         mounts[e.point] = <<m>>, UnmountFails(e)
  PROVE  /\ mounts' \in {mounts, [mounts EXCEPT ![e.point] = <<>>]} /\ devices' = devices
         /\ detached' = detached
<1>1. mounts' \in {mounts, [mounts EXCEPT ![e.point] = <<>>]}
  BY PoppedOnly DEF UnmountFails
<1>2. devices' = Settled(mounts', detached, devices) /\ detached' = detached
  BY DEF UnmountFails
<1> QED
  BY <1>1, <1>2, SettledAll

(* Unmount marks the device, and it goes unless something needs it.         *)
LEMMA UnmountEffect ==
  ASSUME TypeInv, MountInv, main # "off", NEW e \in Entries, NEW m, mounts[e.point] = <<m>>,
         NEW deferred \in BOOLEAN, Unmount(e, deferred)
  PROVE  /\ mounts' = [mounts EXCEPT ![e.point] = <<>>] /\ detached' = detached
         /\ \A d \in devices : d.name # e.image.dev => d \in devices'
         /\ \A d \in devices' : \/ d \in devices /\ d.name # e.image.dev
                                \/ /\ d.name = e.image.dev /\ d.deferred
                                   /\ \E b \in devices : b.name = d.name
                                   /\ Uses(mounts', detached, d.name)
<1> DEFINE dev == e.image.dev
           marked == {IF d.name = dev THEN [d EXCEPT !.deferred = TRUE] ELSE d : d \in devices}
<1>1. mounts' = [mounts EXCEPT ![e.point] = <<>>] /\ detached' = detached
  BY PoppedOnly, EntryTypes DEF Unmount
<1>2. devices' = Settled(mounts', detached, marked)
  BY DEF Unmount
<1>3. ASSUME NEW d \in devices, d.name # dev
      PROVE  d \in devices'
  <2>1. d \in marked
    BY <1>3
  <2>2. d.deferred => Uses(mounts', detached, d.name)
    BY Deferred, UsesIs
  <2> HIDE DEF marked
  <2> QED
    BY <1>2, <2>1, <2>2 DEF Settled
<1>4. ASSUME NEW d \in devices'
      PROVE  \/ d \in devices /\ d.name # dev
             \/ /\ d.name = dev /\ d.deferred /\ \E b \in devices : b.name = d.name
                /\ Uses(mounts', detached, d.name)
  <2>1. d \in marked /\ (d.deferred => Uses(mounts', detached, d.name))
    <3> HIDE DEF marked
    <3> QED
      BY <1>2 DEF Settled
  <2>2. PICK b \in devices : d = IF b.name = dev THEN [b EXCEPT !.deferred = TRUE] ELSE b
    BY <2>1
  <2>3. b = [name |-> b.name, loop |-> b.loop, deferred |-> b.deferred]
    BY DeviceTypes
  <2>4. CASE b.name = dev
    <3>1. d.name = b.name /\ d.deferred
      BY <2>2, <2>3, <2>4
    <3> QED
      BY <2>1, <2>4, <3>1
  <2> QED
    BY <2>2, <2>4
<1> QED
  BY <1>1, <1>3, <1>4

(* UnmountPackage's second unmount: the device goes, or is deferred.        *)
LEMMA UnmountActiveEffect ==
  ASSUME TypeInv, MountInv, main # "off", NEW p \in Packages, NEW e, Stands(p, e, FALSE, FALSE),
         Unmount(e, TRUE)
  PROVE  /\ mounts' = [mounts EXCEPT ![e.point] = <<>>] /\ detached' = detached
         /\ \A q \in Packages : q # p => KernelSame(q)
         /\ TempKernelSame(p) /\ DevicesAre(p, NoName)'
         /\ \A d \in ActiveDevices(p)' : \E b \in ActiveDevices(p) : b.name = d.name
<1> DEFINE dev == e.image.dev
<1>1. e \in Entries /\ e.point \in Points /\ e.point.pkg = p /\ e.point.kind = "id"
  BY PointFacts, EntryTypes DEF Stands
<1>2. mounts[e.point] = <<e.image>>
  BY <1>1 DEF Stands
<1>3. /\ mounts' = [mounts EXCEPT ![e.point] = <<>>] /\ detached' = detached
      /\ \A d \in devices : d.name # dev => d \in devices'
      /\ \A d \in devices' : \/ d \in devices /\ d.name # dev
                             \/ /\ d.name = dev /\ d.deferred
                                /\ \E b \in devices : b.name = d.name
                                /\ Uses(mounts', detached, d.name)
  BY <1>1, <1>2, UnmountEffect
<1>4. \A d \in devices : d.name = dev => d.name.pkg = p /\ d.name.minor >= 0 /\ d.name.minor # -1
  BY DeviceTypes DEF Stands
<1>5. mounts \in [Points -> Seq(Images)]
  BY DEF TypeInv, TypeOK, MountedTypeOK
<1>6. mounts'[e.point] = <<>> /\ \A x \in Points : x # e.point => mounts'[x] = mounts[x]
  BY <1>1, <1>3, <1>5
<1>7. ASSUME NEW q \in Packages, q # p
      PROVE  KernelSame(q)
  BY <1>1, <1>3, <1>4, <1>6, <1>7 DEF KernelSame, ActiveKernelSame, TempKernelSame, ActiveDevices, TempDevices
<1>8. TempKernelSame(p)
  BY <1>1, <1>3, <1>4, <1>6 DEF TempKernelSame, TempDevices
<1>9. ASSUME NEW pt \in Points, NEW i \in DOMAIN mounts'[pt]
      PROVE  dev # NoName => mounts'[pt][i].dev # dev
  <2>1. pt # e.point /\ mounts'[pt] = mounts[pt]
    BY <1>6
  <2>2. dev # NoName /\ mounts[pt][i].dev = dev => pt.pkg = p /\ pt.kind # "temp"
    BY <2>1, MountedDevices DEF Stands
  <2>3. pt.pkg = p /\ pt.kind # "temp" => mounts[pt] = <<>>
    BY <2>1 DEF Stands
  <2> QED
    BY <2>1, <2>2, <2>3
<1>10. DevicesAre(p, NoName)'
  <2> SUFFICES ASSUME NEW d \in ActiveDevices(p)'
               PROVE  d.name # NoName /\ d.deferred /\ \E m \in detached' : m.dev = d.name
    BY DEF DevicesAre
  <2>1. d \in devices' /\ d.name.pkg = p /\ d.name.minor >= 0
    BY DEF ActiveDevices
  <2>2. \E b \in devices : b.name = d.name
    BY <1>3, <2>1
  <2>3. d.name # NoName
    BY <2>2, DeviceTypes
  <2>4. CASE d \in devices /\ d.name # dev
    <3>1. d \in ActiveDevices(p)
      BY <2>1, <2>4 DEF ActiveDevices
    <3> QED
      BY <1>3, <2>3, <2>4, <3>1 DEF Stands, DevicesAre
  <2>5. CASE d.name = dev /\ d.deferred /\ Uses(mounts', detached, d.name)
    <3>1. \E m \in detached : m.dev = d.name
      BY <1>9, <2>3, <2>5, UsesIs
    <3> QED
      BY <1>3, <2>3, <2>5, <3>1
  <2> QED
    BY <1>3, <2>1, <2>4, <2>5
<1>11. ASSUME NEW d \in ActiveDevices(p)'
       PROVE  \E b \in ActiveDevices(p) : b.name = d.name
  <2>1. d \in devices' /\ d.name.pkg = p /\ d.name.minor >= 0
    BY DEF ActiveDevices
  <2>2. PICK b \in devices : b.name = d.name
    BY <1>3, <2>1
  <2>3. b \in ActiveDevices(p)
    BY <2>1, <2>2 DEF ActiveDevices
  <2> QED
    BY <2>2, <2>3
<1> QED
  BY <1>3, <1>7, <1>8, <1>10, <1>11

(* A temporary mount goes with its device.                                  *)
LEMMA UnmountTempEffect ==
  ASSUME TypeInv, MountInv, main # "off", NEW p \in Packages, NEW e \in Entries,
         mounts[e.point] = <<e.image>>, e.point.pkg = p, e.point.kind = "temp",
         e.image.dev # NoName, e.image.dev.pkg = p, e.image.dev.minor = -1,
         Deletable(e, FALSE), Unmount(e, FALSE)
  PROVE  /\ mounts' = [mounts EXCEPT ![e.point] = <<>>] /\ detached' = detached
         /\ \A q \in Packages : q # p => KernelSame(q)
         /\ ActiveKernelSame(p) /\ TempDevices(p)' = {d \in TempDevices(p) : d.name # e.image.dev}
<1> DEFINE dev == e.image.dev
<1>1. e.point \in Points
  BY EntryTypes
<1>2. /\ mounts' = [mounts EXCEPT ![e.point] = <<>>] /\ detached' = detached
      /\ \A d \in devices : d.name # dev => d \in devices'
      /\ \A d \in devices' : \/ d \in devices /\ d.name # dev
                             \/ d.name = dev /\ Uses(mounts', detached, d.name)
  BY UnmountEffect
<1>3. mounts \in [Points -> Seq(Images)]
  BY DEF TypeInv, TypeOK, MountedTypeOK
<1>4. mounts'[e.point] = <<>> /\ \A x \in Points : x # e.point => mounts'[x] = mounts[x]
  BY <1>1, <1>2, <1>3
<1>5. ~Uses(mounts', detached, dev)
  BY DEF Deletable, Unmount
<1>6. \A d : d \in devices' <=> d \in devices /\ d.name # dev
  BY <1>2, <1>5
<1>7. ASSUME NEW q \in Packages, q # p
      PROVE  KernelSame(q)
  BY <1>1, <1>4, <1>6, <1>7 DEF KernelSame, ActiveKernelSame, TempKernelSame, ActiveDevices, TempDevices
<1>8. ActiveKernelSame(p)
  BY <1>1, <1>4, <1>6 DEF ActiveKernelSame, ActiveDevices
<1>9. TempDevices(p)' = {d \in TempDevices(p) : d.name # dev}
  BY <1>6 DEF TempDevices
<1> QED
  BY <1>2, <1>7, <1>8, <1>9

-----------------------------------------------------------------------------
(* What a step does to the database, package by package.                    *)

DatabaseSame(q) == Permanent(q)' = Permanent(q) /\ Temporary(q)' = Temporary(q)

LEMMA DatabaseUnchanged == db' = db => \A q : DatabaseSame(q)
BY DEF DatabaseSame, Permanent, Temporary, EntriesOf

LEMMA AddEffect ==
  ASSUME NEW e, AddMountedApex(e)
  PROVE  /\ ~Duplicate(e)
         /\ \A q : q # e.image.file.pkg => DatabaseSame(q)
         /\ Permanent(e.image.file.pkg)' =
              Permanent(e.image.file.pkg) \cup IF IsTemp(e) THEN {} ELSE {e}
         /\ Temporary(e.image.file.pkg)' =
              Temporary(e.image.file.pkg) \cup IF IsTemp(e) THEN {e} ELSE {}
<1>1. ~Duplicate(e) /\ db' = db \cup {e}
  BY DEF AddMountedApex
<1>2. \A q : EntriesOf(q)' = EntriesOf(q) \cup {x \in {e} : x.image.file.pkg = q}
  BY <1>1 DEF EntriesOf
<1>3. \A q : /\ Permanent(q)' = Permanent(q) \cup {x \in {e} : x.image.file.pkg = q /\ ~IsTemp(x)}
             /\ Temporary(q)' = Temporary(q) \cup {x \in {e} : x.image.file.pkg = q /\ IsTemp(x)}
  BY <1>2 DEF Permanent, Temporary, IsTemp
<1> QED
  BY <1>1, <1>3 DEF DatabaseSame

LEMMA WithPathIs ==
  ASSUME NEW f
  PROVE  /\ WithPath(f, TRUE) = {x \in Temporary(f.pkg) : x.image.file = f}
         /\ WithPath(f, FALSE) = {x \in Permanent(f.pkg) : x.image.file = f}
<1>1. WithPath(f, TRUE) = {x \in EntriesOf(f.pkg) : x.image.file = f /\ IsTemp(x) = TRUE}
  BY DEF WithPath
<1>2. WithPath(f, FALSE) = {x \in EntriesOf(f.pkg) : x.image.file = f /\ IsTemp(x) = FALSE}
  BY DEF WithPath
<1>3. \A x : IsTemp(x) \in BOOLEAN
  BY DEF IsTemp
<1> QED
  BY <1>1, <1>2, <1>3 DEF Permanent, Temporary

LEMMA NotLessItself ==
  ASSUME NEW e \in Entries
  PROVE  LeastOf({e}) = {e} /\ GreatestOf({e}) = {e}
<1>1. e.image.file.ver \in Int /\ e.image.loop \in Int
  <2>1. e.image.file.ver \in Versions /\ e.image.loop \in Loops
    BY EntryTypes, FileTypes
  <2>2. e.image.file.ver \in Nat
    BY <2>1, VersionsAssumption
  <2>3. e.image.loop \in Nat
    BY <2>1, VersionsAssumption
  <2> QED
    BY <2>2, <2>3
<1>2. ~Less(e, e)
  BY <1>1 DEF Less
<1> QED
  BY <1>2 DEF LeastOf, GreatestOf

LEMMA RemoveEffect ==
  ASSUME NEW e \in Entries, NEW f, e.image.file = f, NEW temp \in BOOLEAN,
         temp => Temporary(f.pkg) = {e}, ~temp => Permanent(f.pkg) = {e},
         RemoveMountedApex(f, temp)
  PROVE  /\ \A q : q # f.pkg => DatabaseSame(q)
         /\ temp => Temporary(f.pkg)' = {} /\ Permanent(f.pkg)' = Permanent(f.pkg)
         /\ ~temp => Permanent(f.pkg)' = {} /\ Temporary(f.pkg)' = Temporary(f.pkg)
<1>1. WithPath(f, temp) = {e}
  BY WithPathIs
<1>2. db' = db \ {e}
  BY <1>1, NotLessItself DEF RemoveMountedApex
<1>3. \A q : EntriesOf(q)' = EntriesOf(q) \ {e}
  BY <1>2 DEF EntriesOf
<1>4. \A q : Permanent(q)' = Permanent(q) \ {e} /\ Temporary(q)' = Temporary(q) \ {e}
  BY <1>3 DEF Permanent, Temporary, IsTemp
<1>5. \A q : q # f.pkg => e \notin Permanent(q) /\ e \notin Temporary(q)
  BY DEF Permanent, Temporary, EntriesOf
<1>6. Permanent(f.pkg) \cap Temporary(f.pkg) = {}
  BY DEF Permanent, Temporary
<1> QED
  BY <1>4, <1>5, <1>6 DEF DatabaseSame

-----------------------------------------------------------------------------
(* A step of a call.                                                       *)

LEMMA SameIs ==
  ASSUME NEW q, KernelSame(q), DatabaseSame(q), detached \subseteq detached', FilesSame(q),
         faults \in Nat, faults' \in Nat, faults' >= faults
  PROVE  Same(q)
BY DEF Same, KernelSame, ActiveKernelSame, TempKernelSame, DatabaseSame, ActiveSame, TempSame

LEMMA CallFacts ==
  ASSUME TypeInv, SafeInv, NEW t \in Threads, pc[t] # "idle"
  PROVE  /\ call[t] \in CallType /\ KnownAt(pc[t], call[t])
         /\ call[t].new \in Files /\ Package(t) \in Packages /\ call[t].new.pkg = Package(t)
         /\ call[t].new.minor = -2
         /\ main \in {"wait", "done"} /\ main # "off"
         /\ PackageAt(Package(t), pc[t], call[t])
         /\ call[t].op = "install" => pc[t] \notin DropLabels
         /\ call[t].op \in {"install", "stage"}
         /\ pc[t] \in Labels /\ faults \in Nat
<1>1. call[t] \in CallType /\ KnownAt(pc[t], call[t]) /\ pc[t] \in Labels /\ faults \in Nat
  BY DEF TypeInv, TypeOK
<1>2. call[t].new \in Files /\ Package(t) \in Packages
  BY <1>1, FileTypes DEF KnownAt, Package
<1>3. /\ main \in {"wait", "done"} /\ call[t].new.minor = -2
      /\ call[t].op = "install" => pc[t] \notin DropLabels
      /\ call[t].op \in {"install", "stage"}
  BY DEF SafeInv, TurnInv
<1>4. PackageAt(Package(t), pc[t], call[t])
  BY <1>2, <1>3 DEF SafeInv, MountInv, PackageInv, Attends
<1> QED
  BY <1>1, <1>2, <1>3, <1>4 DEF Package

Moves(t, l, c) ==
  /\ pc' = [pc EXCEPT ![t] = l]
  /\ call' = [call EXCEPT ![t] = c]
  /\ UNCHANGED <<main, doomed>>

(* The call goes on, or returns; the other packages are left alone.         *)
LEMMA CallStep ==
  ASSUME TypeInv, SafeInv, NEW t \in Threads, pc[t] # "idle", NEW p, p = Package(t),
         NEW l, NEW c, Moves(t, l, c),
         IF l = "idle" THEN c = NoCall
         ELSE /\ c.new = call[t].new /\ c.op = call[t].op
              /\ c.op = "install" => l \notin DropLabels,
         PackageAt(p, l, c)', DetachedInv', \A q \in Packages : q # p => Same(q)
  PROVE  SafeInv'
<1>1. /\ p \in Packages /\ main \in {"wait", "done"} /\ main # "off" /\ call[t].new.minor = -2
      /\ call[t].op \in {"install", "stage"} /\ PackageAt(p, pc[t], call[t])
  BY CallFacts
<1>2. /\ pc'[t] = l /\ call'[t] = c /\ main' = main
      /\ \A u \in Threads : u # t => pc'[u] = pc[u] /\ call'[u] = call[u]
  BY DEF Moves, TypeInv, TypeOK
<1>3. TurnInv'
  <2>1. ASSUME NEW u \in Threads, NEW v \in Threads, pc'[u] # "idle", pc'[v] # "idle",
               Package(u)' = Package(v)'
        PROVE  u = v
    <3>1. \A x \in Threads : pc'[x] # "idle" => pc[x] # "idle" /\ Package(x)' = Package(x)
      BY <1>2 DEF Package
    <3> QED
      BY <2>1, <3>1 DEF SafeInv, TurnInv
  <2>2. ASSUME NEW u \in Threads, pc'[u] # "idle"
        PROVE  /\ main' \in {"wait", "done"} /\ call'[u].new.minor = -2
               /\ call'[u].op = "install" => pc'[u] \notin DropLabels
               /\ call'[u].op \in {"install", "stage"}
    BY <1>1, <1>2, <2>2 DEF SafeInv, TurnInv
  <2>3. main' # "unlink"
    BY <1>1, <1>2
  <2> QED
    BY <2>1, <2>2, <2>3 DEF TurnInv
<1>4. \A u \in Threads : u # t => (Attends(u, p)' <=> Attends(u, p)) /\ ~Attends(u, p)
  <2> SUFFICES ASSUME NEW u \in Threads, u # t
               PROVE  (Attends(u, p)' <=> Attends(u, p)) /\ ~Attends(u, p)
    OBVIOUS
  <2>1. ~(pc[u] # "idle" /\ Package(u) = Package(t))
    BY DEF SafeInv, TurnInv
  <2>2. pc'[u] = pc[u] /\ Package(u)' = Package(u)
    BY <1>2 DEF Package
  <2> QED
    BY <2>1, <2>2 DEF Attends
<1>5. Attends(t, p)' <=> l # "idle"
  BY <1>2 DEF Attends, Package
<1>6. PackageInv(p)'
  <2>1. ASSUME NEW u \in Threads, Attends(u, p)' PROVE PackageAt(p, pc[u], call[u])'
    BY <1>2, <1>4, <2>1
  <2>2. ASSUME \A u \in Threads : ~Attends(u, p)' PROVE PackageAt(p, "idle", NoCall)'
    BY <1>5, <2>2
  <2> QED
    BY <2>1, <2>2 DEF PackageInv
<1>7. ASSUME NEW q \in Packages, q # p
      PROVE  PackageInv(q)'
  <2>1. PackageInv(q) /\ Same(q)
    BY <1>1, <1>7 DEF SafeInv, MountInv
  <2>2. \A u \in Threads : Attends(u, q)' <=> Attends(u, q)
    BY <1>2, <1>7 DEF Attends, Package
  <2>3. ASSUME NEW u \in Threads, Attends(u, q)' PROVE PackageAt(q, pc[u], call[u])'
    <3>1. Attends(u, q) /\ u # t /\ pc'[u] = pc[u] /\ call'[u] = call[u]
      BY <1>2, <1>7, <2>2, <2>3 DEF Attends, Package
    <3>2. PackageAt(q, pc[u], call[u])
      BY <2>1, <3>1 DEF PackageInv
    <3>3. call[u].new \in Files /\ call[u].new.pkg = q
      BY <3>1, CallFacts DEF Attends, Package
    <3>4. PICK k, d : k = pc[u] /\ d = call[u]
      OBVIOUS
    <3>5. PackageAt(q, k, d)'
      BY <2>1, <3>2, <3>3, <3>4, PackageFrame
    <3> QED
      BY <3>1, <3>4, <3>5
  <2>4. ASSUME \A u \in Threads : ~Attends(u, q)' PROVE PackageAt(q, "idle", NoCall)'
    <3>1. PackageAt(q, "idle", NoCall)
      BY <2>1, <2>2, <2>4 DEF PackageInv
    <3> QED
      BY <2>1, <3>1, PackageFrame
  <2> QED
    BY <2>3, <2>4 DEF PackageInv
<1>8. MountInv'
  <2>1. \A q \in Packages : PackageInv(q)'
    BY <1>6, <1>7
  <2> QED
    BY <2>1 DEF MountInv
<1> QED
  BY <1>3, <1>8 DEF SafeInv

-----------------------------------------------------------------------------
(* Parts of the invariant that a step of the call carries on.               *)

EarlyLabels == {"idle", "minor"} \cup TempLabels
TempBusy == TempLabels \ {"tempMount"}

LEMMA ActiveMoves ==
  ASSUME NEW p, NEW l, NEW c, NEW k, NEW d, ActivePart(p, l, c), ActiveSame(p), FilesSame(p),
         l \in BoundAt, k \in BoundAt, NewIsActive(k, d) <=> NewIsActive(l, c),
         NewIsActive(l, c) => d.target = c.target,
         d.op = "install" => c.op = "install" /\ d.cur = c.cur
  PROVE  ActivePart(p, k, d)'
<1>1. ActivePart(p, l, c)'
  BY ActiveFrame
<1>2. PICK e \in EntriesOf(p)' :
        /\ Stands(p, e, TRUE, TRUE)'
        /\ IF NewIsActive(l, c) THEN e.image.file = c.target
           ELSE /\ e.image.file.ver = accepted'[p] /\ Kept(p, e.image.file)'
                /\ c.op = "install" => e.image.file = c.cur
  BY <1>1 DEF ActivePart
<1>3. IF NewIsActive(k, d) THEN e.image.file = d.target
      ELSE /\ e.image.file.ver = accepted'[p] /\ Kept(p, e.image.file)'
           /\ d.op = "install" => e.image.file = d.cur
  BY <1>2
<1>4. k \notin {"forget", "unmountId", "link", "activate", "mount", "undo", "add", "bind"}
  BY DEF BoundAt, TempLabels
<1> QED
  BY <1>2, <1>3, <1>4 DEF ActivePart

LEMMA TempMoves ==
  ASSUME NEW p, NEW l, NEW c, NEW k, NEW d, TempPart(p, l, c), TempSame(p),
         l \notin TempBusy, k \notin TempBusy
  PROVE  TempPart(p, k, d)'
<1>1. ~TempMounted(p, l) /\ ~TempMounted(p, k)' /\ k # "tempRemove"
  BY DEF TempMounted, TempBusy, TempLabels
<1>2. Temporary(p) = {} /\ Temporary(p)' = {}
  BY DEF TempPart, TempSame, TempBusy, TempLabels
<1>3. faults > 0 => faults' > 0
  BY DEF TempSame
<1>4. \A pt \in Points : pt.pkg = p /\ pt.kind = "temp" /\ mounts'[pt] # <<>> =>
       /\ mounts'[pt] = <<Top(pt)'>> /\ Top(pt)'.dev = [pkg |-> p, ver |-> pt.ver, minor |-> -1]
       /\ faults' > 0
  BY <1>1, <1>3 DEF TempPart, TempSame, Top
<1>5. \A d2 \in TempDevices(p)' : ~d2.deferred /\ faults' > 0
  BY <1>1, <1>3 DEF TempPart, TempSame
<1> QED
  BY <1>1, <1>2, <1>4, <1>5 DEF TempPart, TempBusy, TempLabels

LEMMA FilesMoves ==
  ASSUME NEW p, NEW l, NEW c, NEW k, NEW d, FilesPart(p, l, c), FilesSame(p),
         l \in EarlyLabels, k \in EarlyLabels, k = "minor" => d.ok,
         d.op = "install" => c.op = "install" /\ d.cur = c.cur /\ d.new = c.new
  PROVE  FilesPart(p, k, d)' /\ MinorPart(p, k, d)'
<1>1. /\ ~Linked(l, c) /\ l # "undo" /\ ~NewIsActive(l, c)
      /\ ~Linked(k, d) /\ ~NewIsActive(k, d)
      /\ k \notin UnloadedLabels /\ k \notin {"unload", "accept", "collect", "write"}
  BY DEF EarlyLabels, TempLabels, UnloadedLabels, Linked, NewIsActive
<1>2. \A f : Kept(p, f)' <=> Kept(p, f)
  BY DEF Kept, FilesSame
<1>3. k \notin {"unload", "unmount", "forget", "unmountId", "link", "activate", "mount", "add", "bind", "undo"}
  BY DEF EarlyLabels, TempLabels
<1>4. FilesPart(p, k, d)'
  BY <1>1, <1>2, <1>3 DEF FilesPart, FilesSame
<1>5. MinorPart(p, k, d)'
  BY <1>3 DEF MinorPart
<1> QED
  BY <1>4, <1>5

-----------------------------------------------------------------------------
(* Steps of the temporary mount.                                           *)

LEMMA TempMountKeeps ==
  ASSUME TypeInv, SafeInv, NEW t \in Threads, TempMount(t)
  PROVE  SafeInv'
<1> USE DEF mounted, kernel, disk, memory, mainVars, bounds, history
<1>1. PICK p, c : p = Package(t) /\ c = call[t]
  OBVIOUS
<1>2. /\ pc[t] = "tempMount" /\ pc[t] # "idle"
      /\ MountImage(t, c.new, TempPoint(c.new), TempName(c.new))
      /\ Goto(t, "tempAdd") /\ UNCHANGED <<db, files, accepted, faults, main, doomed>>
  BY <1>1 DEF TempMount
<1>3. /\ c \in CallType /\ c.new \in Files /\ p \in Packages /\ c.new.pkg = p /\ main # "off"
      /\ PackageAt(p, "tempMount", c) /\ c.op \in {"install", "stage"} /\ faults \in Nat
  BY <1>1, <1>2, CallFacts
<1>4. PICK image \in NewImages(c.new, TempName(c.new)) :
        /\ MountPackageImpl(image, TempPoint(c.new))
        /\ call' = [call EXCEPT ![t].entry = [image |-> image, point |-> TempPoint(c.new)]]
  BY <1>2 DEF MountImage
<1> DEFINE pt == TempPoint(c.new)
           e == [image |-> image, point |-> pt]
           d == [c EXCEPT !.entry = e]
<1>5. /\ pt \in Points /\ pt.pkg = p /\ pt.kind = "temp" /\ pt.ver = c.new.ver
      /\ TempName(c.new) \in Names /\ TempName(c.new) = [pkg |-> p, ver |-> pt.ver, minor |-> -1]
  BY <1>3, PointFacts, FileTypes DEF TempName, IdName
<1>6. image \in Images /\ image.dev = TempName(c.new) /\ image.file = c.new
  BY <1>3, <1>4, <1>5 DEF NewImages, FreeLoops, Images
<1>7. e \in Entries /\ e.image = image /\ e.point = pt
  BY <1>5, <1>6 DEF Entries
<1>8. image.dev # NoName /\ image.dev.pkg = p /\ image.dev.minor = -1
  BY <1>5, <1>6, NameTypes
<1>9. /\ mounts[pt] = <<>> /\ mounts'[pt] = <<image>> /\ detached' = detached
      /\ \A x \in Points : x # pt => mounts'[x] = mounts[x]
      /\ \A q \in Packages : q # p => KernelSame(q)
      /\ ActiveKernelSame(p)
      /\ TempDevices(p)' = {x \in TempDevices(p) : x.name # image.dev} \cup
           {[name |-> image.dev, loop |-> image.loop, deferred |-> FALSE]}
  BY <1>4, <1>5, <1>6, <1>8, MountEffect
<1>10. \A q : DatabaseSame(q) /\ FilesSame(q)
  BY <1>2, DatabaseUnchanged DEF FilesSame, DataFiles
<1>11. \A q \in Packages : q # p => Same(q)
  BY <1>2, <1>3, <1>9, <1>10, SameIs
<1>12. ActiveSame(p)
  BY <1>9, <1>10 DEF ActiveSame, ActiveKernelSame, DatabaseSame
<1>13. d.new = c.new /\ d.op = c.op /\ d.cur = c.cur /\ d.entry = e /\ d.ok = c.ok
  BY <1>3 DEF CallType
<1>14. call' = [call EXCEPT ![t] = d]
  BY <1>1, <1>4
<1> HIDE DEF d, e, pt
<1>15. ActivePart(p, "tempAdd", d)'
  BY <1>3, <1>12, <1>10, <1>13, ActiveMoves DEF PackageAt, BoundAt, TempLabels, NewIsActive
<1>16. FilesPart(p, "tempAdd", d)' /\ MinorPart(p, "tempAdd", d)'
  BY <1>3, <1>10, <1>13, FilesMoves DEF PackageAt, EarlyLabels, TempLabels
<1>17. TempPart(p, "tempAdd", d)'
  <2>1. TempMounted(p, "tempAdd")' /\ ~TempMounted(p, "tempMount")
    BY DEF TempMounted
  <2>2. Temporary(p) = {} /\ Temporary(p)' = {}
    BY <1>3, <1>10 DEF PackageAt, TempPart, DatabaseSame
  <2>3. ASSUME NEW x \in Points, x.pkg = p, x.kind = "temp", mounts'[x] # <<>>
        PROVE  /\ mounts'[x] = <<Top(x)'>> /\ Top(x)'.dev = [pkg |-> p, ver |-> x.ver, minor |-> -1]
               /\ faults' > 0 \/ x = TempPoint(d.new)
    <3>1. CASE x = pt
      <4>1. mounts'[x] = <<image>> /\ Top(x)' = image
        BY <1>9, <3>1 DEF Top
      <4> QED
        BY <1>5, <1>6, <1>13, <3>1, <4>1 DEF pt
    <3>2. CASE x # pt
      <4>1. mounts'[x] = mounts[x] /\ Top(x)' = Top(x)
        BY <1>9, <3>2 DEF Top
      <4> QED
        BY <1>2, <1>3, <2>1, <2>3, <4>1 DEF PackageAt, TempPart
    <3> QED
      BY <3>1, <3>2
  <2>4. ASSUME NEW x \in TempDevices(p)'
        PROVE  ~x.deferred /\ (faults' > 0 \/ x.name = TempName(d.new))
    BY <1>2, <1>3, <1>6, <1>9, <1>13, <2>1 DEF PackageAt, TempPart
  <2>5. \E x \in TempDevices(p)' : x.name = TempName(d.new)
    <3> DEFINE x == [name |-> image.dev, loop |-> image.loop, deferred |-> FALSE]
    <3>1. x \in TempDevices(p)' /\ x.name = TempName(d.new)
      BY <1>6, <1>9, <1>13
    <3> QED
      BY <3>1
  <2>6. mounts'[d.entry.point] = <<d.entry.image>> /\ d.entry \in Entries
        /\ d.entry.image.file = d.new /\ d.entry.point = TempPoint(d.new)
        /\ d.entry.image.dev = TempName(d.new)
    BY <1>6, <1>7, <1>9, <1>13 DEF pt
  <2> QED
    BY <2>1, <2>2, <2>3, <2>4, <2>5, <2>6 DEF TempPart
<1>18. Moves(t, "tempAdd", d)
  BY <1>2, <1>14 DEF Moves, Goto
<1>19. DetachedInv'
  BY <1>9 DEF SafeInv, DetachedInv
<1> QED
  BY <1>1, <1>2, <1>11, <1>13, <1>15, <1>16, <1>17, <1>18, <1>19, CallStep DEF PackageAt, DropLabels

LEMMA FailIs ==
  ASSUME NEW place, faults \in Nat, Fail(place)
  PROVE  faults' \in Nat /\ faults' > 0 /\ faults' >= faults /\ place \in Failures
BY DEF Fail

(* A call that returns leaves its package to the next one.                  *)
LEMMA ReturnKeeps ==
  ASSUME TypeInv, SafeInv, NEW t \in Threads, NEW p, p = Package(t), pc[t] # "idle", Return(t),
         UNCHANGED <<main, doomed>>, DetachedInv', PackageAt(p, "idle", NoCall)',
         \A q \in Packages : q # p => Same(q)
  PROVE  SafeInv'
BY CallStep DEF Moves, Return

LEMMA NoCallIs == NoCall.op = "none" /\ NoCall.ok = FALSE
BY DEF NoCall

LEMMA TempMountFailsKeeps ==
  ASSUME TypeInv, SafeInv, NEW t \in Threads, TempMountFails(t)
  PROVE  SafeInv'
<1> USE DEF mounted, kernel, disk, memory, mainVars, bounds, history
<1>1. PICK p, c : p = Package(t) /\ c = call[t]
  OBVIOUS
<1>2. /\ pc[t] = "tempMount" /\ pc[t] # "idle" /\ MountPackageFails(TempName(c.new))
      /\ Return(t) /\ UNCHANGED <<db, files, accepted, main, doomed>>
      /\ Fail("mount") \/ faults' = faults
  BY <1>1 DEF TempMountFails
<1>3. /\ c \in CallType /\ c.new \in Files /\ p \in Packages /\ c.new.pkg = p /\ main # "off"
      /\ PackageAt(p, "tempMount", c) /\ faults \in Nat
  BY <1>1, <1>2, CallFacts
<1>4. /\ TempName(c.new) \in Names /\ TempName(c.new) # NoName
      /\ TempName(c.new).pkg = p /\ TempName(c.new).minor = -1
  BY <1>3, FileTypes, NameTypes DEF TempName, IdName
<1>5. /\ mounts' = mounts /\ detached' = detached
      /\ \A q \in Packages : q # p => KernelSame(q)
      /\ ActiveKernelSame(p) /\ TempDevices(p)' \subseteq TempDevices(p)
  BY <1>2, <1>3, <1>4, MountFailsEffect
<1>6. faults' \in Nat /\ faults' >= faults
  BY <1>2, <1>3, FailIs
<1>7. \A q : DatabaseSame(q) /\ FilesSame(q)
  BY <1>2, DatabaseUnchanged DEF FilesSame, DataFiles
<1>8. \A q \in Packages : q # p => Same(q)
  BY <1>3, <1>5, <1>6, <1>7, SameIs
<1>9. ActiveSame(p)
  BY <1>5, <1>7 DEF ActiveSame, ActiveKernelSame, DatabaseSame
<1>10. ActivePart(p, "idle", NoCall)'
  BY <1>3, <1>7, <1>9, NoCallIs, ActiveMoves DEF PackageAt, BoundAt, TempLabels, NewIsActive
<1>11. FilesPart(p, "idle", NoCall)' /\ MinorPart(p, "idle", NoCall)'
  BY <1>3, <1>7, NoCallIs, FilesMoves DEF PackageAt, EarlyLabels, TempLabels
<1>12. TempPart(p, "idle", NoCall)'
  <2>1. ~TempMounted(p, "tempMount") /\ ~TempMounted(p, "idle")'
    BY DEF TempMounted
  <2>2. Temporary(p)' = {}
    BY <1>3, <1>7 DEF PackageAt, TempPart, DatabaseSame
  <2>3. \A x \in Points : x.pkg = p /\ x.kind = "temp" /\ mounts'[x] # <<>> =>
          /\ mounts'[x] = <<Top(x)'>> /\ Top(x)'.dev = [pkg |-> p, ver |-> x.ver, minor |-> -1]
          /\ faults' > 0
    BY <1>3, <1>5, <1>6, <2>1 DEF PackageAt, TempPart, Top
  <2>4. \A x \in TempDevices(p)' : ~x.deferred /\ faults' > 0
    BY <1>3, <1>5, <1>6, <2>1 DEF PackageAt, TempPart
  <2> QED
    BY <2>1, <2>2, <2>3, <2>4 DEF TempPart
<1>13. DetachedInv'
  BY <1>5 DEF SafeInv, DetachedInv
<1> QED
  BY <1>1, <1>2, <1>8, <1>10, <1>11, <1>12, <1>13, ReturnKeeps DEF PackageAt

(* A step that leaves the kernel and the files alone.                       *)
LEMMA QuietStep ==
  ASSUME TypeInv, SafeInv, faults' \in Nat, faults' >= faults, UNCHANGED <<kernel, files, accepted>>
  PROVE  /\ \A q : KernelSame(q) /\ FilesSame(q) /\ detached \subseteq detached'
         /\ \A q : DatabaseSame(q) => Same(q)
         /\ DetachedInv'
<1>1. faults \in Nat
  BY DEF TypeInv, TypeOK
<1>2. \A q : KernelSame(q)
  BY NothingMounted DEF kernel
<1>3. \A q : FilesSame(q)
  BY DEF FilesSame, DataFiles
<1>4. detached' = detached /\ detached \subseteq detached'
  BY DEF kernel
<1>5. DetachedInv'
  BY <1>4 DEF SafeInv, DetachedInv
<1> QED
  BY <1>1, <1>2, <1>3, <1>4, <1>5, SameIs

LEMMA TempAddKeeps ==
  ASSUME TypeInv, SafeInv, NEW t \in Threads, TempAdd(t)
  PROVE  SafeInv'
<1> USE DEF mounted, disk, memory, mainVars, bounds, history
<1>1. PICK p, c, e : p = Package(t) /\ c = call[t] /\ e = call[t].entry
  OBVIOUS
<1>2. /\ pc[t] = "tempAdd" /\ pc[t] # "idle" /\ AddMountedApex(e)
      /\ UNCHANGED <<kernel, files, accepted, main, doomed>>
  BY <1>1 DEF TempAdd
<1>3. /\ c \in CallType /\ c.new \in Files /\ p \in Packages /\ c.new.pkg = p /\ main # "off"
      /\ PackageAt(p, "tempAdd", c) /\ faults \in Nat /\ c.op \in {"install", "stage"}
  BY <1>1, <1>2, CallFacts
<1>4. PICK k, d : /\ pc' = [pc EXCEPT ![t] = k] /\ call' = [call EXCEPT ![t] = d]
                  /\ k \in {"tempUnmount", "dropFind"}
                  /\ k = "dropFind" => c.op = "stage"
                  /\ d \in {c, [c EXCEPT !.ok = FALSE]}
  <2>1. CASE Goto(t, IF call[t].op = "stage" THEN "dropFind" ELSE "tempUnmount") /\ call' = call
    <3>1. call' = [call EXCEPT ![t] = c]
      BY <1>1, <2>1 DEF TypeInv, TypeOK
    <3> QED
      BY <1>1, <2>1, <3>1 DEF Goto
  <2>2. CASE Goto(t, "tempUnmount") /\ call' = [call EXCEPT ![t].ok = FALSE]
    <3>1. call' = [call EXCEPT ![t] = [c EXCEPT !.ok = FALSE]]
      BY <1>1, <2>2
    <3> QED
      BY <2>2, <3>1 DEF Goto
  <2> QED
    BY <2>1, <2>2 DEF TempAdd
<1>5. d.new = c.new /\ d.op = c.op /\ d.cur = c.cur /\ d.entry = c.entry
  BY <1>3, <1>4 DEF CallType
<1>6. faults' \in Nat /\ faults' >= faults
  BY <1>3, FailIs DEF TempAdd
<1>7. /\ \A q : KernelSame(q) /\ FilesSame(q) /\ detached \subseteq detached'
      /\ \A q : DatabaseSame(q) => Same(q)
      /\ DetachedInv'
  BY <1>2, <1>6, QuietStep
<1>8. /\ e \in Entries /\ e.image.file = c.new /\ e.point = TempPoint(c.new)
      /\ e.image.dev = TempName(c.new) /\ mounts[e.point] = <<e.image>> /\ e = c.entry
      /\ \E x \in TempDevices(p) : x.name = TempName(c.new)
      /\ Temporary(p) = {}
  BY <1>1, <1>3 DEF PackageAt, TempPart, TempMounted
<1>9. IsTemp(e)
  BY <1>3, <1>8, PointFacts DEF IsTemp
<1>10. /\ \A q \in Packages : q # p => DatabaseSame(q)
       /\ Permanent(p)' = Permanent(p) /\ Temporary(p)' = {e}
  BY <1>2, <1>3, <1>8, <1>9, AddEffect
<1>11. ActiveSame(p)
  BY <1>7, <1>10 DEF ActiveSame, KernelSame, ActiveKernelSame
<1>12. ActivePart(p, k, d)'
  BY <1>3, <1>4, <1>5, <1>7, <1>11, ActiveMoves DEF PackageAt, BoundAt, TempLabels, NewIsActive
<1>13. FilesPart(p, k, d)' /\ MinorPart(p, k, d)'
  BY <1>3, <1>4, <1>5, <1>7, FilesMoves DEF PackageAt, EarlyLabels, TempLabels
<1>14. TempPart(p, k, d)'
  <2>1. TempMounted(p, "tempAdd") /\ TempMounted(p, k)'
    BY <1>4, <1>10 DEF TempMounted
  <2>2. mounts' = mounts /\ TempDevices(p)' = TempDevices(p)
    BY <1>2, <1>7 DEF kernel, KernelSame, TempKernelSame
  <2>3. \A x \in Points : x.pkg = p /\ x.kind = "temp" /\ mounts'[x] # <<>> =>
          /\ mounts'[x] = <<Top(x)'>> /\ Top(x)'.dev = [pkg |-> p, ver |-> x.ver, minor |-> -1]
          /\ faults' > 0 \/ x = TempPoint(d.new)
    BY <1>3, <1>5, <1>6, <2>1, <2>2 DEF PackageAt, TempPart, Top
  <2>4. \A x \in TempDevices(p)' : ~x.deferred /\ (faults' > 0 \/ x.name = TempName(d.new))
    BY <1>3, <1>5, <1>6, <2>1, <2>2 DEF PackageAt, TempPart
  <2>5. Temporary(p)' = {d.entry}
    BY <1>5, <1>8, <1>10
  <2> QED
    BY <1>4, <1>5, <1>8, <2>1, <2>2, <2>3, <2>4, <2>5 DEF TempPart
<1>15. Moves(t, k, d)
  BY <1>2, <1>4 DEF Moves
<1>16. d.op = "install" => k \notin DropLabels
  BY <1>4, <1>5 DEF DropLabels
<1>17. k # "idle"
  BY <1>4
<1> QED
  BY <1>1, <1>2, <1>5, <1>7, <1>10, <1>12, <1>13, <1>14, <1>15, <1>16, <1>17, CallStep DEF PackageAt

LEMMA UnmountTempKeeps ==
  ASSUME TypeInv, SafeInv, NEW t \in Threads, UnmountTemp(t)
  PROVE  SafeInv'
<1> USE DEF mounted, disk, memory, mainVars, bounds, history
<1>1. PICK p, c, e, l : p = Package(t) /\ c = call[t] /\ e = call[t].entry /\ l = pc[t]
  OBVIOUS
<1> DEFINE k == IF l = "tempUnmount" THEN "tempRemove" ELSE "dropFind"
<1>2. /\ l \in {"tempUnmount", "dropUnmount"} /\ pc[t] # "idle"
      /\ UNCHANGED <<db, files, accepted, main, doomed, call>> /\ pc' = [pc EXCEPT ![t] = k]
  BY <1>1 DEF UnmountTemp, Goto
<1>3. /\ c \in CallType /\ c.new \in Files /\ p \in Packages /\ c.new.pkg = p /\ main # "off"
      /\ PackageAt(p, l, c) /\ faults \in Nat /\ c.op \in {"install", "stage"}
      /\ c.op = "install" => l \notin DropLabels
  BY <1>1, <1>2, CallFacts
<1>4. /\ e \in Entries /\ e.image.file = c.new /\ e.point = TempPoint(c.new)
      /\ e.image.dev = TempName(c.new) /\ mounts[e.point] = <<e.image>> /\ e = c.entry
      /\ \E x \in TempDevices(p) : x.name = TempName(c.new)
  BY <1>1, <1>2, <1>3 DEF PackageAt, TempPart, TempMounted
<1>5. /\ TempName(c.new) \in Names /\ TempName(c.new) # NoName
      /\ TempName(c.new).pkg = p /\ TempName(c.new).minor = -1
      /\ e.point \in Points /\ e.point.pkg = p /\ e.point.kind = "temp"
  BY <1>3, <1>4, FileTypes, NameTypes, PointFacts DEF TempName, IdName
<1>6. Deletable(e, FALSE)
  <2>1. Named(e.image.dev) # {}
    BY <1>4 DEF Named, TempDevices
  <2>2. ~Uses(Under(e.point), detached, e.image.dev)
    <3>1. Under(e.point) = [mounts EXCEPT ![e.point] = <<>>] /\ mounts \in [Points -> Seq(Images)]
      BY <1>4, <1>5, PoppedOnly DEF TypeInv, TypeOK, MountedTypeOK
    <3>2. ASSUME NEW x \in Points, NEW i \in DOMAIN Under(e.point)[x],
                 Under(e.point)[x][i].dev = e.image.dev
          PROVE  FALSE
      <4>1. x # e.point /\ Under(e.point)[x] = mounts[x]
        BY <1>5, <3>1
      <4>2. mounts[x][i].dev = TempName(c.new) /\ i \in DOMAIN mounts[x]
        BY <1>4, <3>2, <4>1
      <4>3. x.pkg = p /\ x.kind = "temp"
        BY <1>3, <1>5, <4>2, MountedDevices DEF SafeInv
      <4>4. mounts[x] = <<Top(x)>> /\ Top(x).dev = [pkg |-> p, ver |-> x.ver, minor |-> -1]
        BY <1>3, <4>2, <4>3 DEF PackageAt, TempPart
      <4>5. Top(x).dev = TempName(c.new)
        BY <4>2, <4>4
      <4>6. x.ver = c.new.ver
        BY <4>4, <4>5 DEF TempName, IdName
      <4>7. x = TempPoint(c.new)
        BY <1>3, <4>3, <4>6 DEF TempPoint, Points
      <4> QED
        BY <1>4, <4>1, <4>7
    <3>3. \A m \in detached : m.dev # e.image.dev
      BY <1>4, <1>5 DEF SafeInv, DetachedInv
    <3> QED
      BY <3>2, <3>3, UsesIs
  <2> QED
    BY <2>1, <2>2 DEF Deletable
<1>7. faults' \in Nat /\ faults' >= faults
  <2>1. Fail("unmountTemp") \/ faults' = faults
    BY DEF UnmountTemp
  <2> QED
    BY <1>3, <2>1, FailIs
<1>8. /\ detached' = detached
      /\ \A q \in Packages : q # p => KernelSame(q)
      /\ ActiveKernelSame(p)
      /\ \A x \in Points : x # e.point => mounts'[x] = mounts[x]
      /\ \/ mounts'[e.point] = <<>>
         \/ mounts'[e.point] = mounts[e.point] /\ faults' > 0
      /\ TempDevices(p)' \subseteq TempDevices(p)
      /\ faults' > 0 \/ \A d \in TempDevices(p)' : d.name # TempName(c.new)
  <2>0. mounts \in [Points -> Seq(Images)] /\ MountInv
    BY DEF TypeInv, TypeOK, MountedTypeOK, SafeInv
  <2>1. CASE Unmount(e, FALSE)
    <3>1. /\ mounts' = [mounts EXCEPT ![e.point] = <<>>] /\ detached' = detached
          /\ \A q \in Packages : q # p => KernelSame(q)
          /\ ActiveKernelSame(p) /\ TempDevices(p)' = {d \in TempDevices(p) : d.name # e.image.dev}
      BY ZenonT(60), <1>3, <1>4, <1>5, <1>6, <2>0, <2>1, UnmountTempEffect
    <3>2. mounts'[e.point] = <<>> /\ \A x \in Points : x # e.point => mounts'[x] = mounts[x]
      BY <1>5, <2>0, <3>1
    <3> QED
      BY <1>4, <3>1, <3>2
  <2>2. CASE Fail("unmountTemp") /\ UnmountFails(e)
    <3>1. /\ mounts' \in {mounts, [mounts EXCEPT ![e.point] = <<>>]} /\ devices' = devices
          /\ detached' = detached
      BY <1>3, <1>4, <1>5, <2>0, <2>2, UnmountFailsEffect
    <3>2. faults' > 0
      BY <1>3, <2>2, FailIs
    <3>3. CASE mounts' = mounts
      BY <3>1, <3>2, <3>3, NothingMounted DEF KernelSame, TempKernelSame
    <3>4. CASE mounts' = [mounts EXCEPT ![e.point] = <<>>]
      <4>1. /\ mounts'[e.point] = <<>> /\ \A x \in Points : x # e.point => mounts'[x] = mounts[x]
            /\ \A q \in Packages : q # p => KernelSame(q)
            /\ ActiveKernelSame(p) /\ TempDevices(p)' = TempDevices(p)
        BY <1>5, <3>1, <3>4, MountsOf
      <4> QED
        BY <3>1, <3>2, <4>1
    <3> QED
      BY <3>1, <3>3, <3>4
  <2> QED
    BY <1>1, <1>6, <2>1, <2>2 DEF UnmountTemp
<1>9. \A q : DatabaseSame(q) /\ FilesSame(q)
  BY <1>2, DatabaseUnchanged DEF FilesSame, DataFiles
<1>10. \A q \in Packages : q # p => Same(q)
  BY <1>3, <1>7, <1>8, <1>9, SameIs
<1>11. ActiveSame(p)
  BY <1>8, <1>9 DEF ActiveSame, ActiveKernelSame, DatabaseSame
<1>12. k \in {"tempRemove", "dropFind"}
  OBVIOUS
<1>13. k = "dropFind" => l = "dropUnmount"
  BY <1>2
<1>14. k = "tempRemove" => l = "tempUnmount"
  BY <1>2
<1> HIDE DEF k
<1>15. ActivePart(p, k, c)'
  BY <1>2, <1>3, <1>9, <1>11, <1>12, ActiveMoves DEF PackageAt, BoundAt, TempLabels, NewIsActive
<1>16. FilesPart(p, k, c)' /\ MinorPart(p, k, c)'
  BY <1>2, <1>3, <1>9, <1>12, FilesMoves DEF PackageAt, EarlyLabels, TempLabels
<1>17. TempPart(p, k, c)'
  <2>1. TempMounted(p, l)
    BY <1>2 DEF TempMounted
  <2>2. Temporary(p)' = IF k = "tempRemove" THEN {c.entry} ELSE {}
    BY <1>2, <1>3, <1>9, <1>12, <1>13, <1>14 DEF PackageAt, TempPart, DatabaseSame
  <2>3. ~TempMounted(p, k)'
    BY <1>12, <2>2 DEF TempMounted
  <2>4. ASSUME NEW x \in Points, x.pkg = p, x.kind = "temp", mounts'[x] # <<>>
        PROVE  /\ mounts'[x] = <<Top(x)'>> /\ Top(x)'.dev = [pkg |-> p, ver |-> x.ver, minor |-> -1]
               /\ faults' > 0
    <3>1. mounts'[x] = mounts[x] /\ Top(x)' = Top(x)
      BY <1>8, <2>4 DEF Top
    <3>2. mounts[x] = <<Top(x)>> /\ Top(x).dev = [pkg |-> p, ver |-> x.ver, minor |-> -1]
          /\ (faults > 0 \/ x = TempPoint(c.new))
      BY <1>3, <2>1, <2>4, <3>1 DEF PackageAt, TempPart
    <3> QED
      BY SMTT(40), <1>4, <1>7, <1>8, <1>3, <2>4, <3>1, <3>2
  <2>5. \A d \in TempDevices(p)' : ~d.deferred /\ faults' > 0
    BY <1>3, <1>7, <1>8, <2>1 DEF PackageAt, TempPart
  <2> QED
    BY <1>4, <1>12, <2>2, <2>3, <2>4, <2>5 DEF TempPart
<1>18. Moves(t, k, c)
  BY <1>1, <1>2 DEF Moves, TypeInv, TypeOK
<1>19. c.op = "install" => k \notin DropLabels
  BY <1>2, <1>3, <1>12, <1>13 DEF DropLabels
<1>20. DetachedInv'
  BY <1>8 DEF SafeInv, DetachedInv
<1>21. k # "idle"
  BY <1>12
<1> QED
  BY <1>1, <1>2, <1>10, <1>15, <1>16, <1>17, <1>18, <1>19, <1>20, <1>21, CallStep DEF PackageAt

(* After the temporary mount: the parts that its entry leaves.              *)
LEMMA TempLeft ==
  ASSUME NEW p, NEW l, NEW c, NEW k, NEW d, TempPart(p, l, c), TempKernelSame(p),
         faults \in Nat, faults' \in Nat, faults' >= faults,
         ~TempMounted(p, l), Temporary(p)' = {}, k \notin TempBusy \/ k = "dropFind"
  PROVE  TempPart(p, k, d)'
<1>1. ~TempMounted(p, k)' /\ k # "tempRemove"
  BY DEF TempMounted, TempBusy, TempLabels
<1>2. \A x \in Points : x.pkg = p /\ x.kind = "temp" /\ mounts'[x] # <<>> =>
          /\ mounts'[x] = <<Top(x)'>> /\ Top(x)'.dev = [pkg |-> p, ver |-> x.ver, minor |-> -1]
          /\ faults' > 0
  BY DEF TempPart, TempKernelSame, Top
<1>3. \A x \in TempDevices(p)' : ~x.deferred /\ faults' > 0
  BY DEF TempPart, TempKernelSame
<1>4. k \notin {"tempUnmount", "tempRemove", "dropRemove"}
  BY DEF TempBusy, TempLabels
<1> QED
  BY <1>1, <1>2, <1>3, <1>4 DEF TempPart

LEMMA TempRemoveKeeps ==
  ASSUME TypeInv, SafeInv, NEW t \in Threads, TempRemove(t)
  PROVE  SafeInv'
<1> USE DEF mounted, disk, memory, mainVars, bounds, history
<1>1. PICK p, c, e : p = Package(t) /\ c = call[t] /\ e = call[t].entry
  OBVIOUS
<1>2. /\ pc[t] = "tempRemove" /\ pc[t] # "idle" /\ RemoveMountedApex(c.new, TRUE)
      /\ UNCHANGED <<kernel, files, accepted, faults, main, doomed>>
  BY <1>1 DEF TempRemove
<1>3. /\ c \in CallType /\ c.new \in Files /\ p \in Packages /\ c.new.pkg = p /\ main # "off"
      /\ PackageAt(p, "tempRemove", c) /\ faults \in Nat
  BY <1>1, <1>2, CallFacts
<1>4. e \in Entries /\ e.image.file = c.new /\ Temporary(p) = {e}
  BY <1>1, <1>3 DEF PackageAt, TempPart
<1>5. /\ \A q : q # p => DatabaseSame(q)
      /\ Temporary(p)' = {} /\ Permanent(p)' = Permanent(p)
  BY <1>2, <1>3, <1>4, RemoveEffect
<1>6. /\ \A q : KernelSame(q) /\ FilesSame(q) /\ detached \subseteq detached'
      /\ \A q : DatabaseSame(q) => Same(q)
      /\ DetachedInv'
  BY <1>2, <1>3, QuietStep
<1>7. ActiveSame(p)
  BY <1>5, <1>6 DEF ActiveSame, KernelSame, ActiveKernelSame
<1>8. ~TempMounted(p, "tempRemove")
  BY DEF TempMounted
<1>9. CASE c.op = "install" /\ c.ok
  <2>1. Moves(t, "minor", c)
    BY <1>1, <1>2, <1>9 DEF TempRemove, Goto, Moves, TypeInv, TypeOK
  <2>2. ActivePart(p, "minor", c)'
    BY <1>3, <1>6, <1>7, ActiveMoves DEF PackageAt, BoundAt, TempLabels, NewIsActive
  <2>3. FilesPart(p, "minor", c)' /\ MinorPart(p, "minor", c)'
    BY <1>3, <1>6, <1>9, FilesMoves DEF PackageAt, EarlyLabels, TempLabels
  <2>4. TempPart(p, "minor", c)'
    BY <1>2, <1>3, <1>5, <1>6, <1>8, TempLeft DEF PackageAt, TempBusy, TempLabels, KernelSame
  <2> QED
    BY <1>1, <1>2, <1>5, <1>6, <2>1, <2>2, <2>3, <2>4, CallStep DEF PackageAt, DropLabels
<1>10. CASE ~(c.op = "install" /\ c.ok)
  <2>1. Return(t)
    BY <1>1, <1>10 DEF TempRemove
  <2>2. ActivePart(p, "idle", NoCall)'
    BY <1>3, <1>6, <1>7, NoCallIs, ActiveMoves DEF PackageAt, BoundAt, TempLabels, NewIsActive
  <2>3. FilesPart(p, "idle", NoCall)' /\ MinorPart(p, "idle", NoCall)'
    BY <1>3, <1>6, NoCallIs, FilesMoves DEF PackageAt, EarlyLabels, TempLabels
  <2>4. TempPart(p, "idle", NoCall)'
    BY <1>2, <1>3, <1>5, <1>6, <1>8, TempLeft DEF PackageAt, TempBusy, TempLabels, KernelSame
  <2> QED
    BY <1>1, <1>2, <1>5, <1>6, <2>1, <2>2, <2>3, <2>4, ReturnKeeps DEF PackageAt
<1> QED
  BY <1>9, <1>10

LEMMA DropFindKeeps ==
  ASSUME TypeInv, SafeInv, NEW t \in Threads, DropFind(t)
  PROVE  SafeInv'
<1> USE DEF mounted, disk, memory, mainVars, bounds, history
<1>1. PICK p, c : p = Package(t) /\ c = call[t]
  OBVIOUS
<1>2. /\ pc[t] = "dropFind" /\ pc[t] # "idle"
      /\ UNCHANGED <<kernel, db, files, accepted, faults, main, doomed>>
  BY <1>1 DEF DropFind, kernel
<1>3. /\ c \in CallType /\ c.new \in Files /\ p \in Packages /\ c.new.pkg = p /\ main # "off"
      /\ PackageAt(p, "dropFind", c) /\ faults \in Nat /\ c.op # "install"
  BY <1>1, <1>2, CallFacts DEF DropLabels
<1>4. /\ \A q : KernelSame(q) /\ FilesSame(q) /\ detached \subseteq detached'
      /\ \A q : DatabaseSame(q) => Same(q)
      /\ DetachedInv'
  BY <1>2, <1>3, QuietStep
<1>5. \A q : DatabaseSame(q) /\ Same(q)
  BY <1>2, <1>4, DatabaseUnchanged
<1>6. GetTempMountedApexData(p) = GreatestOf(Temporary(p))
  BY DEF GetTempMountedApexData, Temporary
<1>7. CASE Temporary(p) # {}
  <2>1. /\ Temporary(p) = {c.entry} /\ TempMounted(p, "dropFind") /\ c.entry \in Entries
        /\ c.entry.image.file = c.new /\ c.entry.point = TempPoint(c.new)
        /\ c.entry.image.dev = TempName(c.new) /\ mounts[c.entry.point] = <<c.entry.image>>
        /\ \E x \in TempDevices(p) : x.name = TempName(c.new)
    BY <1>3, <1>7 DEF PackageAt, TempPart, TempMounted
  <2>2. GetTempMountedApexData(p) = {c.entry}
    BY <1>6, <2>1, NotLessItself
  <2>3. call' = [call EXCEPT ![t].entry = c.entry] /\ pc' = [pc EXCEPT ![t] = "dropRemove"]
    BY <1>1, <2>2 DEF DropFind, Goto
  <2>4. [c EXCEPT !.entry = c.entry] = c
    BY <1>3 DEF CallType
  <2>5. call' = [call EXCEPT ![t] = c]
    BY <1>1, <2>3, <2>4
  <2>6. Moves(t, "dropRemove", c)
    BY <1>2, <2>3, <2>5 DEF Moves
  <2>7. ActivePart(p, "dropRemove", c)'
    BY <1>3, <1>4, <1>5, ActiveMoves DEF PackageAt, BoundAt, TempLabels, NewIsActive, Same
  <2>8. FilesPart(p, "dropRemove", c)' /\ MinorPart(p, "dropRemove", c)'
    BY <1>3, <1>4, FilesMoves DEF PackageAt, EarlyLabels, TempLabels
  <2>9. TempPart(p, "dropRemove", c)'
    <3>1. TempSame(p) /\ TempMounted(p, "dropRemove")'
      BY <1>5 DEF Same, TempMounted
    <3>2. TempPart(p, "dropRemove", c)
      BY <1>3, <2>1 DEF PackageAt, TempPart, TempMounted
    <3> QED
      BY <1>3, <3>1, <3>2, TempFrame
  <2> QED
    BY <1>1, <1>2, <1>3, <1>4, <1>5, <2>6, <2>7, <2>8, <2>9, CallStep DEF PackageAt
<1>8. CASE Temporary(p) = {}
  <2>1. GetTempMountedApexData(p) = {}
    BY <1>6, <1>8 DEF GreatestOf
  <2>2. Return(t)
    BY <1>1, <2>1 DEF DropFind
  <2>3. ActivePart(p, "idle", NoCall)'
    BY <1>3, <1>4, <1>5, NoCallIs, ActiveMoves DEF PackageAt, BoundAt, TempLabels, NewIsActive, Same
  <2>4. FilesPart(p, "idle", NoCall)' /\ MinorPart(p, "idle", NoCall)'
    BY <1>3, <1>4, NoCallIs, FilesMoves DEF PackageAt, EarlyLabels, TempLabels
  <2>5. ~TempMounted(p, "dropFind") /\ Temporary(p)' = {}
    BY <1>5, <1>8 DEF TempMounted, DatabaseSame
  <2>6. TempPart(p, "idle", NoCall)'
    BY <1>2, <1>3, <1>4, <2>5, TempLeft DEF PackageAt, TempBusy, TempLabels, KernelSame
  <2> QED
    BY <1>1, <1>2, <1>4, <1>5, <2>2, <2>3, <2>4, <2>6, ReturnKeeps DEF PackageAt
<1> QED
  BY <1>7, <1>8

LEMMA DropRemoveKeeps ==
  ASSUME TypeInv, SafeInv, NEW t \in Threads, DropRemove(t)
  PROVE  SafeInv'
<1> USE DEF mounted, disk, memory, mainVars, bounds, history
<1>1. PICK p, c, e : p = Package(t) /\ c = call[t] /\ e = call[t].entry
  OBVIOUS
<1>2. /\ pc[t] = "dropRemove" /\ pc[t] # "idle" /\ RemoveMountedApex(e.image.file, TRUE)
      /\ UNCHANGED <<kernel, files, accepted, faults, main, doomed, call>>
      /\ pc' = [pc EXCEPT ![t] = "dropUnmount"]
  BY <1>1 DEF DropRemove, Goto
<1>3. /\ c \in CallType /\ c.new \in Files /\ p \in Packages /\ c.new.pkg = p /\ main # "off"
      /\ PackageAt(p, "dropRemove", c) /\ faults \in Nat /\ c.op # "install"
  BY <1>1, <1>2, CallFacts DEF DropLabels
<1>4. /\ e = c.entry /\ e \in Entries /\ e.image.file = c.new /\ Temporary(p) = {e}
      /\ TempMounted(p, "dropRemove")
  BY <1>1, <1>3 DEF PackageAt, TempPart, TempMounted
<1>5. /\ \A q : q # p => DatabaseSame(q)
      /\ Temporary(p)' = {} /\ Permanent(p)' = Permanent(p)
  BY <1>2, <1>3, <1>4, RemoveEffect
<1>6. /\ \A q : KernelSame(q) /\ FilesSame(q) /\ detached \subseteq detached'
      /\ \A q : DatabaseSame(q) => Same(q)
      /\ DetachedInv'
  BY <1>2, <1>3, QuietStep
<1>7. ActiveSame(p)
  BY <1>5, <1>6 DEF ActiveSame, KernelSame, ActiveKernelSame
<1>8. Moves(t, "dropUnmount", c)
  BY <1>1, <1>2 DEF Moves, TypeInv, TypeOK
<1>9. ActivePart(p, "dropUnmount", c)'
  BY <1>3, <1>6, <1>7, ActiveMoves DEF PackageAt, BoundAt, TempLabels, NewIsActive
<1>10. FilesPart(p, "dropUnmount", c)' /\ MinorPart(p, "dropUnmount", c)'
  BY <1>3, <1>6, FilesMoves DEF PackageAt, EarlyLabels, TempLabels
<1>11. TempPart(p, "dropUnmount", c)'
  <2>1. TempMounted(p, "dropUnmount")'
    BY DEF TempMounted
  <2>2. mounts' = mounts /\ TempDevices(p)' = TempDevices(p) /\ faults' = faults
    BY <1>2, <1>6 DEF kernel, KernelSame, TempKernelSame
  <2>3. \A x \in Points : x.pkg = p /\ x.kind = "temp" /\ mounts'[x] # <<>> =>
          /\ mounts'[x] = <<Top(x)'>> /\ Top(x)'.dev = [pkg |-> p, ver |-> x.ver, minor |-> -1]
          /\ faults' > 0 \/ x = TempPoint(c.new)
    BY <1>3, <1>4, <2>2 DEF PackageAt, TempPart, Top
  <2>4. \A x \in TempDevices(p)' : ~x.deferred /\ (faults' > 0 \/ x.name = TempName(c.new))
    BY <1>3, <1>4, <2>2 DEF PackageAt, TempPart
  <2>5. /\ c.entry \in Entries /\ c.entry.image.file = c.new
        /\ c.entry.point = TempPoint(c.new) /\ c.entry.image.dev = TempName(c.new)
        /\ mounts'[c.entry.point] = <<c.entry.image>>
        /\ \E d \in TempDevices(p)' : d.name = TempName(c.new)
    BY <1>3, <1>4, <2>2 DEF PackageAt, TempPart
  <2> QED
    BY <1>5, <2>1, <2>3, <2>4, <2>5 DEF TempPart
<1> QED
  BY <1>1, <1>2, <1>3, <1>5, <1>6, <1>8, <1>9, <1>10, <1>11, CallStep DEF PackageAt

-----------------------------------------------------------------------------
(* Steps that take the active APEX out of use.                             *)

LEMMA InstallFacts ==
  ASSUME TypeInv, SafeInv, NEW t \in Threads, pc[t] \in InstallLabels
  PROVE  /\ call[t] \in CallType /\ call[t].op = "install"
         /\ call[t].new \in Files /\ call[t].new.pkg = Package(t) /\ Package(t) \in Packages
         /\ call[t].new.minor = -2
         /\ call[t].cur \in Files /\ call[t].cur.pkg = Package(t)
         /\ call[t].cur.ver = accepted[Package(t)]
         /\ call[t].minor \in 0 .. MaxMinor
         /\ PackageAt(Package(t), pc[t], call[t]) /\ Temporary(Package(t)) = {}
         /\ pc[t] # "idle" /\ main # "off" /\ main \in {"wait", "done"} /\ faults \in Nat
<1>1. pc[t] # "idle" /\ pc[t] \notin {"tempUnmount", "tempRemove", "dropRemove", "dropFind"}
  BY DEF InstallLabels, UnloadedLabels
<1>2. /\ call[t] \in CallType /\ KnownAt(pc[t], call[t])
      /\ call[t].new \in Files /\ call[t].new.pkg = Package(t) /\ Package(t) \in Packages
      /\ call[t].new.minor = -2
      /\ PackageAt(Package(t), pc[t], call[t])
      /\ main # "off" /\ main \in {"wait", "done"} /\ faults \in Nat
  BY <1>1, CallFacts
<1>3. call[t].op = "install" /\ call[t].cur \in Files /\ call[t].minor \in 0 .. MaxMinor
  BY <1>1, <1>2 DEF KnownAt
<1>4. call[t].cur.pkg = Package(t) /\ call[t].cur.ver = accepted[Package(t)]
  BY <1>2, <1>3 DEF PackageAt, FilesPart
<1>5. Temporary(Package(t)) = {}
  BY <1>1, <1>2 DEF PackageAt, TempPart
<1> QED
  BY <1>1, <1>2, <1>3, <1>4, <1>5

(* Until the new APEX is linked, the files stay as they are.                *)
BeforeLink == {"unload", "unmount", "forget", "unmountId", "link"}

LEMMA UnloadMoves ==
  ASSUME NEW p, NEW l \in BeforeLink, NEW c, NEW k \in BeforeLink,
         FilesPart(p, l, c), MinorPart(p, l, c), FilesSame(p),
         \A d \in ActiveDevices(p)' : \E b \in ActiveDevices(p) : b.name = d.name
  PROVE  FilesPart(p, k, c)' /\ MinorPart(p, k, c)'
<1>1. /\ ~Linked(l, c) /\ l # "undo" /\ ~NewIsActive(l, c)
      /\ ~Linked(k, c) /\ k # "undo" /\ ~NewIsActive(k, c)
      /\ k \notin {"minor", "accept", "collect", "write", "activate", "mount", "add", "bind"}
      /\ l \in UnloadedLabels \cup {"unload"}
  BY DEF BeforeLink, UnloadedLabels, Linked, NewIsActive
<1>2. \A f : Kept(p, f)' <=> Kept(p, f)
  BY DEF Kept, FilesSame
<1>3. NewTarget(c) \notin DataFiles(p) /\ c.ok /\ c.minor >= 1 /\ NewTarget(c) # c.cur
  BY <1>1 DEF FilesPart, BeforeLink
<1>4. FilesPart(p, k, c)'
  BY <1>1, <1>2, <1>3 DEF FilesPart, FilesSame
<1>5. MinorPart(p, k, c)'
  BY DEF MinorPart, BeforeLink
<1> QED
  BY <1>4, <1>5

(* An error before the new APEX is linked leaves the old one active.        *)
LEMMA ErrorMoves ==
  ASSUME NEW p, NEW l \in BeforeLink, NEW c \in CallType, NEW d, d = [c EXCEPT !.ok = FALSE],
         FilesPart(p, l, c), FilesSame(p)
  PROVE  FilesPart(p, "reload", d)' /\ MinorPart(p, "reload", d)'
<1>1. /\ ~Linked(l, c) /\ l # "undo" /\ ~NewIsActive(l, c)
      /\ l \in UnloadedLabels \cup {"unload"}
  BY DEF BeforeLink, UnloadedLabels, Linked, NewIsActive
<1>2. \A f : Kept(p, f)' <=> Kept(p, f)
  BY DEF Kept, FilesSame
<1>3. ~d.ok /\ d.op = c.op /\ d.cur = c.cur /\ d.new = c.new /\ d.minor = c.minor
  BY DEF CallType
<1>4. c.minor >= 1 /\ NewTarget(c) # c.cur /\ NewTarget(d) = NewTarget(c)
  BY <1>1, <1>3 DEF FilesPart, NewTarget
<1>5. ~Linked("reload", d)
  BY <1>3 DEF Linked
<1>6. FilesPart(p, "reload", d)'
  BY <1>1, <1>2, <1>3, <1>4, <1>5 DEF FilesPart, FilesSame
<1>7. MinorPart(p, "reload", d)'
  BY DEF MinorPart
<1> QED
  BY <1>6, <1>7

LEMMA ComputePackageIdMinorKeeps ==
  ASSUME TypeInv, SafeInv, NEW t \in Threads, ComputePackageIdMinor(t)
  PROVE  SafeInv'
<1> USE DEF mounted, disk, memory, mainVars, bounds, history
<1>1. PICK p, c : p = Package(t) /\ c = call[t]
  OBVIOUS
<1>2. /\ pc[t] = "minor" /\ pc[t] \in InstallLabels
      /\ UNCHANGED <<kernel, db, files, accepted, faults, main, doomed>>
  BY <1>1 DEF ComputePackageIdMinor, kernel, InstallLabels
<1>3. /\ c \in CallType /\ c.op = "install" /\ c.new \in Files /\ p \in Packages /\ c.new.pkg = p
      /\ c.cur \in Files /\ PackageAt(p, "minor", c) /\ pc[t] # "idle" /\ faults \in Nat
  BY <1>1, <1>2, InstallFacts
<1>4. /\ \A q : KernelSame(q) /\ FilesSame(q) /\ detached \subseteq detached'
      /\ \A q : DatabaseSame(q) => Same(q)
      /\ DetachedInv'
  BY <1>2, <1>3, QuietStep
<1>5. \A q : DatabaseSame(q) /\ Same(q)
  BY <1>2, <1>4, DatabaseUnchanged
<1>6. CASE Return(t)
  <2>1. ActivePart(p, "idle", NoCall)'
    BY <1>3, <1>4, <1>5, NoCallIs, ActiveMoves DEF PackageAt, BoundAt, NewIsActive, Same
  <2>2. FilesPart(p, "idle", NoCall)' /\ MinorPart(p, "idle", NoCall)'
    BY <1>3, <1>4, NoCallIs, FilesMoves DEF PackageAt, EarlyLabels
  <2>3. TempPart(p, "idle", NoCall)'
    BY <1>3, <1>5, TempMoves DEF PackageAt, TempBusy, TempLabels, Same
  <2> QED
    BY <1>1, <1>2, <1>3, <1>4, <1>5, <1>6, <2>1, <2>2, <2>3, ReturnKeeps DEF PackageAt
<1>7. CASE ~Return(t)
  <2>1. PICK m \in Minors(c.new) :
          call' = [call EXCEPT ![t].minor = m] /\ pc' = [pc EXCEPT ![t] = "unload"]
    BY <1>1, <1>7 DEF ComputePackageIdMinor, Goto
  <2>2. PICK d : d = [c EXCEPT !.minor = m]
    OBVIOUS
  <2>3. /\ d.new = c.new /\ d.op = c.op /\ d.cur = c.cur /\ d.ok = c.ok /\ d.minor = m
        /\ d.target = c.target /\ call' = [call EXCEPT ![t] = d]
    BY <1>1, <1>3, <2>1, <2>2 DEF CallType
  <2>4. /\ m \in 1 .. MaxMinor /\ Target(c.new, m) \notin files
        /\ \A x \in DevicesOf(p) : x.minor < m
    BY <1>3, <2>1 DEF Minors
  <2>5. Moves(t, "unload", d)
    BY <1>2, <2>1, <2>3 DEF Moves
  <2>6. ActivePart(p, "unload", d)'
    BY <1>3, <1>4, <1>5, <2>3, ActiveMoves DEF PackageAt, BoundAt, NewIsActive, Same
  <2>7. TempPart(p, "unload", d)'
    BY <1>3, <1>5, TempMoves DEF PackageAt, TempBusy, TempLabels, Same
  <2>8. MinorPart(p, "unload", d)'
    <3>1. ASSUME NEW x \in ActiveDevices(p) PROVE x.name.minor < m
      <4>1. x.name \in DevicesOf(p)
        BY DEF DevicesOf, ActiveDevices
      <4> QED
        BY <2>4, <4>1
    <3>2. ActiveDevices(p)' = ActiveDevices(p)
      BY <1>4 DEF KernelSame, ActiveKernelSame
    <3> QED
      BY <2>3, <3>1, <3>2 DEF MinorPart
  <2>9. FilesPart(p, "unload", d)'
    <3>1. c.ok /\ Kept(p, c.cur) /\ PreVersion[p] <= accepted[p] /\ c.cur.ver = accepted[p]
          /\ c.cur.pkg = p /\ c.new.ver >= accepted[p] /\ \A f \in DataFiles(p) : f.ver <= accepted[p]
      BY <1>3 DEF PackageAt, FilesPart, Linked, NewIsActive
    <3>2. NewTarget(d) = Target(c.new, m) /\ NewTarget(d) \notin DataFiles(p)
      BY <2>3, <2>4 DEF NewTarget, DataFiles
    <3>3. NewTarget(d) # c.cur
      <4>1. NewTarget(d) # BuiltIn(p)
        <5>1. Target(c.new, m).minor = m
          BY <1>3 DEF Target, Files
        <5>2. BuiltIn(p).minor = -1
          BY DEF BuiltIn
        <5> QED
          BY <2>4, <3>2, <5>1, <5>2
      <4> QED
        BY <3>1, <3>2, <4>1 DEF Kept
    <3>4. /\ DataFiles(p)' = DataFiles(p) /\ accepted'[p] = accepted[p]
          /\ Kept(p, c.cur)' <=> Kept(p, c.cur)
      BY <1>4 DEF FilesSame, Kept
    <3> QED
      BY <1>3, <2>3, <2>4, <3>1, <3>2, <3>3, <3>4 DEF FilesPart, Linked, NewIsActive
  <2> QED
    BY <1>1, <1>2, <1>3, <1>4, <1>5, <2>3, <2>5, <2>6, <2>7, <2>8, <2>9, CallStep
       DEF PackageAt, DropLabels
<1> QED
  BY <1>6, <1>7

LEMMA UnloadApexFromInitKeeps ==
  ASSUME TypeInv, SafeInv, NEW t \in Threads, UnloadApexFromInit(t)
  PROVE  SafeInv'
<1> USE DEF mounted, disk, memory, mainVars, bounds, history
<1>1. PICK p, c : p = Package(t) /\ c = call[t]
  OBVIOUS
<1>2. /\ pc[t] = "unload" /\ pc[t] \in InstallLabels
      /\ UNCHANGED <<kernel, db, files, accepted, main, doomed>>
      /\ Fail("unload") \/ faults' = faults
  BY <1>1 DEF UnloadApexFromInit, kernel, InstallLabels
<1>3. /\ c \in CallType /\ c.op = "install" /\ c.new \in Files /\ p \in Packages /\ c.new.pkg = p
      /\ c.cur \in Files /\ PackageAt(p, "unload", c) /\ pc[t] # "idle" /\ faults \in Nat
  BY <1>1, <1>2, InstallFacts
<1>4. /\ \A q : KernelSame(q) /\ FilesSame(q) /\ detached \subseteq detached'
      /\ \A q : DatabaseSame(q) => Same(q)
      /\ DetachedInv'
  BY <1>2, <1>3, FailIs, QuietStep
<1>5. \A q : DatabaseSame(q) /\ Same(q)
  BY <1>2, <1>4, DatabaseUnchanged
<1>6. CASE Return(t)
  <2>1. ActivePart(p, "idle", NoCall)'
    BY <1>3, <1>4, <1>5, NoCallIs, ActiveMoves DEF PackageAt, BoundAt, NewIsActive, Same
  <2>2. FilesPart(p, "idle", NoCall)' /\ MinorPart(p, "idle", NoCall)'
    <3>1. /\ PreVersion[p] <= accepted[p] /\ \A f \in DataFiles(p) : f.ver <= accepted[p]
      BY <1>3 DEF PackageAt, FilesPart, Linked
    <3>2. DataFiles(p)' = DataFiles(p) /\ accepted'[p] = accepted[p]
      BY <1>4 DEF FilesSame
    <3> QED
      BY <3>1, <3>2, NoCallIs DEF FilesPart, MinorPart, Linked, UnloadedLabels
  <2>3. TempPart(p, "idle", NoCall)'
    BY <1>3, <1>5, TempMoves DEF PackageAt, TempBusy, TempLabels, Same
  <2> QED
    BY <1>1, <1>2, <1>3, <1>4, <1>5, <1>6, <2>1, <2>2, <2>3, ReturnKeeps DEF PackageAt
<1>7. CASE ~Return(t)
  <2>1. Moves(t, "unmount", c)
    BY <1>1, <1>2, <1>7 DEF UnloadApexFromInit, Moves, Goto, TypeInv, TypeOK
  <2>2. ActivePart(p, "unmount", c)'
    BY <1>3, <1>4, <1>5, ActiveMoves DEF PackageAt, BoundAt, NewIsActive, Same
  <2>3. TempPart(p, "unmount", c)'
    BY <1>3, <1>5, TempMoves DEF PackageAt, TempBusy, TempLabels, Same
  <2>4. ActiveDevices(p)' = ActiveDevices(p)
    BY <1>4 DEF KernelSame, ActiveKernelSame
  <2>5. FilesPart(p, "unmount", c)' /\ MinorPart(p, "unmount", c)'
    BY <1>3, <1>4, <2>4, UnloadMoves DEF PackageAt, BeforeLink
  <2> QED
    BY <1>1, <1>2, <1>3, <1>4, <1>5, <2>1, <2>2, <2>3, <2>5, CallStep DEF PackageAt, DropLabels
<1> QED
  BY <1>6, <1>7

LEMMA UnmountActiveKeeps ==
  ASSUME TypeInv, SafeInv, NEW t \in Threads, UnmountActive(t)
  PROVE  SafeInv'
<1> USE DEF mounted, disk, memory, mainVars, bounds, history
<1>1. PICK p, c : p = Package(t) /\ c = call[t]
  OBVIOUS
<1>2. /\ pc[t] = "unmount" /\ pc[t] \in InstallLabels /\ pc' = [pc EXCEPT ![t] = "forget"]
      /\ UNCHANGED <<db, files, accepted, faults, main, doomed>>
  BY <1>1 DEF UnmountActive, InstallLabels, UnloadedLabels, Goto
<1>3. /\ c \in CallType /\ c.op = "install" /\ c.new \in Files /\ p \in Packages /\ c.new.pkg = p
      /\ c.cur \in Files /\ c.cur.pkg = p /\ PackageAt(p, "unmount", c) /\ pc[t] # "idle"
      /\ faults \in Nat /\ main # "off" /\ Temporary(p) = {} /\ MountInv
  BY <1>1, <1>2, InstallFacts DEF SafeInv
<1>4. PICK e \in EntriesOf(p) : Stands(p, e, TRUE, TRUE) /\ e.image.file = c.cur
  BY <1>3 DEF PackageAt, ActivePart, BoundAt, NewIsActive
<1>5. /\ e \in Entries /\ e.point = IdPoint(e.image.file) /\ Permanent(p) = {e}
      /\ e.image \in Images /\ e.image.file \in Files /\ e.image.file.pkg = p
  BY <1>4, EntryTypes DEF Stands
<1>6. EntriesOf(p) = {e}
  BY <1>3, <1>5 DEF Permanent, Temporary
<1>7. WithPath(c.cur, FALSE) = {e} /\ Latest(p) = {e}
  <2>1. WithPath(c.cur, FALSE) = {x \in Permanent(c.cur.pkg) : x.image.file = c.cur}
    BY WithPathIs
  <2>2. WithPath(c.cur, FALSE) = {e}
    BY <1>3, <1>4, <1>5, <2>1
  <2> QED
    BY <1>5, <1>6, <2>2, NotLessItself DEF Latest
<1>8. /\ call' = [call EXCEPT ![t].entry = e] /\ Umount(ActivePoint(p), c.force)
      /\ c.force \in BOOLEAN
  BY <1>1, <1>3, <1>7 DEF UnmountActive, CallType
<1>9. ActivePoint(p) \in Points /\ ActivePoint(p).pkg = p /\ ActivePoint(p).kind = "active"
  BY <1>3, ActivePointFacts
<1>10. mounts[ActivePoint(p)] = <<e.image>>
  BY <1>4, <1>9 DEF Stands
<1>11. /\ mounts' = [mounts EXCEPT ![ActivePoint(p)] = <<>>] /\ devices' = devices
       /\ detached \subseteq detached' /\ detached' \subseteq detached \cup {e.image}
  BY <1>3, <1>8, <1>9, <1>10, UmountEffect
<1>12. /\ mounts'[ActivePoint(p)] = <<>>
       /\ \A x \in Points : x # ActivePoint(p) => mounts'[x] = mounts[x]
       /\ \A q \in Packages : q # p => KernelSame(q)
       /\ TempKernelSame(p) /\ ActiveDevices(p)' = ActiveDevices(p)
  BY <1>9, <1>11, MountsOf
<1>13. \A q : DatabaseSame(q) /\ FilesSame(q)
  BY <1>2, DatabaseUnchanged DEF FilesSame, DataFiles
<1>14. \A q \in Packages : q # p => Same(q)
  BY <1>2, <1>3, <1>11, <1>12, <1>13, SameIs
<1>15. TempSame(p)
  BY <1>2, <1>3, <1>12, <1>13 DEF TempSame, TempKernelSame, DatabaseSame
<1>16. PICK d : d = [c EXCEPT !.entry = e]
  OBVIOUS
<1>17. /\ d.new = c.new /\ d.op = c.op /\ d.cur = c.cur /\ d.ok = c.ok /\ d.minor = c.minor
       /\ d.entry = e /\ d.target = c.target /\ call' = [call EXCEPT ![t] = d]
  BY <1>1, <1>3, <1>8, <1>16 DEF CallType
<1>18. Stands(p, e, TRUE, FALSE)'
  <2>1. \A pt \in Points : pt.pkg = p /\ pt.kind # "temp" =>
          mounts'[pt] = IF pt = e.point THEN <<e.image>> ELSE <<>>
    <3>1. e.point # ActivePoint(p)
      BY <1>5, PointFacts
    <3> QED
      BY <1>4, <1>12, <3>1 DEF Stands
  <2>2. DevicesAre(p, e.image.dev)'
    BY <1>4, <1>11, <1>12 DEF Stands, DevicesAre
  <2>3. Permanent(p)' = {e}
    BY <1>5, <1>13 DEF DatabaseSame
  <2>4. e.image.dev # NoName => /\ e.image.dev.pkg = p /\ e.image.dev.minor >= 0
                                /\ \E x \in ActiveDevices(p)' : x.name = e.image.dev
    BY <1>4, <1>12 DEF Stands
  <2> QED
    BY <1>5, <2>1, <2>2, <2>3, <2>4 DEF Stands
<1>19. ActivePart(p, "forget", d)'
  BY <1>4, <1>17, <1>18 DEF ActivePart, BoundAt, TempLabels
<1>20. TempPart(p, "forget", d)'
  BY <1>3, <1>15, TempMoves DEF PackageAt, TempBusy, TempLabels
<1>21. FilesPart(p, "forget", d)' /\ MinorPart(p, "forget", d)'
  <2>1. FilesPart(p, "forget", c)' /\ MinorPart(p, "forget", c)'
    BY <1>3, <1>12, <1>13, UnloadMoves DEF PackageAt, BeforeLink
  <2> QED
    BY <1>17, <2>1 DEF FilesPart, MinorPart, Linked, NewIsActive, NewTarget
<1>22. DetachedInv'
  BY <1>4, <1>11 DEF SafeInv, DetachedInv, Stands
<1>23. Moves(t, "forget", d)
  BY <1>2, <1>17 DEF Moves
<1> QED
  BY <1>1, <1>3, <1>14, <1>17, <1>19, <1>20, <1>21, <1>22, <1>23, CallStep DEF PackageAt, DropLabels

LEMMA UnmountActiveFailsKeeps ==
  ASSUME TypeInv, SafeInv, NEW t \in Threads, UnmountActiveFails(t)
  PROVE  SafeInv'
<1> USE DEF mounted, disk, memory, mainVars, bounds, history
<1>1. PICK p, c : p = Package(t) /\ c = call[t]
  OBVIOUS
<1>2. /\ pc[t] = "unmount" /\ pc[t] \in InstallLabels /\ Error(t)
      /\ UNCHANGED <<kernel, db, files, accepted, main, doomed>>
      /\ Fail("unmountActive") \/ faults' = faults
  BY <1>1 DEF UnmountActiveFails, InstallLabels, UnloadedLabels, kernel
<1>3. /\ c \in CallType /\ c.op = "install" /\ c.new \in Files /\ p \in Packages /\ c.new.pkg = p
      /\ c.cur \in Files /\ c.cur.pkg = p /\ PackageAt(p, "unmount", c) /\ pc[t] # "idle"
      /\ faults \in Nat
  BY <1>1, <1>2, InstallFacts
<1>4. /\ \A q : KernelSame(q) /\ FilesSame(q) /\ detached \subseteq detached'
      /\ \A q : DatabaseSame(q) => Same(q)
      /\ DetachedInv'
  BY <1>2, <1>3, FailIs, QuietStep
<1>5. \A q : DatabaseSame(q) /\ Same(q)
  BY <1>2, <1>4, DatabaseUnchanged
<1>6. PICK d : d = [c EXCEPT !.ok = FALSE]
  OBVIOUS
<1>7. /\ d.new = c.new /\ d.op = c.op /\ d.cur = c.cur /\ ~d.ok
      /\ pc' = [pc EXCEPT ![t] = "reload"] /\ call' = [call EXCEPT ![t] = d]
  BY <1>1, <1>2, <1>3, <1>6 DEF CallType, Error, Goto
<1>8. Moves(t, "reload", d)
  BY <1>2, <1>7 DEF Moves
<1>9. ActivePart(p, "reload", d)'
  BY <1>3, <1>4, <1>5, <1>7, ActiveMoves DEF PackageAt, BoundAt, NewIsActive, Same
<1>10. TempPart(p, "reload", d)'
  BY <1>3, <1>5, TempMoves DEF PackageAt, TempBusy, TempLabels, Same
<1>11. FilesPart(p, "reload", d)' /\ MinorPart(p, "reload", d)'
  BY <1>3, <1>4, <1>6, ErrorMoves DEF PackageAt, BeforeLink
<1> QED
  BY <1>1, <1>2, <1>3, <1>4, <1>5, <1>7, <1>8, <1>9, <1>10, <1>11, CallStep DEF PackageAt, DropLabels

LEMMA ForgetKeeps ==
  ASSUME TypeInv, SafeInv, NEW t \in Threads, Forget(t)
  PROVE  SafeInv'
<1> USE DEF mounted, disk, memory, mainVars, bounds, history
<1>1. PICK p, c, e : p = Package(t) /\ c = call[t] /\ e = call[t].entry
  OBVIOUS
<1>2. /\ pc[t] = "forget" /\ pc[t] \in InstallLabels /\ RemoveMountedApex(c.cur, FALSE)
      /\ pc' = [pc EXCEPT ![t] = "unmountId"] /\ call' = call
      /\ UNCHANGED <<kernel, files, accepted, faults, main, doomed>>
  BY <1>1 DEF Forget, InstallLabels, UnloadedLabels, Goto
<1>3. /\ c \in CallType /\ c.op = "install" /\ c.new \in Files /\ p \in Packages /\ c.new.pkg = p
      /\ c.cur \in Files /\ c.cur.pkg = p /\ PackageAt(p, "forget", c) /\ pc[t] # "idle"
      /\ faults \in Nat
  BY <1>1, <1>2, InstallFacts
<1>4. Stands(p, e, TRUE, FALSE) /\ e.image.file = c.cur /\ e = c.entry
  BY <1>1, <1>3 DEF PackageAt, ActivePart
<1>5. e \in Entries /\ Permanent(p) = {e}
  BY <1>4 DEF Stands
<1>6. /\ \A q : q # p => DatabaseSame(q)
      /\ Permanent(p)' = {} /\ Temporary(p)' = Temporary(p)
  BY <1>2, <1>3, <1>4, <1>5, RemoveEffect
<1>7. /\ \A q : KernelSame(q) /\ FilesSame(q) /\ detached \subseteq detached'
      /\ \A q : DatabaseSame(q) => Same(q)
      /\ DetachedInv'
  BY <1>2, <1>3, QuietStep
<1>8. Stands(p, e, FALSE, FALSE)'
  <2>1. \A pt \in Points : pt.pkg = p /\ pt.kind # "temp" =>
          mounts'[pt] = IF pt = e.point THEN <<e.image>> ELSE <<>>
    BY <1>2, <1>4 DEF Stands, kernel
  <2>2. ActiveDevices(p)' = ActiveDevices(p) /\ detached' = detached
    BY <1>2, <1>7 DEF KernelSame, ActiveKernelSame, kernel
  <2>3. DevicesAre(p, e.image.dev)'
    BY <1>4, <2>2 DEF Stands, DevicesAre
  <2>4. e.image.dev # NoName => /\ e.image.dev.pkg = p /\ e.image.dev.minor >= 0
                                /\ \E x \in ActiveDevices(p)' : x.name = e.image.dev
    BY <1>4, <2>2 DEF Stands
  <2> QED
    BY <1>4, <1>6, <2>1, <2>3, <2>4 DEF Stands
<1>9. ActivePart(p, "unmountId", c)'
  BY <1>4, <1>8 DEF ActivePart, BoundAt, TempLabels
<1>10. TempSame(p)
  BY <1>2, <1>3, <1>6, <1>7 DEF TempSame, KernelSame, TempKernelSame
<1>11. TempPart(p, "unmountId", c)'
  BY <1>3, <1>10, TempMoves DEF PackageAt, TempBusy, TempLabels
<1>12. ActiveDevices(p)' = ActiveDevices(p)
  BY <1>7 DEF KernelSame, ActiveKernelSame
<1>13. FilesPart(p, "unmountId", c)' /\ MinorPart(p, "unmountId", c)'
  BY <1>3, <1>7, <1>12, UnloadMoves DEF PackageAt, BeforeLink
<1>14. Moves(t, "unmountId", c)
  BY <1>1, <1>2 DEF Moves, TypeInv, TypeOK
<1> QED
  BY <1>1, <1>3, <1>6, <1>7, <1>9, <1>11, <1>13, <1>14, CallStep DEF PackageAt, DropLabels

LEMMA UnmountIdKeeps ==
  ASSUME TypeInv, SafeInv, NEW t \in Threads, UnmountId(t)
  PROVE  SafeInv'
<1> USE DEF mounted, disk, memory, mainVars, bounds, history
<1>1. PICK p, c, e : p = Package(t) /\ c = call[t] /\ e = call[t].entry
  OBVIOUS
<1>2. /\ pc[t] = "unmountId" /\ pc[t] \in InstallLabels /\ Unmount(e, TRUE)
      /\ pc' = [pc EXCEPT ![t] = "link"] /\ call' = call
      /\ UNCHANGED <<db, files, accepted, faults, main, doomed>>
  BY <1>1 DEF UnmountId, InstallLabels, UnloadedLabels, Goto
<1>3. /\ c \in CallType /\ c.op = "install" /\ c.new \in Files /\ p \in Packages /\ c.new.pkg = p
      /\ PackageAt(p, "unmountId", c) /\ pc[t] # "idle" /\ faults \in Nat /\ main # "off" /\ MountInv
  BY <1>1, <1>2, InstallFacts DEF SafeInv
<1>4. Stands(p, e, FALSE, FALSE)
  BY <1>1, <1>3 DEF PackageAt, ActivePart
<1>5. /\ mounts' = [mounts EXCEPT ![e.point] = <<>>] /\ detached' = detached
      /\ \A q \in Packages : q # p => KernelSame(q)
      /\ TempKernelSame(p) /\ DevicesAre(p, NoName)'
      /\ \A d \in ActiveDevices(p)' : \E b \in ActiveDevices(p) : b.name = d.name
  BY <1>2, <1>3, <1>4, UnmountActiveEffect
<1>6. \A q : DatabaseSame(q) /\ FilesSame(q)
  BY <1>2, DatabaseUnchanged DEF FilesSame, DataFiles
<1>7. \A q \in Packages : q # p => Same(q)
  BY <1>2, <1>3, <1>5, <1>6, SameIs
<1>8. Fallen(p)'
  <2>1. Permanent(p)' = {}
    BY <1>4, <1>6 DEF Stands, DatabaseSame
  <2>2. \A pt \in Points : pt.pkg = p /\ pt.kind # "temp" => mounts'[pt] = <<>>
    BY <1>4, <1>5 DEF Stands, TypeInv, TypeOK, MountedTypeOK
  <2> QED
    BY <1>5, <2>1, <2>2 DEF Fallen
<1>9. ActivePart(p, "link", c)'
  BY <1>8 DEF ActivePart, BoundAt, TempLabels
<1>10. TempSame(p)
  BY <1>2, <1>3, <1>5, <1>6 DEF TempSame, TempKernelSame, DatabaseSame
<1>11. TempPart(p, "link", c)'
  BY <1>3, <1>10, TempMoves DEF PackageAt, TempBusy, TempLabels
<1>12. FilesPart(p, "link", c)' /\ MinorPart(p, "link", c)'
  BY <1>3, <1>5, <1>6, UnloadMoves DEF PackageAt, BeforeLink
<1>13. Moves(t, "link", c)
  BY <1>1, <1>2 DEF Moves, TypeInv, TypeOK
<1>14. DetachedInv'
  BY <1>5 DEF SafeInv, DetachedInv
<1> QED
  BY <1>1, <1>3, <1>7, <1>9, <1>11, <1>12, <1>13, <1>14, CallStep DEF PackageAt, DropLabels

(* A deferred removal needs no more than the device, which is there.        *)
LEMMA UnmountIdFailsNot ==
  ASSUME TypeInv, SafeInv, Recoverable, NEW t \in Threads
  PROVE  ~UnmountIdFails(t)
<1> SUFFICES ASSUME UnmountIdFails(t) PROVE FALSE
  OBVIOUS
<1>1. PICK p, c, e : p = Package(t) /\ c = call[t] /\ e = call[t].entry
  OBVIOUS
<1>2. pc[t] = "unmountId" /\ pc[t] \in InstallLabels
  BY DEF UnmountIdFails, InstallLabels, UnloadedLabels
<1>3. Stands(p, e, FALSE, FALSE)
  BY <1>1, <1>2, InstallFacts DEF PackageAt, ActivePart
<1>4. Deletable(e, TRUE)
  BY <1>3 DEF Deletable, Stands, Named, ActiveDevices
<1>5. Fail("unmountId")
  BY <1>1, <1>4 DEF UnmountIdFails
<1> QED
  BY <1>5 DEF Fail, Recoverable

-----------------------------------------------------------------------------
(* Steps that activate the new APEX, or the old one again.                 *)

ActivateLabels4 == {"activate", "mount", "add", "bind"}

LEMMA ActivateFacts ==
  ASSUME TypeInv, SafeInv, NEW t \in Threads, pc[t] \in ActivateLabels4
  PROVE  /\ call[t].target \in Files /\ call[t].target.pkg = Package(t)
         /\ call[t].ok \in BOOLEAN /\ (Undoing(t) <=> ~call[t].ok)
         /\ call[t].ok => /\ call[t].target = NewTarget(call[t])
                          /\ call[t].target \in DataFiles(Package(t))
                          /\ OnData(call[t].target)
         /\ ~call[t].ok => call[t].target = call[t].cur
         /\ Kept(Package(t), call[t].cur) /\ call[t].minor >= 1
         /\ NewTarget(call[t]) # call[t].cur
<1>1. PICK p, c, l : p = Package(t) /\ c = call[t] /\ l = pc[t]
  OBVIOUS
<1>2. l \in InstallLabels /\ l \in WithTarget
  BY <1>1 DEF ActivateLabels4, InstallLabels, UnloadedLabels, WithTarget
<1>3. /\ c \in CallType /\ c.op = "install" /\ c.new \in Files /\ c.new.pkg = p /\ p \in Packages
      /\ c.cur \in Files /\ c.cur.pkg = p /\ c.minor \in 0 .. MaxMinor /\ FilesPart(p, l, c)
  BY <1>1, <1>2, InstallFacts DEF PackageAt
<1>4. c.target \in Files
  BY <1>1, <1>2 DEF TypeInv, KnownAt
<1>5. c.minor >= 1 /\ NewTarget(c) # c.cur
  BY <1>1, <1>3 DEF FilesPart, ActivateLabels4, UnloadedLabels
<1>6. Kept(p, c.cur)
  BY <1>1, <1>3 DEF FilesPart, ActivateLabels4, NewIsActive
<1>7. ASSUME c.ok
      PROVE  /\ c.target = NewTarget(c) /\ c.target \in DataFiles(p)
             /\ c.target.pkg = p /\ OnData(c.target)
  <2>1. c.target = NewTarget(c) /\ c.target \in DataFiles(p)
    BY <1>1, <1>3, <1>7 DEF FilesPart, Linked, ActivateLabels4
  <2>2. c.target.pkg = p
    BY <2>1 DEF DataFiles
  <2>3. OnData(c.target)
    BY <1>3, <2>1, FileTypes DEF NewTarget
  <2> QED
    BY <2>1, <2>2, <2>3
<1>8. ASSUME ~c.ok
      PROVE  c.target = c.cur
  BY <1>1, <1>3, <1>8 DEF FilesPart, ActivateLabels4
<1>9. c.ok \in BOOLEAN
  BY <1>3 DEF CallType
<1> QED
  BY <1>1, <1>3, <1>4, <1>5, <1>6, <1>7, <1>8, <1>9 DEF Undoing

LEMMA ActivateMoves ==
  ASSUME NEW p, NEW l \in ActivateLabels4, NEW c, NEW k \in ActivateLabels4, NEW d,
         FilesPart(p, l, c), FilesSame(p), d.new = c.new, d.op = c.op, d.cur = c.cur,
         d.ok = c.ok, d.minor = c.minor, d.target = c.target
  PROVE  FilesPart(p, k, d)'
<1>1. /\ Linked(l, c) <=> c.ok
      /\ Linked(k, d) <=> c.ok
      /\ ~NewIsActive(l, c) /\ ~NewIsActive(k, d)
      /\ l \in UnloadedLabels /\ k \in UnloadedLabels
      /\ k \notin {"minor", "unload", "unmount", "forget", "unmountId", "link", "undo", "accept", "collect", "write"}
      /\ l # "undo" /\ NewTarget(d) = NewTarget(c)
  BY DEF ActivateLabels4, UnloadedLabels, Linked, NewIsActive, NewTarget
<1>2. \A f : Kept(p, f)' <=> Kept(p, f)
  BY DEF Kept, FilesSame
<1>3. ~c.ok => c.target = c.cur
  BY DEF FilesPart, ActivateLabels4
<1> QED
  BY <1>1, <1>2, <1>3 DEF FilesPart, FilesSame

LEMMA LinkKeeps ==
  ASSUME TypeInv, SafeInv, NEW t \in Threads, Link(t)
  PROVE  SafeInv'
<1> USE DEF mounted, disk, memory, mainVars, bounds, history
<1>1. PICK p, c : p = Package(t) /\ c = call[t]
  OBVIOUS
<1>2. PICK d : d = [c EXCEPT !.target = NewTarget(c)]
  OBVIOUS
<1>3. /\ pc[t] = "link" /\ pc[t] \in InstallLabels
      /\ call' = [call EXCEPT ![t] = d]
      /\ UNCHANGED <<kernel, db, accepted, main, doomed>>
  BY <1>1, <1>2 DEF Link, InstallLabels, UnloadedLabels, NewTarget, kernel
<1>4. /\ c \in CallType /\ c.op = "install" /\ c.new \in Files /\ p \in Packages /\ c.new.pkg = p
      /\ c.cur \in Files /\ c.minor \in 0 .. MaxMinor
      /\ PackageAt(p, "link", c) /\ pc[t] # "idle" /\ faults \in Nat
  BY <1>1, <1>3, InstallFacts
<1>5. /\ d.new = c.new /\ d.op = c.op /\ d.cur = c.cur /\ d.ok = c.ok /\ d.minor = c.minor
      /\ d.target = NewTarget(c) /\ NewTarget(d) = NewTarget(c)
  BY <1>2, <1>4 DEF CallType, NewTarget
<1>6. NewTarget(c) \notin DataFiles(p) /\ c.ok /\ c.minor >= 1 /\ NewTarget(c) # c.cur
  BY <1>4 DEF PackageAt, FilesPart, UnloadedLabels
<1>7. NewTarget(c).pkg = p /\ NewTarget(c) \in Files
  BY <1>4, FileTypes DEF NewTarget, Target, Files
<1>8. PICK k : /\ k \in {"activate", "undo"} /\ pc' = [pc EXCEPT ![t] = k]
               /\ \/ files' = files \cup {NewTarget(c)}
                  \/ files' = files /\ k = "undo"
               /\ (\E place : Fail(place)) \/ faults' = faults
  <2>1. NewTarget(c) \notin files
    BY <1>6, <1>7 DEF DataFiles
  <2> QED
    BY <1>1, <2>1 DEF Link, Goto, NewTarget
<1>9. faults' \in Nat /\ faults' >= faults
  BY <1>4, <1>8, FailIs
<1>10. \A q : q # p => DataFiles(q)' = DataFiles(q)
  BY <1>7, <1>8 DEF DataFiles
<1>11. /\ DataFiles(p) \subseteq DataFiles(p)'
       /\ DataFiles(p)' \subseteq DataFiles(p) \cup {NewTarget(c)}
       /\ k = "activate" => NewTarget(c) \in DataFiles(p)'
  BY <1>7, <1>8 DEF DataFiles
<1>12. \A q : KernelSame(q) /\ DatabaseSame(q)
  BY <1>3, NothingMounted, DatabaseUnchanged DEF kernel
<1>13. detached' = detached
  BY <1>3 DEF kernel
<1>14. \A q \in Packages : q # p => Same(q)
  BY <1>3, <1>4, <1>9, <1>10, <1>12, <1>13, SameIs DEF FilesSame
<1>15. ActiveSame(p) /\ TempSame(p)
  BY <1>4, <1>9, <1>12, <1>13
     DEF ActiveSame, TempSame, KernelSame, ActiveKernelSame, TempKernelSame, DatabaseSame
<1>16. ActivePart(p, k, d)'
  <2>1. Fallen(p)
    BY <1>4 DEF PackageAt, ActivePart
  <2>2. Fallen(p)'
    BY <1>15, <2>1, FallenFrame
  <2> QED
    BY <1>8, <2>2 DEF ActivePart, BoundAt, TempLabels
<1>17. TempPart(p, k, d)'
  BY <1>4, <1>8, <1>15, TempMoves DEF PackageAt, TempBusy, TempLabels
<1>18. MinorPart(p, k, d)'
  BY <1>4, <1>5, <1>15 DEF PackageAt, MinorPart, ActiveSame
<1>19. FilesPart(p, k, d)'
  <2>1. /\ PreVersion[p] <= accepted[p] /\ \A f \in DataFiles(p) : f.ver <= accepted[p]
        /\ c.cur.ver = accepted[p] /\ c.cur.pkg = p /\ c.new.ver >= accepted[p] /\ Kept(p, c.cur)
    BY <1>4 DEF PackageAt, FilesPart, Linked, NewIsActive
  <2>2. Kept(p, c.cur)'
    BY <1>11, <2>1 DEF Kept
  <2>3. k = "undo" \/ Linked(k, d)
    BY <1>5, <1>6, <1>8 DEF Linked
  <2>4. Linked(k, d) => k = "activate"
    BY <1>8 DEF Linked
  <2>5. ~NewIsActive(k, d) /\ k \notin {"minor", "unload", "unmount", "forget", "unmountId", "link",
                                        "accept", "collect", "write"}
    BY <1>8 DEF NewIsActive
  <2>6. accepted' = accepted
    BY <1>3
  <2> QED
    BY <1>4, <1>5, <1>6, <1>11, <2>1, <2>2, <2>3, <2>4, <2>5, <2>6 DEF FilesPart
<1>20. DetachedInv'
  BY <1>13 DEF SafeInv, DetachedInv
<1>21. Moves(t, k, d)
  BY <1>3, <1>8 DEF Moves
<1> QED
  BY <1>1, <1>4, <1>5, <1>8, <1>14, <1>16, <1>17, <1>18, <1>19, <1>20, <1>21, CallStep
     DEF PackageAt, DropLabels

LEMMA ActivateKeeps ==
  ASSUME TypeInv, SafeInv, NEW t \in Threads, Activate(t)
  PROVE  SafeInv'
<1> USE DEF mounted, disk, memory, mainVars, bounds, history
<1>1. PICK p, c : p = Package(t) /\ c = call[t]
  OBVIOUS
<1>2. /\ pc[t] = "activate" /\ pc[t] \in InstallLabels /\ pc[t] \in ActivateLabels4
      /\ call' = call /\ UNCHANGED <<kernel, db, files, accepted, faults, main, doomed>>
  BY DEF Activate, InstallLabels, UnloadedLabels, ActivateLabels4, kernel
<1>3. /\ c \in CallType /\ c.op = "install" /\ c.new \in Files /\ p \in Packages /\ c.new.pkg = p
      /\ PackageAt(p, "activate", c) /\ pc[t] # "idle" /\ faults \in Nat
  BY <1>1, <1>2, InstallFacts
<1>4. c.target.pkg = p
  BY <1>1, <1>2, ActivateFacts
<1>5. Fallen(p)
  BY <1>3 DEF PackageAt, ActivePart
<1>6. pc' = [pc EXCEPT ![t] = "mount"]
  <2>1. {e \in EntriesOf(c.target.pkg) : /\ ~IsTemp(e) /\ e.image.file.ver = c.target.ver
                                         /\ Exists(e.image.file)} = {}
    BY <1>4, <1>5 DEF Fallen, Permanent
  <2> QED
    BY <1>1, <2>1 DEF Activate, Activating, Goto
<1>7. /\ \A q : KernelSame(q) /\ FilesSame(q) /\ detached \subseteq detached'
      /\ \A q : DatabaseSame(q) => Same(q)
      /\ DetachedInv'
  BY <1>2, <1>3, QuietStep
<1>8. \A q : DatabaseSame(q) /\ Same(q)
  BY <1>2, <1>7, DatabaseUnchanged
<1>9. ActivePart(p, "mount", c)'
  BY <1>5, <1>8, FallenFrame DEF ActivePart, BoundAt, TempLabels, Same
<1>10. TempPart(p, "mount", c)'
  BY <1>3, <1>8, TempMoves DEF PackageAt, TempBusy, TempLabels, Same
<1>11. FilesPart(p, "mount", c)'
  BY <1>3, <1>7, ActivateMoves DEF PackageAt, ActivateLabels4
<1>12. MinorPart(p, "mount", c)'
  BY <1>3, <1>8 DEF PackageAt, MinorPart, Same, ActiveSame
<1>13. Moves(t, "mount", c)
  BY <1>1, <1>2, <1>6 DEF Moves, TypeInv, TypeOK
<1> QED
  BY <1>1, <1>3, <1>7, <1>8, <1>9, <1>10, <1>11, <1>12, <1>13, CallStep DEF PackageAt, DropLabels

(* No device has the name that the activated APEX's will get.               *)
LEMMA DeviceNameFacts ==
  ASSUME TypeInv, SafeInv, NEW t \in Threads, pc[t] = "mount"
  PROVE  /\ DeviceName(t) \in Names \cup {NoName}
         /\ DeviceName(t) # NoName => DeviceName(t).pkg = Package(t) /\ DeviceName(t).minor >= 0
         /\ \A d \in devices : d.name # DeviceName(t)
<1>1. PICK p, c, f, name : /\ p = Package(t) /\ c = call[t] /\ f = call[t].target
                           /\ name = DeviceName(t)
  OBVIOUS
<1>2. pc[t] \in InstallLabels /\ pc[t] \in ActivateLabels4
  BY DEF InstallLabels, UnloadedLabels, ActivateLabels4
<1>3. /\ c.new \in Files /\ c.new.pkg = p /\ c.minor \in 0 .. MaxMinor /\ PackageAt(p, "mount", c)
  BY <1>1, <1>2, InstallFacts
<1>4. c.minor \in Int /\ c.minor >= 1
  BY <1>1, <1>2, <1>3, ActivateFacts
<1>5. \A d \in ActiveDevices(p) : d.name.minor < c.minor
  BY <1>3 DEF PackageAt, MinorPart
<1>6. CASE ~OnData(f)
  <2>1. name = NoName
    BY <1>1, <1>6 DEF DeviceName, Activating
  <2> QED
    BY <1>1, <2>1, DeviceTypes
<1>7. CASE OnData(f)
  <2>1. PICK m \in {c.minor, c.minor + 1} : name = IdName(c.new, m)
    BY <1>1, <1>7 DEF DeviceName, Activating
  <2>2. name \in Names /\ name.pkg = p /\ name.minor = m /\ m >= c.minor /\ m >= 0 /\ m \in Int
    <3>1. IdName(c.new, c.minor) \in Names /\ IdName(c.new, c.minor + 1) \in Names
      BY <1>3, FileTypes
    <3>2. name.pkg = p /\ name.minor = m
      BY <1>3, <2>1 DEF IdName
    <3>3. m \in Int /\ m >= c.minor /\ m >= 0
      BY <1>4
    <3> QED
      BY <2>1, <3>1, <3>2, <3>3
  <2>3. ASSUME NEW d \in devices, d.name = name
        PROVE  FALSE
    <3>1. d \in ActiveDevices(p)
      BY <2>2, <2>3 DEF ActiveDevices
    <3>2. d.name.minor < c.minor
      BY <1>5, <3>1
    <3> QED
      BY <1>4, <2>2, <2>3, <3>2
  <2> QED
    BY <1>1, <2>2, <2>3
<1> QED
  BY <1>6, <1>7

LEMMA MountKeeps ==
  ASSUME TypeInv, SafeInv, NEW t \in Threads, Mount(t)
  PROVE  SafeInv'
<1> USE DEF mounted, disk, memory, mainVars, bounds, history
<1>1. PICK p, c, f, name : /\ p = Package(t) /\ c = call[t] /\ f = call[t].target
                           /\ name = DeviceName(t)
  OBVIOUS
<1>2. /\ pc[t] = "mount" /\ pc[t] \in InstallLabels /\ pc[t] \in ActivateLabels4
      /\ MountImage(t, f, IdPoint(f), name) /\ pc' = [pc EXCEPT ![t] = "add"]
      /\ UNCHANGED <<db, files, accepted, faults, main, doomed>>
  BY <1>1 DEF Mount, InstallLabels, UnloadedLabels, ActivateLabels4, Goto, Activating
<1>3. /\ c \in CallType /\ c.op = "install" /\ c.new \in Files /\ p \in Packages /\ c.new.pkg = p
      /\ PackageAt(p, "mount", c) /\ pc[t] # "idle" /\ faults \in Nat
  BY <1>1, <1>2, InstallFacts
<1>4. f \in Files /\ f.pkg = p
  BY <1>1, <1>2, ActivateFacts
<1>5. /\ name \in Names \cup {NoName}
      /\ name # NoName => name.pkg = p /\ name.minor >= 0
      /\ \A d \in devices : d.name # name
  BY <1>1, <1>2, DeviceNameFacts
<1>6. PICK image \in NewImages(f, name) :
        /\ MountPackageImpl(image, IdPoint(f))
        /\ call' = [call EXCEPT ![t].entry = [image |-> image, point |-> IdPoint(f)]]
  BY <1>2 DEF MountImage
<1> DEFINE pt == IdPoint(f)
<1>7. PICK e : e = [image |-> image, point |-> pt]
  OBVIOUS
<1>8. pt \in Points /\ pt.pkg = p /\ pt.kind = "id" /\ pt # ActivePoint(p)
  BY <1>4, PointFacts
<1>9. image \in Images /\ image.dev = name /\ image.file = f
  BY <1>4, <1>5, <1>6 DEF NewImages, FreeLoops, Images
<1>10. e \in Entries /\ e.image = image /\ e.point = pt
  BY <1>7, <1>8, <1>9 DEF Entries
<1>11. image.dev # NoName => image.dev.pkg = pt.pkg /\ (image.dev.minor = -1 <=> pt.kind = "temp")
  <2>1. name # NoName => name.minor # -1
    BY <1>5
  <2> QED
    BY <1>5, <1>8, <1>9, <2>1
<1>12. /\ mounts[pt] = <<>> /\ mounts'[pt] = <<image>> /\ detached' = detached
       /\ \A x \in Points : x # pt => mounts'[x] = mounts[x]
       /\ \A q \in Packages : q # p => KernelSame(q)
       /\ TempKernelSame(p)
       /\ ActiveDevices(p)' = {x \in ActiveDevices(p) : x.name # image.dev} \cup
            IF image.dev = NoName THEN {}
            ELSE {[name |-> image.dev, loop |-> image.loop, deferred |-> FALSE]}
  BY <1>6, <1>8, <1>9, <1>11, MountEffect
<1>13. \A q : DatabaseSame(q) /\ FilesSame(q)
  BY <1>2, DatabaseUnchanged DEF FilesSame, DataFiles
<1>14. \A q \in Packages : q # p => Same(q)
  BY <1>2, <1>3, <1>12, <1>13, SameIs
<1>15. PICK d : d = [c EXCEPT !.entry = e]
  OBVIOUS
<1>16. /\ d.new = c.new /\ d.op = c.op /\ d.cur = c.cur /\ d.ok = c.ok /\ d.minor = c.minor
       /\ d.entry = e /\ d.target = c.target /\ call' = [call EXCEPT ![t] = d]
  BY <1>1, <1>3, <1>6, <1>7, <1>15 DEF CallType
<1>17. Fallen(p)
  BY <1>3 DEF PackageAt, ActivePart
<1> HIDE DEF pt
<1>18. Stands(p, e, FALSE, FALSE)'
  <2>1. \A x \in Points : x.pkg = p /\ x.kind # "temp" =>
          mounts'[x] = IF x = e.point THEN <<e.image>> ELSE <<>>
    BY <1>10, <1>12, <1>17 DEF Fallen
  <2>2. DevicesAre(p, name)'
    <3> SUFFICES ASSUME NEW x \in ActiveDevices(p)'
                 PROVE  IF x.name = name THEN ~x.deferred
                        ELSE x.deferred /\ \E m \in detached' : m.dev = x.name
      BY DEF DevicesAre
    <3>1. CASE x \in ActiveDevices(p) /\ x.name # name
      BY <1>12, <1>17, <3>1, DeviceTypes DEF Fallen, DevicesAre, ActiveDevices
    <3>2. CASE x = [name |-> image.dev, loop |-> image.loop, deferred |-> FALSE]
      BY <1>9, <3>2
    <3> QED
      BY <1>9, <1>12, <3>1, <3>2
  <2>3. name # NoName => \E x \in ActiveDevices(p)' : x.name = name
    <3> SUFFICES ASSUME name # NoName PROVE \E x \in ActiveDevices(p)' : x.name = name
      OBVIOUS
    <3>1. PICK x : x = [name |-> image.dev, loop |-> image.loop, deferred |-> FALSE]
      OBVIOUS
    <3>2. x \in ActiveDevices(p)' /\ x.name = name
      BY <1>9, <1>12, <3>1
    <3> QED
      BY <3>2
  <2>4. Permanent(p)' = {}
    BY <1>13, <1>17 DEF Fallen, DatabaseSame
  <2>5. e.image.dev = name /\ e.image.file = f /\ e.point = IdPoint(e.image.file)
    BY <1>9, <1>10 DEF pt
  <2> QED
    BY <1>4, <1>5, <1>10, <2>1, <2>2, <2>3, <2>4, <2>5 DEF Stands
<1>19. ActivePart(p, "add", d)'
  BY <1>1, <1>9, <1>10, <1>16, <1>18 DEF ActivePart, BoundAt, TempLabels
<1>20. TempSame(p)
  BY <1>2, <1>3, <1>12, <1>13 DEF TempSame, TempKernelSame, DatabaseSame
<1>21. TempPart(p, "add", d)'
  BY <1>3, <1>20, TempMoves DEF PackageAt, TempBusy, TempLabels
<1>22. FilesPart(p, "add", d)'
  BY <1>3, <1>13, <1>16, ActivateMoves DEF PackageAt, ActivateLabels4
<1>23. MinorPart(p, "add", d)'
  BY DEF MinorPart
<1>24. DetachedInv'
  BY <1>12 DEF SafeInv, DetachedInv
<1>25. Moves(t, "add", d)
  BY <1>2, <1>16 DEF Moves
<1> QED
  BY <1>1, <1>3, <1>14, <1>16, <1>19, <1>21, <1>22, <1>23, <1>24, <1>25, CallStep
     DEF PackageAt, DropLabels

(* The old APEX can always be mounted again; a new one that cannot is       *)
(* unlinked.                                                               *)
LEMMA MountFailsKeeps ==
  ASSUME TypeInv, SafeInv, Recoverable, NEW t \in Threads, MountFails(t)
  PROVE  SafeInv'
<1> USE DEF mounted, disk, memory, mainVars, bounds, history
<1>1. PICK p, c, f, name : /\ p = Package(t) /\ c = call[t] /\ f = call[t].target
                           /\ name = DeviceName(t)
  OBVIOUS
<1>2. /\ pc[t] = "mount" /\ pc[t] \in InstallLabels /\ pc[t] \in ActivateLabels4
      /\ IF Exists(f) /\ Mountable(IdPoint(f), name)
         THEN Fail(IF Undoing(t) THEN "undo" ELSE "mount") ELSE faults' = faults
      /\ MountPackageFails(name)
      /\ pc' = [pc EXCEPT ![t] = ActivationFailed(t)] /\ call' = call
      /\ UNCHANGED <<db, files, accepted, main, doomed>>
  BY <1>1 DEF MountFails, InstallLabels, UnloadedLabels, ActivateLabels4, Goto, Activating
<1>3. /\ c \in CallType /\ c.op = "install" /\ c.new \in Files /\ p \in Packages /\ c.new.pkg = p
      /\ PackageAt(p, "mount", c) /\ pc[t] # "idle" /\ faults \in Nat
  BY <1>1, <1>2, InstallFacts
<1>4. /\ f \in Files /\ f.pkg = p /\ (Undoing(t) <=> ~c.ok) /\ (~c.ok => f = c.cur)
      /\ (c.ok => f = NewTarget(c)) /\ Kept(p, c.cur)
  BY <1>1, <1>2, ActivateFacts
<1>5. /\ name \in Names \cup {NoName}
      /\ name # NoName => name.pkg = p
      /\ \A d \in devices : d.name # name
  BY <1>1, <1>2, DeviceNameFacts
<1>6. Fallen(p)
  BY <1>3 DEF PackageAt, ActivePart
<1>7. Mountable(IdPoint(f), name)
  <2>1. mounts[IdPoint(f)] = <<>>
    BY <1>4, <1>6, PointFacts DEF Fallen
  <2> QED
    BY <1>5, <2>1 DEF Mountable, Named
<1>8. c.ok
  <2> SUFFICES ASSUME ~c.ok PROVE FALSE
    OBVIOUS
  <2>1. Exists(f)
    BY <1>4 DEF Kept, DataFiles, Exists, BuiltIn, OnData
  <2>2. Fail("undo")
    BY <1>2, <1>4, <1>7, <2>1
  <2> QED
    BY <2>2 DEF Fail, Recoverable
<1>9. pc' = [pc EXCEPT ![t] = "undo"]
  BY <1>2, <1>4, <1>8 DEF ActivationFailed
<1>10. faults' \in Nat /\ faults' >= faults
  BY <1>2, <1>3, FailIs
<1>11. /\ mounts' = mounts /\ detached' = detached /\ \A q \in Packages : KernelSame(q)
  BY <1>2, <1>3, <1>5, MountFailsEffect
<1>12. \A q : DatabaseSame(q) /\ FilesSame(q)
  BY <1>2, DatabaseUnchanged DEF FilesSame, DataFiles
<1>13. \A q \in Packages : Same(q)
  BY <1>3, <1>10, <1>11, <1>12, SameIs
<1>14. ActivePart(p, "undo", c)'
  BY <1>3, <1>6, <1>13, FallenFrame DEF ActivePart, BoundAt, TempLabels, Same
<1>15. TempPart(p, "undo", c)'
  BY <1>3, <1>13, TempMoves DEF PackageAt, TempBusy, TempLabels, Same
<1>16. MinorPart(p, "undo", c)'
  BY <1>3, <1>13 DEF PackageAt, MinorPart, Same, ActiveSame
<1>17. FilesPart(p, "undo", c)'
  <2>1. Linked("mount", c) /\ ~Linked("undo", c) /\ "mount" \in UnloadedLabels
        /\ ~NewIsActive("undo", c)
    BY <1>8 DEF Linked, UnloadedLabels, NewIsActive
  <2>2. Kept(p, c.cur)'
    BY <1>4, <1>12 DEF Kept, FilesSame
  <2>3. DataFiles(p)' = DataFiles(p) /\ accepted'[p] = accepted[p]
    BY <1>12 DEF FilesSame
  <2> QED
    BY <1>3, <1>8, <2>1, <2>2, <2>3 DEF PackageAt, FilesPart
<1>18. DetachedInv'
  BY <1>11 DEF SafeInv, DetachedInv
<1>19. Moves(t, "undo", c)
  BY <1>1, <1>2, <1>9 DEF Moves, TypeInv, TypeOK
<1> QED
  BY <1>1, <1>3, <1>13, <1>14, <1>15, <1>16, <1>17, <1>18, <1>19, CallStep DEF PackageAt, DropLabels

LEMMA AddKeeps ==
  ASSUME TypeInv, SafeInv, NEW t \in Threads, Add(t)
  PROVE  SafeInv'
<1> USE DEF mounted, disk, memory, mainVars, bounds, history
<1>1. PICK p, c, e : p = Package(t) /\ c = call[t] /\ e = call[t].entry
  OBVIOUS
<1>2. /\ pc[t] = "add" /\ pc[t] \in InstallLabels /\ AddMountedApex(e)
      /\ pc' = [pc EXCEPT ![t] = "bind"] /\ call' = call
      /\ UNCHANGED <<kernel, files, accepted, faults, main, doomed>>
  BY <1>1 DEF Add, InstallLabels, UnloadedLabels, Goto
<1>3. /\ c \in CallType /\ c.op = "install" /\ c.new \in Files /\ p \in Packages /\ c.new.pkg = p
      /\ PackageAt(p, "add", c) /\ pc[t] # "idle" /\ faults \in Nat
  BY <1>1, <1>2, InstallFacts
<1>4. Stands(p, e, FALSE, FALSE) /\ e.image.file = c.target /\ e = c.entry
  BY <1>1, <1>3 DEF PackageAt, ActivePart
<1>5. e \in Entries /\ e.image.file.pkg = p /\ ~IsTemp(e) /\ Permanent(p) = {}
  <2>1. e \in Entries /\ e.image.file.pkg = p /\ e.point = IdPoint(e.image.file) /\ Permanent(p) = {}
    BY <1>4 DEF Stands
  <2> QED
    BY <2>1, EntryTypes, PointFacts DEF IsTemp
<1>6. /\ \A q : q # p => DatabaseSame(q)
      /\ Permanent(p)' = {e} /\ Temporary(p)' = Temporary(p)
  <2>1. /\ Permanent(p)' = Permanent(p) \cup IF IsTemp(e) THEN {} ELSE {e}
        /\ Temporary(p)' = Temporary(p) \cup IF IsTemp(e) THEN {e} ELSE {}
        /\ \A q : q # p => DatabaseSame(q)
    BY <1>2, <1>5, AddEffect
  <2> QED
    BY <1>5, <2>1
<1>7. /\ \A q : KernelSame(q) /\ FilesSame(q) /\ detached \subseteq detached'
      /\ \A q : DatabaseSame(q) => Same(q)
      /\ DetachedInv'
  BY <1>2, <1>3, QuietStep
<1>8. Stands(p, e, TRUE, FALSE)'
  <2>1. \A pt \in Points : pt.pkg = p /\ pt.kind # "temp" =>
          mounts'[pt] = IF pt = e.point THEN <<e.image>> ELSE <<>>
    BY <1>2, <1>4 DEF Stands, kernel
  <2>2. ActiveDevices(p)' = ActiveDevices(p) /\ detached' = detached
    BY <1>2, <1>7 DEF KernelSame, ActiveKernelSame, kernel
  <2>3. DevicesAre(p, e.image.dev)'
    BY <1>4, <2>2 DEF Stands, DevicesAre
  <2>4. e.image.dev # NoName => /\ e.image.dev.pkg = p /\ e.image.dev.minor >= 0
                                /\ \E x \in ActiveDevices(p)' : x.name = e.image.dev
    BY <1>4, <2>2 DEF Stands
  <2> QED
    BY <1>4, <1>6, <2>1, <2>3, <2>4 DEF Stands
<1>9. ActivePart(p, "bind", c)'
  BY <1>4, <1>8 DEF ActivePart, BoundAt, TempLabels
<1>10. TempSame(p)
  BY <1>2, <1>3, <1>6, <1>7 DEF TempSame, KernelSame, TempKernelSame
<1>11. TempPart(p, "bind", c)'
  BY <1>3, <1>10, TempMoves DEF PackageAt, TempBusy, TempLabels
<1>12. FilesPart(p, "bind", c)'
  BY <1>3, <1>7, ActivateMoves DEF PackageAt, ActivateLabels4
<1>13. MinorPart(p, "bind", c)'
  BY DEF MinorPart
<1>14. Moves(t, "bind", c)
  BY <1>1, <1>2 DEF Moves, TypeInv, TypeOK
<1> QED
  BY <1>1, <1>3, <1>6, <1>7, <1>9, <1>11, <1>12, <1>13, <1>14, CallStep DEF PackageAt, DropLabels

LEMMA BindKeeps ==
  ASSUME TypeInv, SafeInv, NEW t \in Threads, Bind(t)
  PROVE  SafeInv'
<1> USE DEF mounted, disk, memory, mainVars, bounds, history
<1>1. PICK p, c, f, e : p = Package(t) /\ c = call[t] /\ f = call[t].target /\ e = call[t].entry
  OBVIOUS
<1>2. /\ pc[t] = "bind" /\ pc[t] \in InstallLabels /\ pc[t] \in ActivateLabels4
      /\ pc' = [pc EXCEPT ![t] = Activated(t)] /\ call' = call
      /\ UNCHANGED <<db, files, accepted, main, doomed>>
  BY <1>1 DEF Bind, InstallLabels, UnloadedLabels, ActivateLabels4, Goto
<1>3. /\ c \in CallType /\ c.op = "install" /\ c.new \in Files /\ p \in Packages /\ c.new.pkg = p
      /\ c.cur.ver = accepted[p] /\ main # "off" /\ MountInv
      /\ PackageAt(p, "bind", c) /\ pc[t] # "idle" /\ faults \in Nat /\ Temporary(p) = {}
  BY <1>1, <1>2, InstallFacts DEF SafeInv
<1>4. /\ f \in Files /\ f.pkg = p /\ (Undoing(t) <=> ~c.ok) /\ (~c.ok => f = c.cur)
      /\ (c.ok => f = NewTarget(c) /\ f \in DataFiles(p))
      /\ Kept(p, c.cur) /\ c.minor >= 1 /\ NewTarget(c) # c.cur /\ c.ok \in BOOLEAN
  BY <1>1, <1>2, ActivateFacts
<1>5. Stands(p, e, TRUE, FALSE) /\ e.image.file = f /\ e = c.entry
  BY <1>1, <1>3 DEF PackageAt, ActivePart
<1>6. e \in Entries /\ Permanent(p) = {e} /\ e.point = IdPoint(f)
  BY <1>5 DEF Stands
<1>7. Latest(p) = {e}
  <2>1. EntriesOf(p) = {e}
    BY <1>3, <1>6 DEF Permanent, Temporary
  <2> QED
    BY <1>6, <2>1, NotLessItself DEF Latest
<1>8. /\ ActivePoint(p) \in Points /\ ActivePoint(p).pkg = p /\ ActivePoint(p).kind = "active"
      /\ IdPoint(f) \in Points /\ IdPoint(f).pkg = p /\ IdPoint(f).kind = "id"
      /\ ActivePoint(p) # IdPoint(f)
  BY <1>4, PointFacts
<1>9. mounts[ActivePoint(p)] = <<>> /\ mounts[IdPoint(f)] = <<e.image>>
  BY <1>5, <1>6, <1>8 DEF Stands
<1>10. BindMount(f, FALSE) /\ faults' = faults
  BY <1>1, <1>4, <1>5, <1>7, <1>9 DEF Bind, Activating
<1>11. /\ mounts' = [mounts EXCEPT ![ActivePoint(p)] = <<e.image>>] /\ devices' = devices
       /\ detached' = detached
  BY <1>3, <1>4, <1>9, <1>10, BindMountEffect
<1>12. /\ mounts'[ActivePoint(p)] = <<e.image>>
       /\ \A x \in Points : x # ActivePoint(p) => mounts'[x] = mounts[x]
       /\ \A q \in Packages : q # p => KernelSame(q)
       /\ TempKernelSame(p) /\ ActiveDevices(p)' = ActiveDevices(p)
  BY <1>8, <1>11, MountsOf
<1>13. \A q : DatabaseSame(q) /\ FilesSame(q)
  BY <1>2, DatabaseUnchanged DEF FilesSame, DataFiles
<1>14. \A q \in Packages : q # p => Same(q)
  BY <1>3, <1>10, <1>11, <1>12, <1>13, SameIs
<1>15. TempSame(p)
  BY <1>3, <1>10, <1>12, <1>13 DEF TempSame, TempKernelSame, DatabaseSame
<1>16. Stands(p, e, TRUE, TRUE)'
  <2>1. \A pt \in Points : pt.pkg = p /\ pt.kind # "temp" =>
          mounts'[pt] = IF pt = e.point \/ pt = ActivePoint(p) THEN <<e.image>> ELSE <<>>
    BY <1>5, <1>6, <1>8, <1>12 DEF Stands
  <2>2. DevicesAre(p, e.image.dev)'
    BY <1>5, <1>11, <1>12 DEF Stands, DevicesAre
  <2>3. Permanent(p)' = {e}
    BY <1>6, <1>13 DEF DatabaseSame
  <2>4. e.image.dev # NoName => /\ e.image.dev.pkg = p /\ e.image.dev.minor >= 0
                                /\ \E x \in ActiveDevices(p)' : x.name = e.image.dev
    BY <1>5, <1>12 DEF Stands
  <2> QED
    BY <1>5, <2>1, <2>2, <2>3, <2>4 DEF Stands
<1>17. e \in EntriesOf(p)'
  BY <1>6, <1>13 DEF Permanent, DatabaseSame
<1>18. PICK k : k = Activated(t)
  OBVIOUS
<1>19. (c.ok /\ k = "accept") \/ (~c.ok /\ k = "reload")
  BY <1>4, <1>18 DEF Activated
<1>20. ActivePart(p, k, c)'
  <2>1. Kept(p, c.cur)' /\ accepted'[p] = accepted[p]
    BY <1>4, <1>13 DEF Kept, FilesSame
  <2>2. NewIsActive(k, c) <=> c.ok
    BY <1>19 DEF NewIsActive
  <2>3. IF NewIsActive(k, c) THEN e.image.file = c.target
        ELSE /\ e.image.file.ver = accepted'[p] /\ Kept(p, e.image.file)'
             /\ c.op = "install" => e.image.file = c.cur
    BY <1>1, <1>3, <1>4, <1>5, <2>1, <2>2
  <2>4. k \notin {"forget", "unmountId", "link", "activate", "mount", "undo", "add", "bind"}
    BY <1>19
  <2> QED
    BY <1>16, <1>17, <2>3, <2>4 DEF ActivePart
<1>21. TempPart(p, k, c)'
  BY <1>3, <1>15, <1>19, TempMoves DEF PackageAt, TempBusy, TempLabels
<1>22. FilesPart(p, k, c)'
  <2>1. Kept(p, c.cur)' /\ accepted'[p] = accepted[p] /\ DataFiles(p)' = DataFiles(p)
    BY <1>4, <1>13 DEF Kept, FilesSame
  <2>2. (Linked(k, c) <=> c.ok) /\ (Linked("bind", c) <=> c.ok)
    BY <1>4, <1>19 DEF Linked
  <2>3. k \notin {"unload", "unmount", "forget", "unmountId", "link", "undo", "minor", "collect", "write",
                  "activate", "mount", "add", "bind"}
    BY <1>19
  <2> QED
    BY <1>1, <1>3, <1>4, <1>19, <2>1, <2>2, <2>3 DEF PackageAt, FilesPart
<1>23. MinorPart(p, k, c)'
  BY <1>19 DEF MinorPart
<1>24. DetachedInv'
  BY <1>11 DEF SafeInv, DetachedInv
<1>25. Moves(t, k, c)
  BY <1>1, <1>2, <1>18 DEF Moves, TypeInv, TypeOK
<1>26. k # "idle" /\ k \notin DropLabels
  BY <1>19 DEF DropLabels
<1> QED
  BY <1>1, <1>3, <1>14, <1>20, <1>21, <1>22, <1>23, <1>24, <1>25, <1>26, CallStep DEF PackageAt

LEMMA BindFailsNot ==
  ASSUME Recoverable, NEW t \in Threads
  PROVE  ~BindFails(t)
BY DEF BindFails, Fail, Recoverable

LEMMA UndoKeeps ==
  ASSUME TypeInv, SafeInv, Recoverable, NEW t \in Threads, Undo(t)
  PROVE  SafeInv'
<1> USE DEF mounted, disk, memory, mainVars, bounds, history
<1>1. PICK p, c : p = Package(t) /\ c = call[t]
  OBVIOUS
<1>2. PICK d : d = [c EXCEPT !.target = c.cur, !.ok = FALSE]
  OBVIOUS
<1>3. /\ pc[t] = "undo" /\ pc[t] \in InstallLabels /\ pc' = [pc EXCEPT ![t] = "activate"]
      /\ files' = files \ {c.target} /\ faults' = faults
      /\ UNCHANGED <<kernel, db, accepted, main, doomed>>
  BY <1>1 DEF Undo, InstallLabels, UnloadedLabels, Goto, Fail, Recoverable, kernel
<1>4. /\ c \in CallType /\ c.op = "install" /\ c.new \in Files /\ p \in Packages /\ c.new.pkg = p
      /\ c.cur \in Files /\ c.cur.pkg = p /\ c.cur.ver = accepted[p]
      /\ PackageAt(p, "undo", c) /\ pc[t] # "idle" /\ faults \in Nat
  BY <1>1, <1>3, InstallFacts
<1>5. /\ d.new = c.new /\ d.op = c.op /\ d.cur = c.cur /\ ~d.ok /\ d.minor = c.minor
      /\ d.target = c.cur /\ NewTarget(d) = NewTarget(c)
  BY <1>2, <1>4 DEF CallType, NewTarget
<1>6. call' = [call EXCEPT ![t] = d]
  BY <1>1, <1>2 DEF Undo
<1>7. /\ c.target = NewTarget(c) /\ NewTarget(c) # c.cur /\ c.minor >= 1 /\ Kept(p, c.cur)
      /\ PreVersion[p] <= accepted[p] /\ c.new.ver >= accepted[p]
      /\ \A f \in DataFiles(p) : f.ver <= accepted[p] \/ f = NewTarget(c)
  BY <1>4 DEF PackageAt, FilesPart, UnloadedLabels, NewIsActive
<1>8. NewTarget(c).pkg = p
  BY <1>4 DEF NewTarget, Target, Files
<1>9. /\ DataFiles(p)' = DataFiles(p) \ {NewTarget(c)}
      /\ \A q : q # p => DataFiles(q)' = DataFiles(q)
  BY <1>3, <1>7, <1>8 DEF DataFiles
<1>10. \A q : KernelSame(q) /\ DatabaseSame(q)
  BY <1>3, NothingMounted, DatabaseUnchanged DEF kernel
<1>11. detached' = detached
  BY <1>3 DEF kernel
<1>12. \A q \in Packages : q # p => Same(q)
  BY <1>3, <1>4, <1>9, <1>10, <1>11, SameIs DEF FilesSame
<1>13. ActiveSame(p) /\ TempSame(p)
  BY <1>3, <1>4, <1>10, <1>11
     DEF ActiveSame, TempSame, KernelSame, ActiveKernelSame, TempKernelSame, DatabaseSame
<1>14. ActivePart(p, "activate", d)'
  <2>1. Fallen(p)
    BY <1>4 DEF PackageAt, ActivePart
  <2> QED
    BY <1>13, <2>1, FallenFrame DEF ActivePart, BoundAt, TempLabels
<1>15. TempPart(p, "activate", d)'
  BY <1>4, <1>13, TempMoves DEF PackageAt, TempBusy, TempLabels
<1>16. MinorPart(p, "activate", d)'
  BY <1>4, <1>5, <1>13 DEF PackageAt, MinorPart, ActiveSame
<1>17. FilesPart(p, "activate", d)'
  <2>1. Kept(p, c.cur)'
    BY <1>7, <1>9 DEF Kept
  <2>2. \A f \in DataFiles(p)' : f.ver <= accepted'[p]
    BY <1>3, <1>7, <1>9
  <2>3. ~Linked("activate", d)
    BY <1>5 DEF Linked
  <2> QED
    BY <1>3, <1>4, <1>5, <1>7, <2>1, <2>2, <2>3 DEF FilesPart
<1>18. DetachedInv'
  BY <1>11 DEF SafeInv, DetachedInv
<1>19. Moves(t, "activate", d)
  BY <1>3, <1>6 DEF Moves
<1> QED
  BY <1>1, <1>4, <1>5, <1>12, <1>14, <1>15, <1>16, <1>17, <1>18, <1>19, CallStep
     DEF PackageAt, DropLabels

(* Power off: nothing is mounted, and no call is under way.                 *)
LEMMA PowerOffKeeps ==
  ASSUME PowerOff
  PROVE  SafeInv'
<1>1. main' = "off" /\ detached' = {} /\ \A t \in Threads : pc'[t] = "idle"
  BY DEF PowerOff
<1> QED
  BY <1>1 DEF SafeInv, TurnInv, DetachedInv, MountInv

-----------------------------------------------------------------------------
(* Steps of an install whose new APEX is active.                           *)

LEMMA AcceptFacts ==
  ASSUME NEW p \in Packages, NEW c, NEW l \in {"accept", "collect", "write"}, PackageAt(p, l, c)
  PROVE  /\ c.ok /\ c.target = NewTarget(c) /\ c.target \in DataFiles(p) /\ c.minor >= 1
         /\ NewTarget(c) # c.cur
         /\ \E e \in EntriesOf(p) : Stands(p, e, TRUE, TRUE) /\ e.image.file = c.target
BY DEF PackageAt, FilesPart, ActivePart, Linked, NewIsActive, BoundAt, UnloadedLabels

LEMMA AcceptKeeps ==
  ASSUME TypeInv, SafeInv, NEW t \in Threads, Accept(t)
  PROVE  SafeInv'
<1> USE DEF mounted, disk, memory, mainVars, bounds, history
<1>1. PICK p, c : p = Package(t) /\ c = call[t]
  OBVIOUS
<1>2. /\ pc[t] = "accept" /\ pc[t] \in InstallLabels /\ pc' = [pc EXCEPT ![t] = "collect"]
      /\ call' = call /\ files' \in {files, files \ {c.cur}}
      /\ UNCHANGED <<kernel, db, accepted, main, doomed>>
      /\ Fail("unlinkOld") \/ faults' = faults
  BY <1>1 DEF Accept, InstallLabels, UnloadedLabels, Goto, kernel
<1>3. /\ c \in CallType /\ c.op = "install" /\ c.new \in Files /\ p \in Packages /\ c.new.pkg = p
      /\ c.cur \in Files /\ c.cur.pkg = p /\ c.cur.ver = accepted[p]
      /\ PackageAt(p, "accept", c) /\ pc[t] # "idle" /\ faults \in Nat
  BY <1>1, <1>2, InstallFacts
<1>4. /\ c.ok /\ c.target = NewTarget(c) /\ c.target \in DataFiles(p) /\ c.minor >= 1
      /\ NewTarget(c) # c.cur
  BY <1>3, AcceptFacts
<1>5. PICK e \in EntriesOf(p) : Stands(p, e, TRUE, TRUE) /\ e.image.file = c.target
  BY <1>3, AcceptFacts
<1>6. faults' \in Nat /\ faults' >= faults
  BY <1>2, <1>3, FailIs
<1>7. /\ \A q : q # p => DataFiles(q)' = DataFiles(q)
      /\ DataFiles(p)' \subseteq DataFiles(p) /\ c.target \in DataFiles(p)'
  BY <1>2, <1>3, <1>4 DEF DataFiles
<1>8. \A q : KernelSame(q) /\ DatabaseSame(q)
  BY <1>2, NothingMounted, DatabaseUnchanged DEF kernel
<1>9. detached' = detached
  BY <1>2 DEF kernel
<1>10. \A q \in Packages : q # p => Same(q)
  BY <1>2, <1>3, <1>6, <1>7, <1>8, <1>9, SameIs DEF FilesSame
<1>11. ActiveSame(p) /\ TempSame(p)
  BY <1>3, <1>6, <1>8, <1>9
     DEF ActiveSame, TempSame, KernelSame, ActiveKernelSame, TempKernelSame, DatabaseSame
<1>12. ActivePart(p, "collect", c)'
  <2>1. Stands(p, e, TRUE, TRUE)'
    BY <1>5, <1>11, StandsFrame
  <2>2. e \in EntriesOf(p)'
    BY <2>1 DEF Stands, Permanent
  <2> QED
    BY <1>5, <2>1, <2>2 DEF ActivePart, NewIsActive
<1>13. TempPart(p, "collect", c)'
  BY <1>3, <1>11, TempMoves DEF PackageAt, TempBusy, TempLabels
<1>14. FilesPart(p, "collect", c)' /\ MinorPart(p, "collect", c)'
  <2>1. Linked("accept", c) /\ Linked("collect", c) /\ NewIsActive("collect", c)
    BY <1>4 DEF Linked, NewIsActive
  <2>2. /\ PreVersion[p] <= accepted[p] /\ c.new.ver >= accepted[p]
        /\ \A f \in DataFiles(p) : f.ver <= accepted[p] \/ f = NewTarget(c)
    BY <1>3, <2>1 DEF PackageAt, FilesPart
  <2>3. accepted' = accepted
    BY <1>2
  <2>4. FilesPart(p, "collect", c)'
    BY <1>3, <1>4, <1>7, <2>1, <2>2, <2>3 DEF FilesPart
  <2> QED
    BY <2>4 DEF MinorPart
<1>15. DetachedInv'
  BY <1>9 DEF SafeInv, DetachedInv
<1>16. Moves(t, "collect", c)
  BY <1>1, <1>2 DEF Moves, TypeInv, TypeOK
<1> QED
  BY <1>1, <1>3, <1>10, <1>12, <1>13, <1>14, <1>15, <1>16, CallStep DEF PackageAt, DropLabels

(* The list of the active APEXes: the new one stays active and on disk.     *)
LEMMA AcceptMoves ==
  ASSUME NEW p, NEW c, NEW l, NEW k, NEW d,
         (l = "collect" /\ k = "write") \/ (l = "write" /\ k = "reload"),
         FilesPart(p, l, c), FilesSame(p), c.ok,
         d.new = c.new, d.op = c.op, d.cur = c.cur, d.ok = c.ok, d.minor = c.minor,
         d.target = c.target
  PROVE  FilesPart(p, k, d)' /\ MinorPart(p, k, d)'
<1>1. /\ Linked(l, c) /\ Linked(k, d) /\ NewIsActive(k, d) /\ l \in UnloadedLabels
      /\ k \notin {"minor", "unload", "unmount", "forget", "unmountId", "link", "undo", "accept",
                   "activate", "mount", "add", "bind"}
      /\ NewTarget(d) = NewTarget(c)
  BY DEF Linked, NewIsActive, UnloadedLabels, NewTarget
<1>2. DataFiles(p)' = DataFiles(p) /\ accepted'[p] = accepted[p]
  BY DEF FilesSame
<1>3. FilesPart(p, k, d)'
  BY <1>1, <1>2 DEF FilesPart
<1>4. MinorPart(p, k, d)'
  BY <1>1 DEF MinorPart
<1> QED
  BY <1>3, <1>4

LEMMA CollectInfoKeeps ==
  ASSUME TypeInv, SafeInv, NEW t \in Threads, CollectInfo(t)
  PROVE  SafeInv'
<1> USE DEF mounted, disk, memory, mainVars, bounds, history
<1>1. PICK p, c : p = Package(t) /\ c = call[t]
  OBVIOUS
<1>2. PICK d : d = [c EXCEPT !.list = GetActivePackages]
  OBVIOUS
<1>3. /\ pc[t] = "collect" /\ pc[t] \in InstallLabels /\ pc' = [pc EXCEPT ![t] = "write"]
      /\ call' = [call EXCEPT ![t] = d]
      /\ UNCHANGED <<kernel, db, files, accepted, faults, main, doomed>>
  BY <1>1, <1>2 DEF CollectInfo, InstallLabels, UnloadedLabels, Goto, kernel
<1>4. /\ c \in CallType /\ c.op = "install" /\ c.new \in Files /\ p \in Packages /\ c.new.pkg = p
      /\ PackageAt(p, "collect", c) /\ pc[t] # "idle" /\ faults \in Nat
  BY <1>1, <1>3, InstallFacts
<1>5. /\ d.new = c.new /\ d.op = c.op /\ d.cur = c.cur /\ d.ok = c.ok /\ d.minor = c.minor
      /\ d.target = c.target /\ c.ok
  BY <1>2, <1>4, AcceptFacts DEF CallType
<1>6. /\ \A q : KernelSame(q) /\ FilesSame(q) /\ detached \subseteq detached'
      /\ \A q : DatabaseSame(q) => Same(q)
      /\ DetachedInv'
  BY <1>3, <1>4, QuietStep
<1>7. \A q : DatabaseSame(q) /\ Same(q)
  BY <1>3, <1>6, DatabaseUnchanged
<1>8. ActivePart(p, "write", d)'
  BY <1>4, <1>5, <1>6, <1>7, ActiveMoves DEF PackageAt, BoundAt, NewIsActive, Same
<1>9. TempPart(p, "write", d)'
  BY <1>4, <1>7, TempMoves DEF PackageAt, TempBusy, TempLabels, Same
<1>10. FilesPart(p, "write", d)' /\ MinorPart(p, "write", d)'
  BY <1>4, <1>5, <1>6, AcceptMoves DEF PackageAt
<1>11. Moves(t, "write", d)
  BY <1>3 DEF Moves
<1> QED
  BY <1>1, <1>4, <1>5, <1>6, <1>7, <1>8, <1>9, <1>10, <1>11, CallStep DEF PackageAt, DropLabels

LEMMA WriteInfoKeeps ==
  ASSUME TypeInv, SafeInv, NEW t \in Threads, WriteInfo(t)
  PROVE  SafeInv'
<1> USE DEF mounted, disk, memory, mainVars, bounds, history
<1>1. PICK p, c : p = Package(t) /\ c = call[t]
  OBVIOUS
<1>2. /\ pc[t] = "write" /\ pc[t] \in InstallLabels /\ pc' = [pc EXCEPT ![t] = "reload"]
      /\ call' = call /\ UNCHANGED <<kernel, db, files, accepted, main, doomed>>
      /\ Fail("write") \/ faults' = faults
  BY <1>1 DEF WriteInfo, InstallLabels, UnloadedLabels, Goto, kernel
<1>3. /\ c \in CallType /\ c.op = "install" /\ c.new \in Files /\ p \in Packages /\ c.new.pkg = p
      /\ PackageAt(p, "write", c) /\ pc[t] # "idle" /\ faults \in Nat
  BY <1>1, <1>2, InstallFacts
<1>0. c.ok
  BY <1>3, AcceptFacts
<1>4. /\ \A q : KernelSame(q) /\ FilesSame(q) /\ detached \subseteq detached'
      /\ \A q : DatabaseSame(q) => Same(q)
      /\ DetachedInv'
  BY <1>2, <1>3, FailIs, QuietStep
<1>5. \A q : DatabaseSame(q) /\ Same(q)
  BY <1>2, <1>4, DatabaseUnchanged
<1>6. ActivePart(p, "reload", c)'
  BY <1>0, <1>3, <1>4, <1>5, ActiveMoves DEF PackageAt, BoundAt, NewIsActive, Same
<1>7. TempPart(p, "reload", c)'
  BY <1>3, <1>5, TempMoves DEF PackageAt, TempBusy, TempLabels, Same
<1>8. FilesPart(p, "reload", c)' /\ MinorPart(p, "reload", c)'
  BY <1>0, <1>3, <1>4, AcceptMoves DEF PackageAt
<1>9. Moves(t, "reload", c)
  BY <1>1, <1>2 DEF Moves, TypeInv, TypeOK
<1> QED
  BY <1>1, <1>3, <1>4, <1>5, <1>6, <1>7, <1>8, <1>9, CallStep DEF PackageAt, DropLabels

(* What is active when the call returns, is accepted.                      *)
LEMMA ReloadKeeps ==
  ASSUME TypeInv, SafeInv, NEW t \in Threads, Reload(t)
  PROVE  SafeInv'
<1> USE DEF mounted, disk, memory, mainVars, bounds, history
<1>1. PICK p, c : p = Package(t) /\ c = call[t]
  OBVIOUS
<1>2. /\ pc[t] = "reload" /\ pc[t] \in InstallLabels /\ Return(t)
      /\ accepted' = [accepted EXCEPT ![p] = IF c.ok THEN c.new.ver ELSE @]
      /\ UNCHANGED <<kernel, db, files, main, doomed>>
      /\ Fail("load") \/ faults' = faults
  BY <1>1 DEF Reload, InstallLabels, UnloadedLabels, kernel
<1>3. /\ c \in CallType /\ c.op = "install" /\ c.new \in Files /\ p \in Packages /\ c.new.pkg = p
      /\ PackageAt(p, "reload", c) /\ pc[t] # "idle" /\ faults \in Nat
  BY <1>1, <1>2, InstallFacts
<1>0. faults' \in Nat /\ faults' >= faults
  BY <1>2, <1>3, FailIs
<1>4. /\ accepted'[p] = (IF c.ok THEN c.new.ver ELSE accepted[p])
      /\ \A q \in Packages : q # p => accepted'[q] = accepted[q]
      /\ accepted[p] \in Nat /\ c.new.ver \in Nat /\ PreVersion[p] \in Nat
  <2>1. accepted \in [Packages -> Versions] /\ Versions \subseteq Nat /\ PreVersion[p] \in Versions
    BY <1>3, VersionsAssumption DEF TypeInv, TypeOK
  <2>2. c.new.ver \in Versions
    BY <1>3, FileTypes
  <2> QED
    BY <1>2, <1>3, <2>1, <2>2
<1>5. PICK e \in EntriesOf(p) :
        /\ Stands(p, e, TRUE, TRUE)
        /\ IF NewIsActive("reload", c) THEN e.image.file = c.target
           ELSE /\ e.image.file.ver = accepted[p] /\ Kept(p, e.image.file)
                /\ c.op = "install" => e.image.file = c.cur
  BY <1>3 DEF PackageAt, ActivePart, BoundAt
<1>6. /\ PreVersion[p] <= accepted[p] /\ c.new.ver >= accepted[p]
      /\ \A f \in DataFiles(p) : f.ver <= accepted[p] \/ (c.ok /\ f = NewTarget(c))
      /\ c.ok => c.target = NewTarget(c) /\ c.target \in DataFiles(p)
  BY <1>3 DEF PackageAt, FilesPart, Linked
<1>7. NewTarget(c).ver = c.new.ver
  BY <1>3 DEF NewTarget, Target, Files
<1>8. \A q : DataFiles(q)' = DataFiles(q) /\ KernelSame(q) /\ DatabaseSame(q)
  BY <1>2, NothingMounted, DatabaseUnchanged DEF DataFiles, kernel
<1>9. detached' = detached
  BY <1>2 DEF kernel
<1>10. \A q \in Packages : q # p => Same(q)
  BY <1>0, <1>2, <1>3, <1>4, <1>8, <1>9, SameIs DEF FilesSame
<1>11. ActiveSame(p) /\ TempSame(p)
  BY <1>0, <1>2, <1>3, <1>8, <1>9
     DEF ActiveSame, TempSame, KernelSame, ActiveKernelSame, TempKernelSame, DatabaseSame
<1>12. ActivePart(p, "idle", NoCall)'
  <2>1. Stands(p, e, TRUE, TRUE)'
    BY <1>5, <1>11, StandsFrame
  <2>2. e \in EntriesOf(p)'
    BY <2>1 DEF Stands, Permanent
  <2>3. e.image.file.ver = accepted'[p] /\ Kept(p, e.image.file)'
    BY <1>4, <1>5, <1>6, <1>7, <1>8 DEF NewIsActive, Kept
  <2> QED
    BY <2>1, <2>2, <2>3, NoCallIs DEF ActivePart, NewIsActive
<1>13. TempPart(p, "idle", NoCall)'
  BY <1>3, <1>11, TempMoves DEF PackageAt, TempBusy, TempLabels
<1>14. FilesPart(p, "idle", NoCall)' /\ MinorPart(p, "idle", NoCall)'
  <2>1. PreVersion[p] <= accepted'[p]
    BY <1>4, <1>6
  <2>2. ASSUME NEW f \in DataFiles(p)' PROVE f.ver <= accepted'[p]
    <3>1. f.ver \in Nat /\ f \in DataFiles(p)
      <4>1. f \in DataFiles(p)
        BY <1>8
      <4>2. f \in Files
        BY <4>1 DEF DataFiles, TypeInv, TypeOK
      <4> QED
        BY <4>1, <4>2, FileTypes, VersionsAssumption
    <3> QED
      BY <1>4, <1>6, <1>7, <3>1
  <2> QED
    BY <2>1, <2>2, NoCallIs DEF FilesPart, MinorPart, Linked, UnloadedLabels
<1>15. DetachedInv'
  BY <1>9 DEF SafeInv, DetachedInv
<1> QED
  BY <1>1, <1>2, <1>3, <1>10, <1>12, <1>13, <1>14, <1>15, ReturnKeeps DEF PackageAt

-----------------------------------------------------------------------------
(* A call starts.                                                          *)

LEMMA CallStarts ==
  ASSUME TypeInv, SafeInv, NEW t \in Threads, pc[t] = "idle", NEW p \in Packages,
         main \in {"wait", "done"}, \A u \in Threads : ~Attends(u, p),
         NEW c, Moves(t, "tempMount", c), c.new \in Files, c.new.pkg = p, c.new.minor = -2,
         c.op \in {"install", "stage"},
         PackageAt(p, "tempMount", c)', DetachedInv', \A q \in Packages : q # p => Same(q)
  PROVE  SafeInv'
<1>2. /\ pc'[t] = "tempMount" /\ call'[t] = c /\ main' = main
      /\ \A u \in Threads : u # t => pc'[u] = pc[u] /\ call'[u] = call[u]
  BY DEF Moves, TypeInv, TypeOK
<1>3. /\ Package(t)' = p
      /\ \A u \in Threads : u # t => Package(u)' = Package(u)
  BY <1>2 DEF Package
<1>4. TurnInv'
  <2>1. ASSUME NEW u \in Threads, NEW v \in Threads, pc'[u] # "idle", pc'[v] # "idle",
               Package(u)' = Package(v)'
        PROVE  u = v
    <3>1. \A x \in Threads : x # t /\ pc'[x] # "idle" => Package(x)' # p
      BY <1>2, <1>3 DEF Attends
    <3>2. CASE u = t \/ v = t
      BY <1>3, <2>1, <3>1, <3>2
    <3>3. CASE u # t /\ v # t
      BY <1>2, <1>3, <2>1, <3>3 DEF SafeInv, TurnInv
    <3> QED
      BY <3>2, <3>3
  <2>2. ASSUME NEW u \in Threads, pc'[u] # "idle"
        PROVE  /\ main' \in {"wait", "done"} /\ call'[u].new.minor = -2
               /\ call'[u].op = "install" => pc'[u] \notin DropLabels
               /\ call'[u].op \in {"install", "stage"}
    <3>1. CASE u = t
      BY <1>2, <3>1 DEF DropLabels
    <3>2. CASE u # t
      BY <1>2, <2>2, <3>2 DEF SafeInv, TurnInv
    <3> QED
      BY <3>1, <3>2
  <2>3. main' # "unlink"
    BY <1>2
  <2> QED
    BY <2>1, <2>2, <2>3 DEF TurnInv
<1>5. PackageInv(p)'
  <2>1. Attends(t, p)'
    BY <1>2, <1>3 DEF Attends
  <2>2. ASSUME NEW u \in Threads, Attends(u, p)' PROVE PackageAt(p, pc[u], call[u])'
    <3>1. u = t
      BY <1>2, <1>3, <2>2 DEF Attends
    <3> QED
      BY <1>2, <3>1
  <2> QED
    BY <2>1, <2>2 DEF PackageInv
<1>6. ASSUME NEW q \in Packages, q # p
      PROVE  PackageInv(q)'
  <2>1. PackageInv(q) /\ Same(q)
    BY <1>6 DEF SafeInv, MountInv
  <2>2. \A u \in Threads : Attends(u, q)' <=> Attends(u, q)
    BY <1>2, <1>3, <1>6 DEF Attends
  <2>3. ASSUME NEW u \in Threads, Attends(u, q)' PROVE PackageAt(q, pc[u], call[u])'
    <3>1. Attends(u, q) /\ u # t /\ pc'[u] = pc[u] /\ call'[u] = call[u]
      BY <1>2, <1>3, <1>6, <2>2, <2>3 DEF Attends
    <3>2. PackageAt(q, pc[u], call[u])
      BY <2>1, <3>1 DEF PackageInv
    <3>3. call[u].new \in Files /\ call[u].new.pkg = q
      BY <3>1, CallFacts DEF Attends, Package
    <3>4. PICK k, d : k = pc[u] /\ d = call[u]
      OBVIOUS
    <3>5. PackageAt(q, k, d)'
      BY <2>1, <3>2, <3>3, <3>4, PackageFrame
    <3> QED
      BY <3>1, <3>4, <3>5
  <2>4. ASSUME \A u \in Threads : ~Attends(u, q)' PROVE PackageAt(q, "idle", NoCall)'
    <3>1. PackageAt(q, "idle", NoCall)
      BY <2>1, <2>2, <2>4 DEF PackageInv
    <3> QED
      BY <2>1, <3>1, PackageFrame
  <2> QED
    BY <2>3, <2>4 DEF PackageInv
<1>7. MountInv'
  <2>1. \A q \in Packages : PackageInv(q)'
    BY <1>5, <1>6
  <2> QED
    BY <2>1 DEF MountInv
<1> QED
  BY <1>4, <1>7 DEF SafeInv

LEMMA MayCallFacts ==
  ASSUME TypeInv, SafeInv, OneCallAPackage, NEW p \in Packages, MayCall(p)
  PROVE  /\ main # "off" /\ main \in {"wait", "done"} /\ \A u \in Threads : ~Attends(u, p)
         /\ PackageAt(p, "idle", NoCall)
<1>1. main # "off" /\ ~CleaningUp /\ \A u \in Threads : ~Attends(u, p)
  BY DEF MayCall, OneCallAPackage, Attends
<1>2. main \in {"wait", "done"}
  BY <1>1 DEF CleaningUp, TypeInv, TypeOK
<1>3. PackageAt(p, "idle", NoCall)
  BY <1>1 DEF SafeInv, MountInv, PackageInv
<1> QED
  BY <1>1, <1>2, <1>3

LEMMA InstallKeeps ==
  ASSUME TypeInv, SafeInv, OneCallAPackage, NEW t \in Threads, Install(t)
  PROVE  SafeInv'
<1> USE DEF mounted, disk, memory, mainVars, bounds, history
<1>1. PICK p \in Packages, v \in Versions, force \in Forces :
        /\ MayCall(p)
        /\ \E e \in GetLatestMountedApex(p) :
             /\ Exists(e.image.file)
             /\ v >= e.image.file.ver
             /\ call' = [call EXCEPT ![t] =
                  [NoCall EXCEPT !.op = "install", !.new = Upload(p, v), !.force = force,
                                 !.cur = e.image.file, !.ok = TRUE]]
  BY DEF Install
<1>2. PICK x \in GetLatestMountedApex(p) :
        /\ v >= x.image.file.ver
        /\ call' = [call EXCEPT ![t] =
             [NoCall EXCEPT !.op = "install", !.new = Upload(p, v), !.force = force,
                            !.cur = x.image.file, !.ok = TRUE]]
  BY <1>1
<1>3. /\ main # "off" /\ main \in {"wait", "done"} /\ \A u \in Threads : ~Attends(u, p)
      /\ PackageAt(p, "idle", NoCall)
  BY <1>1, MayCallFacts
<1>4. PICK d : d = [NoCall EXCEPT !.op = "install", !.new = Upload(p, v), !.force = force,
                                  !.cur = x.image.file, !.ok = TRUE]
  OBVIOUS
<1>5. /\ d.op = "install" /\ d.new = Upload(p, v) /\ d.cur = x.image.file /\ d.ok
      /\ call' = [call EXCEPT ![t] = d]
  BY <1>2, <1>4 DEF NoCall
<1>6. /\ pc[t] = "idle" /\ pc' = [pc EXCEPT ![t] = "tempMount"]
      /\ UNCHANGED <<kernel, db, files, accepted, faults, main, doomed>>
  BY DEF Install, Goto, kernel
<1>7. /\ d.new \in Files /\ d.new.pkg = p /\ d.new.minor = -2 /\ d.new.ver = v
  BY <1>5, PackageTypes DEF Upload
<1>8. PICK e \in EntriesOf(p) : /\ Stands(p, e, TRUE, TRUE)
                                /\ e.image.file.ver = accepted[p] /\ Kept(p, e.image.file)
  BY <1>3 DEF PackageAt, ActivePart, BoundAt, NewIsActive
<1>9. e \in Entries /\ Permanent(p) = {e} /\ e.image.file.pkg = p /\ e.image.file \in Files
  BY <1>8, EntryTypes DEF Stands
<1>10. x = e
  BY <1>9 DEF GetLatestMountedApex, Latest, GreatestOf, Permanent
<1>11. faults \in Nat
  BY DEF TypeInv, TypeOK
<1>12. /\ \A q : KernelSame(q) /\ FilesSame(q) /\ detached \subseteq detached'
       /\ \A q : DatabaseSame(q) => Same(q)
       /\ DetachedInv'
  BY <1>6, <1>11, QuietStep
<1>13. \A q : DatabaseSame(q) /\ Same(q)
  BY <1>6, <1>12, DatabaseUnchanged
<1>14. ActivePart(p, "tempMount", d)'
  <2>1. Stands(p, e, TRUE, TRUE)'
    BY <1>8, <1>13, StandsFrame DEF Same
  <2>2. e \in EntriesOf(p)'
    BY <2>1 DEF Stands, Permanent
  <2>3. e.image.file.ver = accepted'[p] /\ Kept(p, e.image.file)'
    BY <1>8, <1>12 DEF Kept, FilesSame
  <2> QED
    BY <1>5, <1>10, <2>1, <2>2, <2>3 DEF ActivePart, NewIsActive
<1>15. TempPart(p, "tempMount", d)'
  BY <1>3, <1>13, TempMoves DEF PackageAt, TempBusy, TempLabels, Same
<1>16. FilesPart(p, "tempMount", d)' /\ MinorPart(p, "tempMount", d)'
  <2>1. /\ PreVersion[p] <= accepted[p] /\ \A f \in DataFiles(p) : f.ver <= accepted[p]
    BY <1>3, NoCallIs DEF PackageAt, FilesPart
  <2>2. /\ DataFiles(p)' = DataFiles(p) /\ accepted'[p] = accepted[p]
        /\ Kept(p, d.cur)'
    BY <1>5, <1>8, <1>10, <1>12 DEF FilesSame, Kept
  <2>3. d.new.ver >= accepted[p]
    BY <1>2, <1>7, <1>8, <1>10
  <2> QED
    BY <1>5, <1>7, <1>8, <1>9, <1>10, <2>1, <2>2, <2>3
       DEF FilesPart, MinorPart, Linked, UnloadedLabels, NewIsActive
<1>17. Moves(t, "tempMount", d)
  BY <1>5, <1>6 DEF Moves
<1> QED
  BY <1>3, <1>5, <1>6, <1>7, <1>12, <1>13, <1>14, <1>15, <1>16, <1>17, CallStarts DEF PackageAt

LEMMA StageKeeps ==
  ASSUME TypeInv, SafeInv, OneCallAPackage, NEW t \in Threads, Stage(t)
  PROVE  SafeInv'
<1> USE DEF mounted, disk, memory, mainVars, bounds, history
<1>1. PICK p \in Packages, v \in Versions :
        /\ MayCall(p)
        /\ call' = [call EXCEPT ![t] =
             [NoCall EXCEPT !.op = "stage", !.new = Upload(p, v), !.ok = TRUE]]
  BY DEF Stage
<1>3. /\ main # "off" /\ main \in {"wait", "done"} /\ \A u \in Threads : ~Attends(u, p)
      /\ PackageAt(p, "idle", NoCall)
  BY <1>1, MayCallFacts
<1>4. PICK d : d = [NoCall EXCEPT !.op = "stage", !.new = Upload(p, v), !.ok = TRUE]
  OBVIOUS
<1>5. /\ d.op = "stage" /\ d.new = Upload(p, v) /\ d.ok /\ call' = [call EXCEPT ![t] = d]
  BY <1>1, <1>4 DEF NoCall
<1>6. /\ pc[t] = "idle" /\ pc' = [pc EXCEPT ![t] = "tempMount"]
      /\ UNCHANGED <<kernel, db, files, accepted, faults, main, doomed>>
  BY DEF Stage, Goto, kernel
<1>7. /\ d.new \in Files /\ d.new.pkg = p /\ d.new.minor = -2
  BY <1>5, PackageTypes DEF Upload
<1>11. faults \in Nat
  BY DEF TypeInv, TypeOK
<1>12. /\ \A q : KernelSame(q) /\ FilesSame(q) /\ detached \subseteq detached'
       /\ \A q : DatabaseSame(q) => Same(q)
       /\ DetachedInv'
  BY <1>6, <1>11, QuietStep
<1>13. \A q : DatabaseSame(q) /\ Same(q)
  BY <1>6, <1>12, DatabaseUnchanged
<1>14. ActivePart(p, "tempMount", d)'
  BY <1>3, <1>5, <1>12, <1>13, ActiveMoves DEF PackageAt, BoundAt, TempLabels, NewIsActive, Same
<1>15. TempPart(p, "tempMount", d)'
  BY <1>3, <1>13, TempMoves DEF PackageAt, TempBusy, TempLabels, Same
<1>16. FilesPart(p, "tempMount", d)' /\ MinorPart(p, "tempMount", d)'
  BY <1>3, <1>5, <1>12, FilesMoves DEF PackageAt, EarlyLabels, TempLabels
<1>17. Moves(t, "tempMount", d)
  BY <1>5, <1>6 DEF Moves
<1> QED
  BY <1>3, <1>5, <1>6, <1>7, <1>12, <1>13, <1>14, <1>15, <1>16, <1>17, CallStarts DEF PackageAt

-----------------------------------------------------------------------------
(* Steps of the device and of the main thread.                             *)

(* Of finitely many files one has the highest version.                      *)
LEMMA HighestExists ==
  ASSUME NEW S, IsFiniteSet(S), S # {}, \A f \in S : f.ver \in Nat
  PROVE  \E f \in S : \A g \in S : g.ver <= f.ver
<1> DEFINE Above(f) == {g \in S : g.ver > f.ver}
           T == {Above(f) : f \in S}
           R == StrictSubsetOrdering(S)
<1>1. T \subseteq SUBSET S /\ T # {}
  OBVIOUS
<1>2. IsWellFoundedOn(R, SUBSET S)
  BY FS_StrictSubsetOrderingWellFounded, FS_FiniteSubsetsOfFinite
<1>3. \E x \in T : \A y \in T : ~(<<y, x>> \in R)
  <2> HIDE DEF T, R
  <2> QED
    BY <1>1, <1>2, WFMin
<1>4. PICK f \in S : \A y \in T : ~(<<y, Above(f)>> \in R)
  BY <1>3
<1>5. ASSUME NEW g \in S, g.ver > f.ver
      PROVE  FALSE
  <2>1. f.ver \in Nat /\ g.ver \in Nat
    OBVIOUS
  <2>2. Above(g) \subseteq Above(f)
    BY <1>5, <2>1
  <2>3. g \in Above(f) /\ g \notin Above(g)
    BY <1>5, <2>1
  <2>4. Above(g) \in T /\ Above(g) \in SUBSET S /\ Above(f) \in SUBSET S
    OBVIOUS
  <2>5. Above(g) # Above(f)
    BY <2>3
  <2>6. <<Above(g), Above(f)>> \in R
    <3> HIDE DEF Above
    <3> QED
      BY <2>2, <2>4, <2>5 DEF StrictSubsetOrdering
  <2> HIDE DEF T, R, Above
  <2> QED
    BY <1>4, <2>4, <2>6
<1> QED
  BY <1>5

LEMMA CandidatesAre ==
  ASSUME NEW p \in Packages, files \subseteq Files, IsFiniteSet(files), NEW f \in Candidates(p)
  PROVE  /\ f \in Files /\ f.pkg = p /\ Kept(p, f) /\ PreVersion[p] <= f.ver
         /\ \A g \in DataFiles(p) : g.ver <= f.ver
<1> DEFINE highest == {x \in DataFiles(p) : \A g \in DataFiles(p) : g.ver <= x.ver}
<1>1. /\ BuiltIn(p) \in Files /\ BuiltIn(p).pkg = p /\ BuiltIn(p).ver = PreVersion[p]
      /\ PreVersion[p] \in Nat
  BY PackageTypes, VersionsAssumption DEF BuiltIn
<1>2. \A x \in DataFiles(p) : x \in Files /\ x.pkg = p /\ x.ver \in Nat
  BY FileTypes, VersionsAssumption DEF DataFiles
<1>3. CASE \E x \in highest : x.ver >= PreVersion[p]
  <2>1. f \in highest
    BY <1>3 DEF Candidates
  <2>2. PICK x \in highest : x.ver >= PreVersion[p]
    BY <1>3
  <2>3. x.ver <= f.ver /\ f \in DataFiles(p)
    BY <2>1, <2>2
  <2> QED
    BY <1>1, <1>2, <2>1, <2>2, <2>3 DEF Kept
<1>4. CASE ~\E x \in highest : x.ver >= PreVersion[p]
  <2>1. f = BuiltIn(p)
    BY <1>4 DEF Candidates
  <2>2. ASSUME NEW g \in DataFiles(p) PROVE g.ver <= f.ver
    <3>1. IsFiniteSet(DataFiles(p))
      BY FS_Subset DEF DataFiles
    <3>2. PICK x \in DataFiles(p) : \A y \in DataFiles(p) : y.ver <= x.ver
      BY <1>2, <2>2, <3>1, HighestExists
    <3>3. ~(x.ver >= PreVersion[p])
      BY <1>4, <3>2
    <3> QED
      BY <1>1, <1>2, <2>1, <2>2, <3>2, <3>3
  <2> QED
    BY <1>1, <2>1, <2>2 DEF Kept
<1> QED
  BY <1>3, <1>4

LEMMA BootKeeps ==
  ASSUME TypeInv, SafeInv, IsFiniteSet(files), Boot
  PROVE  SafeInv'
<1> USE DEF mounted, disk, memory, mainVars, bounds, history
<1>1. \A t \in Threads : pc[t] = "idle"
  BY DEF Boot, SafeInv, TurnInv
<1>2. main' = "wait" /\ UNCHANGED <<pc, call, detached, files, faults, doomed>>
  BY DEF Boot
<1>3. PICK chosen \in {g \in [Packages -> Files] : \A p \in Packages : g[p] \in Candidates(p)},
           loop \in [Packages -> Loops] :
        /\ mounts' = [pt \in Points |->
             IF pt \in {ActivePoint(pt.pkg), IdPoint(chosen[pt.pkg])}
             THEN <<BootImage(chosen[pt.pkg], loop[pt.pkg])>> ELSE <<>>]
        /\ db' = {[image |-> BootImage(chosen[p], loop[p]), point |-> IdPoint(chosen[p])] :
                    p \in Packages}
        /\ devices' = {[name |-> BootName(p), loop |-> loop[p], deferred |-> FALSE] :
                         p \in {q \in Packages : OnData(chosen[q])}}
        /\ accepted' = [p \in Packages |-> chosen[p].ver]
  <2>1. PICK chosen \in {g \in [Packages -> Files] : \A p \in Packages : g[p] \in Candidates(p)},
             loop \in [Packages -> Loops] :
       LET image == [p \in Packages |-> BootImage(chosen[p], loop[p])] IN
       /\ \A p, q \in Packages : loop[p] = loop[q] => p = q
       /\ \A p \in Packages, l \in Loops : l < loop[p] => \E q \in Packages : loop[q] = l
       /\ mounts' = [pt \in Points |->
            IF pt \in {ActivePoint(pt.pkg), IdPoint(chosen[pt.pkg])}
            THEN <<image[pt.pkg]>> ELSE <<>>]
       /\ db' = {[image |-> image[p], point |-> IdPoint(chosen[p])] : p \in Packages}
       /\ devices' = {[name |-> BootName(p), loop |-> loop[p], deferred |-> FALSE] :
                        p \in {q \in Packages : OnData(chosen[q])}}
       /\ info' = {chosen[p] : p \in Packages}
       /\ accepted' = [p \in Packages |-> chosen[p].ver]
    BY DEF Boot
  <2> DEFINE image == [p \in Packages |-> BootImage(chosen[p], loop[p])]
  <2>2. \A pt \in Points : image[pt.pkg] = BootImage(chosen[pt.pkg], loop[pt.pkg])
    BY PointTypes
  <2>3. mounts' = [pt \in Points |->
             IF pt \in {ActivePoint(pt.pkg), IdPoint(chosen[pt.pkg])}
             THEN <<BootImage(chosen[pt.pkg], loop[pt.pkg])>> ELSE <<>>]
    <3>1. mounts' = [pt \in Points |->
            IF pt \in {ActivePoint(pt.pkg), IdPoint(chosen[pt.pkg])}
            THEN <<image[pt.pkg]>> ELSE <<>>]
      BY <2>1
    <3> HIDE DEF image
    <3> QED
      BY <2>2, <3>1
  <2>4. db' = {[image |-> BootImage(chosen[p], loop[p]), point |-> IdPoint(chosen[p])] :
                    p \in Packages}
    BY <2>1
  <2> QED
    BY <2>1, <2>3, <2>4
<1>4. /\ \A p \in Packages : chosen[p] \in Files /\ chosen[p] \in Candidates(p) /\ loop[p] \in Loops
  BY <1>3
<1>5. files \subseteq Files
  BY DEF TypeInv, TypeOK
<1>6. ASSUME NEW p \in Packages
      PROVE  PackageAt(p, "idle", NoCall)'
  <2>1. /\ chosen[p].pkg = p /\ Kept(p, chosen[p]) /\ PreVersion[p] <= chosen[p].ver
        /\ \A g \in DataFiles(p) : g.ver <= chosen[p].ver
    BY <1>4, <1>5, CandidatesAre
  <2>2. PICK e : e = [image |-> BootImage(chosen[p], loop[p]), point |-> IdPoint(chosen[p])]
    OBVIOUS
  <2>3. /\ e.image.file = chosen[p] /\ e.image.loop = loop[p] /\ e.point = IdPoint(chosen[p])
        /\ e.image.dev = (IF OnData(chosen[p]) THEN BootName(p) ELSE NoName)
    BY <2>1, <2>2 DEF BootImage
  <2>4. e \in Entries
    <3>1. e.image \in Images
      <4>1. BootName(p) \in Names
        BY PackageTypes
      <4> QED
        BY <1>4, <2>1, <2>2, <4>1 DEF BootImage, Images
    <3> QED
      BY <1>4, <2>2, <3>1, FileTypes DEF Entries
  <2>5. ~IsTemp(e) /\ e.point.kind = "id" /\ e.point \in Points /\ e.point.pkg = p
    BY <1>4, <2>1, <2>3, PointFacts DEF IsTemp
  <2>6. EntriesOf(p)' = {e}
    <3>1. e \in db'
      BY <1>3, <2>2
    <3>2. ASSUME NEW x \in db', x.image.file.pkg = p PROVE x = e
      <4>1. PICK q \in Packages :
              x = [image |-> BootImage(chosen[q], loop[q]), point |-> IdPoint(chosen[q])]
        BY <1>3, <3>2
      <4>2. x.image.file = chosen[q]
        BY <4>1 DEF BootImage
      <4>3. chosen[q].pkg = q
        BY <1>4, <1>5, CandidatesAre
      <4> QED
        BY <2>2, <3>2, <4>1, <4>2, <4>3
    <3>3. e.image.file.pkg = p
      BY <2>1, <2>3
    <3> QED
      BY <3>1, <3>2, <3>3 DEF EntriesOf
  <2>7. Permanent(p)' = {e} /\ Temporary(p)' = {}
    BY <2>5, <2>6 DEF Permanent, Temporary, IsTemp
  <2>8. \A pt \in Points : pt.pkg = p =>
          mounts'[pt] = IF pt = e.point \/ pt = ActivePoint(p) THEN <<e.image>> ELSE <<>>
    <3> SUFFICES ASSUME NEW pt \in Points, pt.pkg = p
                 PROVE mounts'[pt] = IF pt = e.point \/ pt = ActivePoint(p) THEN <<e.image>> ELSE <<>>
      OBVIOUS
    <3>1. mounts'[pt] = IF pt \in {ActivePoint(pt.pkg), IdPoint(chosen[pt.pkg])}
                        THEN <<BootImage(chosen[pt.pkg], loop[pt.pkg])>> ELSE <<>>
      BY <1>3
    <3>2. e.image = BootImage(chosen[p], loop[p])
      BY <2>2
    <3> QED
      BY <2>3, <3>1, <3>2
  <2>9. /\ \A d \in devices' : d.name.pkg = p => /\ d.name = BootName(p) /\ ~d.deferred
                                                 /\ OnData(chosen[p]) /\ d.name.minor = 0
        /\ OnData(chosen[p]) => \E d \in devices' : d.name = BootName(p)
    <3>1. ASSUME NEW d \in devices', d.name.pkg = p
          PROVE  d.name = BootName(p) /\ ~d.deferred /\ OnData(chosen[p]) /\ d.name.minor = 0
      <4>1. PICK q \in Packages : OnData(chosen[q]) /\
              d = [name |-> BootName(q), loop |-> loop[q], deferred |-> FALSE]
        BY <1>3
      <4>2. q = p
        BY <3>1, <4>1 DEF BootName
      <4> QED
        BY <4>1, <4>2 DEF BootName
    <3>2. ASSUME OnData(chosen[p])
          PROVE  \E d \in devices' : d.name = BootName(p)
      <4>1. PICK d : d = [name |-> BootName(p), loop |-> loop[p], deferred |-> FALSE]
        OBVIOUS
      <4>2. d \in devices' /\ d.name = BootName(p)
        BY <1>3, <3>2, <4>1
      <4> QED
        BY <4>2
    <3> QED
      BY <3>1, <3>2
  <2>10. BootName(p).pkg = p /\ BootName(p).minor = 0 /\ BootName(p) # NoName
    BY PackageTypes, NameTypes DEF BootName
  <2>11. DevicesAre(p, e.image.dev)'
    BY <2>3, <2>9 DEF DevicesAre, ActiveDevices
  <2>12. e.image.dev # NoName => /\ e.image.dev.pkg = p /\ e.image.dev.minor >= 0
                                 /\ \E d \in ActiveDevices(p)' : d.name = e.image.dev
    BY <2>3, <2>9, <2>10 DEF ActiveDevices
  <2>13. Stands(p, e, TRUE, TRUE)'
    <3>1. \A pt \in Points : pt.pkg = p /\ pt.kind # "temp" =>
          mounts'[pt] = IF pt = e.point \/ (TRUE /\ pt = ActivePoint(p)) THEN <<e.image>> ELSE <<>>
      BY <2>8
    <3> QED
      BY <2>1, <2>3, <2>4, <2>7, <2>11, <2>12, <3>1 DEF Stands
  <2>14. accepted'[p] = chosen[p].ver /\ DataFiles(p)' = DataFiles(p)
    BY <1>2, <1>3 DEF DataFiles
  <2>15. ActivePart(p, "idle", NoCall)'
    <3>1. e \in EntriesOf(p)' /\ Kept(p, e.image.file)'
      BY <2>1, <2>3, <2>6, <2>14 DEF Kept
    <3> QED
      BY <2>3, <2>13, <2>14, <3>1, NoCallIs DEF ActivePart, NewIsActive
  <2>16. TempPart(p, "idle", NoCall)'
    <3>1. \A pt \in Points : pt.pkg = p /\ pt.kind = "temp" => mounts'[pt] = <<>>
      BY <2>5, <2>8, ActivePointFacts
    <3>2. TempDevices(p)' = {}
      BY <2>9 DEF TempDevices
    <3>3. ~TempMounted(p, "idle")'
      BY DEF TempMounted
    <3> QED
      BY <2>7, <3>1, <3>2, <3>3 DEF TempPart
  <2>17. FilesPart(p, "idle", NoCall)' /\ MinorPart(p, "idle", NoCall)'
    BY <2>1, <2>14, NoCallIs DEF FilesPart, MinorPart, Linked, UnloadedLabels
  <2> QED
    BY <2>15, <2>16, <2>17 DEF PackageAt
<1>7. TurnInv' /\ DetachedInv'
  BY <1>1, <1>2 DEF TurnInv, SafeInv, DetachedInv
<1>8. MountInv'
  <2>1. \A p \in Packages : PackageInv(p)'
    BY <1>1, <1>2, <1>6 DEF PackageInv, Attends
  <2> QED
    BY <2>1 DEF MountInv
<1> QED
  BY <1>7, <1>8 DEF SafeInv

LEMMA ReleaseStands ==
  ASSUME TypeInv, MountInv, main # "off", NEW q \in Packages, ReleaseDetached,
         NEW e, NEW known, NEW bound, Stands(q, e, known, bound)
  PROVE  Stands(q, e, known, bound)'
<1> USE DEF ReleaseDetached
<1>1. mounts' = mounts /\ db' = db /\ devices' = Settled(mounts, detached', devices)
  OBVIOUS
<1>2. \A d : d \in devices' <=> d \in devices /\ (d.deferred => Uses(mounts, detached', d.name))
  BY <1>1 DEF Settled
<1>3. ASSUME NEW d \in ActiveDevices(q)'
      PROVE  IF d.name = e.image.dev THEN ~d.deferred ELSE d.deferred /\ \E m \in detached' : m.dev = d.name
  <2>1. d \in ActiveDevices(q) /\ (d.deferred => Uses(mounts, detached', d.name)) /\ d.name # NoName
        /\ d.name.pkg = q /\ d.name.minor >= 0
    BY <1>2, DeviceTypes DEF ActiveDevices
  <2>2. IF d.name = e.image.dev THEN ~d.deferred ELSE d.deferred
    BY <2>1 DEF Stands, DevicesAre
  <2>3. ASSUME d.name # e.image.dev
        PROVE  \E m \in detached' : m.dev = d.name
    <3>1. \/ \E pt \in Points : \E i \in DOMAIN mounts[pt] : mounts[pt][i].dev = d.name
          \/ \E m \in detached' : m.dev = d.name
      BY <2>1, <2>2, <2>3, UsesIs
    <3>2. ASSUME NEW pt \in Points, NEW i \in DOMAIN mounts[pt], mounts[pt][i].dev = d.name
          PROVE  FALSE
      <4>1. pt.pkg = q /\ pt.kind # "temp"
        <5>1. /\ mounts[pt][i].dev.pkg = pt.pkg
              /\ IF pt.kind = "temp" THEN mounts[pt][i].dev.minor = -1 ELSE mounts[pt][i].dev.minor >= 0
          BY <2>1, <3>2, MountedDevices
        <5> QED
          BY <2>1, <3>2, <5>1
      <4>2. mounts[pt] = IF pt = e.point \/ (bound /\ pt = ActivePoint(q)) THEN <<e.image>> ELSE <<>>
        BY <4>1 DEF Stands
      <4>3. mounts[pt] = <<e.image>> /\ mounts[pt][i] = e.image
        BY <4>2
      <4> QED
        BY <2>3, <3>2, <4>3
    <3> QED
      BY <3>1, <3>2
  <2> QED
    BY <2>2, <2>3
<1>4. DevicesAre(q, e.image.dev)'
  BY <1>3 DEF DevicesAre
<1>5. e.image.dev # NoName => \E d \in ActiveDevices(q)' : d.name = e.image.dev
  <2>1. ASSUME NEW d \in ActiveDevices(q), d.name = e.image.dev PROVE d \in ActiveDevices(q)'
    BY <1>2, <2>1 DEF Stands, DevicesAre, ActiveDevices
  <2> QED
    BY <2>1 DEF Stands
<1>6. Permanent(q)' = Permanent(q)
  BY <1>1, DatabaseUnchanged DEF DatabaseSame
<1> QED
  BY <1>1, <1>4, <1>5, <1>6 DEF Stands

LEMMA ReleaseFallen ==
  ASSUME TypeInv, MountInv, main # "off", NEW q \in Packages, ReleaseDetached, Fallen(q)
  PROVE  Fallen(q)'
<1> USE DEF ReleaseDetached
<1>1. mounts' = mounts /\ db' = db /\ devices' = Settled(mounts, detached', devices)
  OBVIOUS
<1>2. ASSUME NEW d \in ActiveDevices(q)'
      PROVE  d.name # NoName /\ d.deferred /\ \E m \in detached' : m.dev = d.name
  <2>1. d \in ActiveDevices(q) /\ (d.deferred => Uses(mounts, detached', d.name)) /\ d.name # NoName
        /\ d.name.pkg = q /\ d.name.minor >= 0
    BY <1>1, DeviceTypes DEF ActiveDevices, Settled
  <2>2. d.deferred
    BY <2>1 DEF Fallen, DevicesAre
  <2>3. \/ \E pt \in Points : \E i \in DOMAIN mounts[pt] : mounts[pt][i].dev = d.name
        \/ \E m \in detached' : m.dev = d.name
    BY <2>1, <2>2, UsesIs
  <2>4. ASSUME NEW pt \in Points, NEW i \in DOMAIN mounts[pt], mounts[pt][i].dev = d.name
        PROVE  FALSE
    <3>1. /\ mounts[pt][i].dev.pkg = pt.pkg
          /\ IF pt.kind = "temp" THEN mounts[pt][i].dev.minor = -1 ELSE mounts[pt][i].dev.minor >= 0
      BY <2>1, <2>4, MountedDevices
    <3>2. pt.pkg = q /\ pt.kind # "temp"
      BY <2>1, <2>4, <3>1
    <3> QED
      BY <2>4, <3>2 DEF Fallen
  <2> QED
    BY <2>1, <2>2, <2>3, <2>4
<1>3. DevicesAre(q, NoName)'
  BY <1>2 DEF DevicesAre
<1>4. Permanent(q)' = Permanent(q)
  BY <1>1, DatabaseUnchanged DEF DatabaseSame
<1> QED
  BY <1>1, <1>3, <1>4 DEF Fallen

LEMMA ReleasePackage ==
  ASSUME TypeInv, MountInv, main # "off", NEW q \in Packages, ReleaseDetached,
         FilesSame(q), faults' = faults, faults \in Nat, NEW l, NEW c, PackageAt(q, l, c),
         l # "idle" => c.new \in Files /\ c.new.pkg = q
  PROVE  PackageAt(q, l, c)'
<1>1. mounts' = mounts /\ db' = db /\ devices' = Settled(mounts, detached', devices)
  BY DEF ReleaseDetached
<1>2. ASSUME l \in BoundAt
      PROVE  \E e \in EntriesOf(q)' :
               /\ Stands(q, e, TRUE, TRUE)'
               /\ IF NewIsActive(l, c) THEN e.image.file = c.target
                  ELSE /\ e.image.file.ver = accepted'[q] /\ Kept(q, e.image.file)'
                       /\ c.op = "install" => e.image.file = c.cur
  <2>1. PICK e \in EntriesOf(q) :
          /\ Stands(q, e, TRUE, TRUE)
          /\ IF NewIsActive(l, c) THEN e.image.file = c.target
             ELSE /\ e.image.file.ver = accepted[q] /\ Kept(q, e.image.file)
                  /\ c.op = "install" => e.image.file = c.cur
    BY <1>2 DEF PackageAt, ActivePart
  <2>2. Stands(q, e, TRUE, TRUE)'
    BY <2>1, ReleaseStands
  <2>3. e \in EntriesOf(q)'
    BY <2>2 DEF Stands, Permanent
  <2>4. Kept(q, e.image.file) => Kept(q, e.image.file)'
    BY DEF Kept, FilesSame
  <2> QED
    BY <2>1, <2>2, <2>3, <2>4 DEF FilesSame
<1>3. \A e, known, bound : Stands(q, e, known, bound) => Stands(q, e, known, bound)'
  BY ReleaseStands
<1>4. Fallen(q) => Fallen(q)'
  BY ReleaseFallen
<1>5. ActivePart(q, l, c)'
  BY <1>2, <1>3, <1>4 DEF PackageAt, ActivePart
<1>6. TempPart(q, l, c)'
  <2>1. TempDevices(q)' = TempDevices(q)
    <3>1. \A d \in TempDevices(q) : ~d.deferred
      BY DEF PackageAt, TempPart
    <3> QED
      BY <1>1, <3>1 DEF Settled, TempDevices
  <2>2. TempSame(q)
    BY <1>1, <2>1, DatabaseUnchanged DEF TempSame, DatabaseSame
  <2> QED
    BY <2>2, TempFrame DEF PackageAt
<1>7. FilesPart(q, l, c)'
  BY FilesFrame DEF PackageAt
<1>8. MinorPart(q, l, c)'
  <2>1. ActiveDevices(q)' \subseteq ActiveDevices(q)
    BY <1>1 DEF Settled, ActiveDevices
  <2> QED
    BY <2>1 DEF PackageAt, MinorPart
<1> QED
  BY <1>5, <1>6, <1>7, <1>8 DEF PackageAt

LEMMA ReleaseKeeps ==
  ASSUME TypeInv, SafeInv, Release
  PROVE  SafeInv'
<1> USE DEF mounted, disk, memory, mainVars, bounds, history
<1>1. /\ ReleaseDetached
      /\ UNCHANGED <<files, accepted, pc, call, main, doomed, faults, db>>
  BY DEF Release, ReleaseDetached
<1>2. detached' \subseteq detached /\ faults \in Nat
  BY <1>1 DEF ReleaseDetached, TypeInv, TypeOK
<1>3. TurnInv' /\ DetachedInv'
  BY <1>1, <1>2 DEF SafeInv, TurnInv, DetachedInv, Package, IsMounted, IsTemp
<1>4. ASSUME main # "off", NEW q \in Packages
      PROVE  PackageInv(q)'
  <2>0. MountInv /\ PackageInv(q) /\ FilesSame(q)
    BY <1>1, <1>4 DEF SafeInv, MountInv, FilesSame, DataFiles
  <2>1. \A u \in Threads : Attends(u, q)' <=> Attends(u, q)
    BY <1>1 DEF Attends, Package
  <2>2. ASSUME NEW u \in Threads, Attends(u, q)' PROVE PackageAt(q, pc[u], call[u])'
    <3>1. Attends(u, q) /\ pc'[u] = pc[u] /\ call'[u] = call[u]
      BY <1>1, <2>1, <2>2
    <3>2. PackageAt(q, pc[u], call[u])
      BY <2>0, <3>1 DEF PackageInv
    <3>3. call[u].new \in Files /\ call[u].new.pkg = q
      BY <3>1, CallFacts DEF Attends, Package
    <3>4. PICK k, d : k = pc[u] /\ d = call[u]
      OBVIOUS
    <3>5. PackageAt(q, k, d)'
      BY <1>1, <1>2, <1>4, <2>0, <3>2, <3>3, <3>4, ReleasePackage
    <3> QED
      BY <3>1, <3>4, <3>5
  <2>3. ASSUME \A u \in Threads : ~Attends(u, q)' PROVE PackageAt(q, "idle", NoCall)'
    <3>1. PackageAt(q, "idle", NoCall)
      BY <2>0, <2>1, <2>3 DEF PackageInv
    <3> QED
      BY <1>1, <1>2, <1>4, <2>0, <3>1, ReleasePackage
  <2> QED
    BY <2>2, <2>3 DEF PackageInv
<1>5. MountInv'
  <2>1. main' = main
    BY <1>1
  <2> QED
    BY <1>4, <2>1 DEF MountInv
<1> QED
  BY <1>3, <1>5 DEF SafeInv

(* While the main thread removes files, no call is under way.               *)
LEMMA IdleKeeps ==
  ASSUME TypeInv, SafeInv, Idle, main # "off", UNCHANGED <<pc, call>>,
         UNCHANGED <<kernel, db, accepted>>, faults' \in Nat, faults' >= faults,
         files' \subseteq files, \A f \in files \ files' : ~IsMounted(f),
         main' = "unlink" => doomed' \in Files /\ ~IsMounted(doomed')
  PROVE  SafeInv'
<1>1. \A t \in Threads : pc'[t] = "idle"
  BY DEF Idle
<1>2. TurnInv'
  <2>1. ~IsMounted(doomed') => ~IsMounted(doomed)'
    BY DEF IsMounted, IsTemp
  <2> QED
    BY <1>1, <2>1 DEF TurnInv
<1>3. DetachedInv'
  BY DEF SafeInv, DetachedInv, kernel
<1>4. ASSUME NEW q \in Packages
      PROVE  PackageAt(q, "idle", NoCall)'
  <2>1. PackageAt(q, "idle", NoCall)
    BY DEF SafeInv, MountInv, PackageInv, Attends, Idle
  <2>2. KernelSame(q) /\ DatabaseSame(q) /\ detached' = detached /\ faults \in Nat
    BY NothingMounted, DatabaseUnchanged DEF kernel, TypeInv, TypeOK
  <2>3. ActiveSame(q) /\ TempSame(q)
    BY <2>2 DEF ActiveSame, TempSame, KernelSame, ActiveKernelSame, TempKernelSame, DatabaseSame
  <2>4. PICK e \in EntriesOf(q) : /\ Stands(q, e, TRUE, TRUE)
                                  /\ e.image.file.ver = accepted[q] /\ Kept(q, e.image.file)
    BY <2>1 DEF PackageAt, ActivePart, BoundAt, NewIsActive
  <2>5. Stands(q, e, TRUE, TRUE)'
    BY <2>3, <2>4, StandsFrame
  <2>6. e \in EntriesOf(q)'
    BY <2>5 DEF Stands, Permanent
  <2>7. IsMounted(e.image.file)
    <3>1. e \in db /\ ~IsTemp(e)
      BY <2>4 DEF Stands, Permanent, EntriesOf
    <3> QED
      BY <3>1 DEF IsMounted
  <2>8. Kept(q, e.image.file)'
    BY <2>4, <2>7 DEF Kept, DataFiles
  <2>9. ActivePart(q, "idle", NoCall)'
    BY <2>4, <2>5, <2>6, <2>8, NoCallIs DEF ActivePart, NewIsActive
  <2>10. TempPart(q, "idle", NoCall)'
    BY <2>1, <2>3, TempMoves DEF PackageAt, TempBusy, TempLabels
  <2>11. FilesPart(q, "idle", NoCall)' /\ MinorPart(q, "idle", NoCall)'
    <3>1. /\ PreVersion[q] <= accepted[q] /\ \A f \in DataFiles(q) : f.ver <= accepted[q]
      BY <2>1, NoCallIs DEF PackageAt, FilesPart
    <3>2. DataFiles(q)' \subseteq DataFiles(q)
      BY DEF DataFiles
    <3> QED
      BY <3>1, <3>2, NoCallIs DEF FilesPart, MinorPart, Linked, UnloadedLabels
  <2> QED
    BY <2>9, <2>10, <2>11 DEF PackageAt
<1>5. MountInv'
  <2>1. \A q \in Packages : PackageInv(q)'
    BY <1>1, <1>4 DEF PackageInv, Attends
  <2> QED
    BY <2>1 DEF MountInv
<1> QED
  BY <1>2, <1>3, <1>5 DEF SafeInv

LEMMA CleanUpKeeps ==
  ASSUME TypeInv, SafeInv, OneCallAPackage, CleanUp
  PROVE  SafeInv'
<1> USE DEF mounted, disk, memory, mainVars, bounds, history, kernel
<1>1. Idle /\ main # "off" /\ faults \in Nat
  <2>1. main \in {"wait", "scan", "unlink"} /\ (main = "wait" => MayCleanUp)
    BY DEF CleanUp, ScanFiles, CheckFile, UnlinkInactive, CleanedUp
  <2>2. main # "wait" => Idle
    BY <2>1 DEF SafeInv, TurnInv, Idle
  <2>3. main = "wait" => Idle
    BY <2>1 DEF MayCleanUp, OneCallAPackage
  <2> QED
    BY <2>1, <2>2, <2>3 DEF TypeInv, TypeOK
<1>2. CASE ScanFiles
  BY <1>1, <1>2, IdleKeeps DEF ScanFiles
<1>3. CASE CheckFile
  <2>1. PICK f \in todo : IF IsMounted(f) THEN UNCHANGED <<main, doomed>>
                          ELSE main' = "unlink" /\ doomed' = f
    BY <1>3 DEF CheckFile
  <2>2. UNCHANGED <<pc, call, mounts, detached, devices, db, accepted, files, faults>> /\ main = "scan"
    BY <1>3 DEF CheckFile
  <2>3. f \in Files
    BY DEF TypeInv, TypeOK
  <2> QED
    BY <1>1, <2>1, <2>2, <2>3, IdleKeeps
<1>4. CASE UnlinkInactive
  <2>1. /\ UNCHANGED <<pc, call, mounts, detached, devices, db, accepted>> /\ main = "unlink"
        /\ main' = "scan" /\ files' \in {files, files \ {doomed}}
        /\ Fail("unlinkInactive") \/ faults' = faults
    BY <1>4 DEF UnlinkInactive
  <2>2. faults' \in Nat /\ faults' >= faults
    BY <1>1, <2>1, FailIs
  <2>3. ~IsMounted(doomed)
    BY <2>1 DEF SafeInv, TurnInv
  <2> QED
    BY <1>1, <2>1, <2>2, <2>3, IdleKeeps
<1>5. CASE CleanedUp
  BY <1>1, <1>5, IdleKeeps DEF CleanedUp
<1> QED
  BY <1>2, <1>3, <1>4, <1>5 DEF CleanUp

-----------------------------------------------------------------------------
(* The invariant.                                                          *)

LEMMA TempMountsKeep ==
  ASSUME TypeInv, SafeInv, NEW t \in Threads, TempMounts(t)
  PROVE  SafeInv'
<1>1. AddAborts(t) => SafeInv'
  BY PowerOffKeeps DEF AddAborts, Abort
<1> QED
  BY <1>1, TempMountKeeps, TempMountFailsKeeps, TempAddKeeps, UnmountTempKeeps, TempRemoveKeeps,
     DropFindKeeps, DropRemoveKeeps DEF TempMounts

LEMMA UnloadKeeps ==
  ASSUME TypeInv, SafeInv, Recoverable, NEW t \in Threads, Unload(t)
  PROVE  SafeInv'
BY ComputePackageIdMinorKeeps, UnloadApexFromInitKeeps, UnmountActiveKeeps,
   UnmountActiveFailsKeeps, ForgetKeeps, UnmountIdKeeps, UnmountIdFailsNot DEF Unload

LEMMA ActivateNewKeeps ==
  ASSUME TypeInv, SafeInv, Recoverable, NEW t \in Threads, ActivateNew(t)
  PROVE  SafeInv'
<1>1. BindAborts(t) => SafeInv'
  BY PowerOffKeeps DEF BindAborts, Abort
<1> QED
  BY <1>1, LinkKeeps, ActivateKeeps, MountKeeps, MountFailsKeeps, AddKeeps, BindKeeps,
     BindFailsNot, UndoKeeps DEF ActivateNew

LEMMA FinishKeeps ==
  ASSUME TypeInv, SafeInv, NEW t \in Threads, Finish(t)
  PROVE  SafeInv'
BY AcceptKeeps, CollectInfoKeeps, WriteInfoKeeps, ReloadKeeps DEF Finish

LEMMA ServeKeeps ==
  ASSUME TypeInv, SafeInv, Recoverable, NEW t \in Threads, Serve(t)
  PROVE  SafeInv'
BY TempMountsKeep, UnloadKeeps, ActivateNewKeeps, FinishKeeps DEF Serve

LEMMA SafeInit == Init => SafeInv
BY DEF Init, SafeInv, TurnInv, DetachedInv, MountInv

LEMMA SafeStutter == SafeInv /\ UNCHANGED vars => SafeInv'
<1> SUFFICES ASSUME SafeInv, UNCHANGED vars PROVE SafeInv'
  OBVIOUS
<1>1. UNCHANGED <<mounts, detached, devices, db, files, accepted, pc, call, main, doomed, faults>>
  BY DEF vars, mounted, disk, memory, mainVars, bounds, history
<1>2. TurnInv'
  BY <1>1 DEF SafeInv, TurnInv, Package, IsMounted, IsTemp
<1>3. DetachedInv'
  BY <1>1 DEF SafeInv, DetachedInv
<1>4. \A q \in Packages : \A l, c : PackageAt(q, l, c) => PackageAt(q, l, c)'
  <2> SUFFICES ASSUME NEW q \in Packages, NEW l, NEW c, PackageAt(q, l, c)
               PROVE  PackageAt(q, l, c)'
    OBVIOUS
  <2>1. /\ EntriesOf(q)' = EntriesOf(q) /\ DataFiles(q)' = DataFiles(q)
        /\ ActiveDevices(q)' = ActiveDevices(q) /\ TempDevices(q)' = TempDevices(q)
    BY <1>1 DEF EntriesOf, DataFiles, ActiveDevices, TempDevices
  <2>2. Permanent(q)' = Permanent(q) /\ Temporary(q)' = Temporary(q)
    BY <2>1 DEF Permanent, Temporary, IsTemp
  <2>3. ActiveSame(q)
    BY <1>1, <2>1, <2>2 DEF ActiveSame
  <2>4. FilesSame(q)
    BY <1>1, <2>1 DEF FilesSame
  <2>5. ActivePart(q, l, c)' /\ FilesPart(q, l, c)'
    BY <2>3, <2>4, ActiveFrame, FilesFrame DEF PackageAt
  <2>6. TempPart(q, l, c)'
    BY <1>1, <2>1, <2>2 DEF PackageAt, TempPart, TempMounted, Top
  <2>7. MinorPart(q, l, c)'
    BY <2>1 DEF PackageAt, MinorPart
  <2> QED
    BY <2>5, <2>6, <2>7 DEF PackageAt
<1>5. MountInv'
  <2>1. \A q \in Packages, u \in Threads : Attends(u, q)' <=> Attends(u, q)
    BY <1>1 DEF Attends, Package
  <2>2. ASSUME main # "off", NEW q \in Packages PROVE PackageInv(q)'
    <3>1. PackageInv(q)
      BY <2>2 DEF SafeInv, MountInv
    <3>2. ASSUME NEW u \in Threads, Attends(u, q)' PROVE PackageAt(q, pc[u], call[u])'
      <4>1. PICK k, d : k = pc[u] /\ d = call[u]
        OBVIOUS
      <4>2. PackageAt(q, k, d)'
        BY <1>4, <2>1, <3>1, <3>2, <4>1 DEF PackageInv
      <4>3. pc'[u] = k /\ call'[u] = d
        BY <1>1, <4>1
      <4> QED
        BY <4>2, <4>3
    <3>3. ASSUME \A u \in Threads : ~Attends(u, q)' PROVE PackageAt(q, "idle", NoCall)'
      BY <1>4, <2>1, <3>1, <3>3 DEF PackageInv
    <3> QED
      BY <3>2, <3>3 DEF PackageInv
  <2> QED
    BY <1>1, <2>2 DEF MountInv
<1> QED
  BY <1>2, <1>3, <1>5 DEF SafeInv

LEMMA SafeNext ==
  ASSUME OneCallAPackage, Recoverable, TypeInv, SafeInv, IsFiniteSet(files), [Next]_vars
  PROVE  SafeInv'
<1>1. CASE Boot \/ Release \/ CleanUp
  BY <1>1, BootKeeps, ReleaseKeeps, CleanUpKeeps
<1>2. CASE PowerLoss
  BY <1>2, PowerOffKeeps DEF PowerLoss
<1>3. ASSUME NEW t \in Threads, Install(t) \/ Stage(t) \/ Serve(t)
      PROVE  SafeInv'
  BY <1>3, InstallKeeps, StageKeeps, ServeKeeps
<1>4. CASE UNCHANGED vars
  BY <1>4, SafeStutter
<1> QED
  BY <1>1, <1>2, <1>3, <1>4 DEF Next

(* The directory gains one file at a time.                                 *)
LEMMA FilesChange == [Next]_vars => \E f : files' \subseteq files \cup {f}
<1> USE DEF mounted, disk, memory, mainVars, bounds, history
<1> SUFFICES ASSUME [Next]_vars PROVE \E f : files' \subseteq files \cup {f}
  OBVIOUS
<1>1. CASE Boot \/ PowerLoss \/ Release
  BY <1>1 DEF Boot, PowerLoss, Release
<1>2. CASE CleanUp
  <2>1. files' \subseteq files
    BY <1>2 DEF CleanUp, ScanFiles, CheckFile, UnlinkInactive, CleanedUp
  <2> QED
    BY <2>1
<1>3. ASSUME NEW t \in Threads, Install(t) \/ Stage(t) \/ TempMounts(t) \/ Unload(t)
      PROVE  files' = files
  <2>1. Install(t) \/ Stage(t) => files' = files
    BY DEF Install, Stage
  <2>2. TempMounts(t) => files' = files
    BY DEF TempMounts, TempMount, TempMountFails, TempAdd, AddAborts, Abort, UnmountTemp, TempRemove,
           DropFind, DropRemove
  <2>3. Unload(t) => files' = files
    BY DEF Unload, ComputePackageIdMinor, UnloadApexFromInit, UnmountActive, UnmountActiveFails,
           Forget, UnmountId, UnmountIdFails
  <2> QED
    BY <1>3, <2>1, <2>2, <2>3
<1>4. ASSUME NEW t \in Threads, ActivateNew(t)
      PROVE  \E f : files' \subseteq files \cup {f}
  <2>1. CASE Link(t)
    <3>1. PICK f : f = Target(call[t].new, call[t].minor)
      OBVIOUS
    <3>2. files' = files \/ files' = files \cup {f}
      BY <2>1, <3>1 DEF Link
    <3> QED
      BY <3>2
  <2>2. CASE Undo(t)
    <3>1. files' \subseteq files
      BY <2>2 DEF Undo
    <3> QED
      BY <3>1
  <2>3. CASE ~Link(t) /\ ~Undo(t)
    <3>1. files' = files
      BY <1>4, <2>3 DEF ActivateNew, Activate, Mount, MountFails, Add, Bind, BindFails, BindAborts, Abort
    <3> QED
      BY <3>1
  <2> QED
    BY <2>1, <2>2, <2>3
<1>5. ASSUME NEW t \in Threads, Finish(t)
      PROVE  files' \subseteq files
  BY <1>5 DEF Finish, Accept, CollectInfo, WriteInfo, Reload
<1>6. CASE UNCHANGED vars
  BY <1>6 DEF vars
<1> QED
  BY <1>1, <1>2, <1>3, <1>4, <1>5, <1>6 DEF Next, Serve

LEMMA FiniteNext == IsFiniteSet(files) /\ [Next]_vars => IsFiniteSet(files)'
<1> SUFFICES ASSUME IsFiniteSet(files), [Next]_vars PROVE IsFiniteSet(files')
  OBVIOUS
<1>1. PICK f : files' \subseteq files \cup {f}
  BY FilesChange
<1>2. IsFiniteSet(files \cup {f})
  BY FS_AddElement
<1> QED
  BY <1>1, <1>2, FS_Subset

AllInv == TypeInv /\ SafeInv /\ IsFiniteSet(files)

LEMMA Invariant ==
  ASSUME OneCallAPackage, Recoverable
  PROVE  Spec => []AllInv
<1>1. Init => AllInv
  BY TypeInit, SafeInit, ParametersAssumption DEF AllInv, Init
<1>2. AllInv /\ [Next]_vars => AllInv'
  BY TypeNext, SafeNext, FiniteNext DEF AllInv
<1> QED
  BY <1>1, <1>2, PTL DEF Spec

-----------------------------------------------------------------------------
(* What the invariant says when no call is under way.                       *)

LEMMA QuietFacts ==
  ASSUME AllInv, Quiet, NEW p \in Packages
  PROVE  /\ PackageAt(p, "idle", NoCall)
         /\ \E e \in EntriesOf(p) : /\ Stands(p, e, TRUE, TRUE) /\ EntriesOf(p) = {e}
                                    /\ e.image.file.ver = accepted[p]
         /\ Temporary(p) = {}
<1>1. PackageAt(p, "idle", NoCall)
  BY DEF AllInv, SafeInv, MountInv, PackageInv, Attends, Quiet, Idle
<1>2. PICK e \in EntriesOf(p) : Stands(p, e, TRUE, TRUE) /\ e.image.file.ver = accepted[p]
  BY <1>1 DEF PackageAt, ActivePart, BoundAt, NewIsActive
<1>3. Temporary(p) = {}
  BY <1>1 DEF PackageAt, TempPart
<1>4. EntriesOf(p) = Permanent(p) \cup Temporary(p)
  BY DEF Permanent, Temporary
<1> QED
  BY <1>1, <1>2, <1>3, <1>4 DEF Stands

LEMMA ShownIs ==
  ASSUME NEW p \in Packages, NEW e, NEW known, Stands(p, e, known, TRUE)
  PROVE  Shown(p) = e.image.file
<1>1. ActivePoint(p) \in Points /\ ActivePoint(p).pkg = p /\ ActivePoint(p).kind # "temp"
  BY PackageTypes DEF ActivePoint
<1>2. mounts[ActivePoint(p)] = <<e.image>>
  BY <1>1 DEF Stands
<1> QED
  BY <1>2 DEF Shown, Top

(* DatabaseMatchesKernel: once InstallPackage and SubmitStagedSession have  *)
(* returned, gMountedApexes has one entry for each package, and the kernel  *)
(* has mounted what it says, at /apex/name@ver and /apex/name.             *)
THEOREM DatabaseAgrees ==
  ASSUME OneCallAPackage, Recoverable
  PROVE  Spec => []DatabaseMatchesKernel
<1>1. AllInv => DatabaseMatchesKernel
  <2> SUFFICES ASSUME AllInv, Quiet, NEW p \in Packages
               PROVE  \E e \in EntriesOf(p) :
                        /\ EntriesOf(p) = {e} /\ e.point = IdPoint(e.image.file)
                        /\ \A pt \in Points : pt.pkg = p =>
                             \/ mounts[pt] = IF pt \in {ActivePoint(p), e.point}
                                             THEN <<e.image>> ELSE <<>>
                             \/ pt.kind = "temp" /\ faults > 0
    BY DEF DatabaseMatchesKernel
  <2>1. PICK e \in EntriesOf(p) : Stands(p, e, TRUE, TRUE) /\ EntriesOf(p) = {e}
    BY QuietFacts
  <2>2. TempPart(p, "idle", NoCall)
    BY QuietFacts DEF PackageAt
  <2>3. e.point = IdPoint(e.image.file) /\ e.point.kind = "id" /\ ActivePoint(p).kind = "active"
    BY <2>1 DEF Stands, IdPoint, ActivePoint
  <2>4. ASSUME NEW pt \in Points, pt.pkg = p
        PROVE  \/ mounts[pt] = IF pt \in {ActivePoint(p), e.point} THEN <<e.image>> ELSE <<>>
               \/ pt.kind = "temp" /\ faults > 0
    <3>1. CASE pt.kind # "temp"
      BY <2>1, <2>4, <3>1 DEF Stands
    <3>2. CASE pt.kind = "temp" /\ mounts[pt] # <<>>
      <4>1. ~TempMounted(p, "idle")
        BY DEF TempMounted
      <4> QED
        BY <2>2, <2>4, <3>2, <4>1 DEF TempPart
    <3>3. CASE pt.kind = "temp" /\ mounts[pt] = <<>>
      BY <2>3, <3>3
    <3> QED
      BY <3>1, <3>2, <3>3
  <2> QED
    BY <2>1, <2>3, <2>4
<1> QED
  BY <1>1, Invariant, PTL

(* NoDeviceLeaks: when no call is under way, DeleteDmDevice and deferred    *)
(* removal have left no dm-verity device that no mount needs.              *)
THEOREM NoDeviceIsLeftOver ==
  ASSUME OneCallAPackage, Recoverable
  PROVE  Spec => []NoDeviceLeaks
<1>1. AllInv => NoDeviceLeaks
  <2> SUFFICES ASSUME AllInv, Quiet, detached = {}, NEW d \in devices
               PROVE  \/ Busy(d.name) /\ ~d.deferred
                      \/ d.name.minor = -1 /\ faults > 0
    BY DEF NoDeviceLeaks
  <2>1. PICK p \in Packages : p = d.name.pkg
    BY DeviceTypes, NameTypes DEF AllInv, TypeInv, TypeOK, MountedTypeOK
  <2>2. d.name.minor >= 0 \/ d.name.minor = -1
    BY DeviceTypes, NameTypes, VersionsAssumption DEF AllInv, TypeInv, TypeOK, MountedTypeOK
  <2>3. PICK e \in EntriesOf(p) : Stands(p, e, TRUE, TRUE)
    BY QuietFacts
  <2>4. CASE d.name.minor >= 0
    <3>1. d.name = e.image.dev /\ ~d.deferred
      BY <2>1, <2>3, <2>4 DEF Stands, DevicesAre, ActiveDevices
    <3>2. e.point \in Points /\ mounts[e.point] = <<e.image>>
      <4>1. e.point \in Points /\ e.point.pkg = p /\ e.point.kind # "temp"
        BY <2>3 DEF Stands, Entries, IdPoint
      <4> QED
        BY <2>3, <4>1 DEF Stands
    <3>3. 1 \in DOMAIN mounts[e.point] /\ mounts[e.point][1].dev = d.name
      BY <3>1, <3>2
    <3>4. Busy(d.name)
      BY <3>2, <3>3, UsesIs DEF Busy
    <3> QED
      BY <3>1, <3>4
  <2>5. CASE d.name.minor = -1
    <3>1. d \in TempDevices(p)
      BY <2>1, <2>5 DEF TempDevices
    <3>2. TempPart(p, "idle", NoCall)
      BY QuietFacts DEF PackageAt
    <3>3. ~TempMounted(p, "idle")
      BY DEF TempMounted
    <3> QED
      BY <2>5, <3>1, <3>2, <3>3 DEF TempPart
  <2> QED
    BY <2>2, <2>4, <2>5
<1> QED
  BY <1>1, Invariant, PTL

(* AcceptedIsActive: what installAndActivatePackage last answered success   *)
(* for, or the last boot activated, is what /apex/name shows.              *)
THEOREM AcceptedStaysActive ==
  ASSUME OneCallAPackage, Recoverable
  PROVE  Spec => []AcceptedIsActive
<1>1. AllInv => AcceptedIsActive
  <2> SUFFICES ASSUME AllInv, Quiet, NEW p \in Packages
               PROVE  Shown(p) # NoFile /\ Shown(p).ver = accepted[p]
    BY DEF AcceptedIsActive
  <2>1. PICK e \in EntriesOf(p) : Stands(p, e, TRUE, TRUE) /\ e.image.file.ver = accepted[p]
    BY QuietFacts
  <2>2. Shown(p) = e.image.file
    BY <2>1, ShownIs
  <2>3. e.image.file \in Files
    BY <2>1 DEF Stands, Entries, Images
  <2> QED
    BY <2>1, <2>2, <2>3, NoneAssumption DEF NoFile
<1> QED
  BY <1>1, Invariant, PTL

-----------------------------------------------------------------------------
(* What the next boot takes.                                                *)

(* No file of the package is above what was accepted, but for the one that  *)
(* is being installed.                                                      *)
LEMMA CandidateBelow ==
  ASSUME TypeInv, IsFiniteSet(files), NEW p \in Packages, NEW f \in Candidates(p),
         NEW l, NEW c, FilesPart(p, l, c)
  PROVE  \/ f.ver <= accepted[p]
         \/ c.ok /\ (Linked(l, c) \/ l = "undo") /\ f = NewTarget(c)
<1>1. PreVersion[p] <= accepted[p]
  BY DEF FilesPart
<1>2. Kept(p, f)
  BY CandidatesAre DEF TypeInv, TypeOK
<1>3. CASE f \in DataFiles(p)
  BY <1>3 DEF FilesPart
<1>4. CASE f = BuiltIn(p)
  BY <1>1, <1>4 DEF BuiltIn
<1> QED
  BY <1>2, <1>3, <1>4 DEF Kept

(* The next boot's choice is at least what a kept file offers.              *)
LEMMA CandidateAbove ==
  ASSUME TypeInv, IsFiniteSet(files), NEW p \in Packages, NEW f \in Candidates(p),
         NEW g, Kept(p, g)
  PROVE  g.ver <= f.ver
<1>1. PreVersion[p] <= f.ver /\ \A h \in DataFiles(p) : h.ver <= f.ver
  BY CandidatesAre DEF TypeInv, TypeOK
<1>2. BuiltIn(p).ver = PreVersion[p]
  BY DEF BuiltIn
<1> QED
  BY <1>1, <1>2 DEF Kept

LEMMA CandidateTypes ==
  ASSUME TypeInv, IsFiniteSet(files), NEW p \in Packages, NEW f \in Candidates(p)
  PROVE  f.ver \in Nat /\ accepted[p] \in Nat
<1>1. f \in Files /\ accepted[p] \in Versions
  BY CandidatesAre DEF TypeInv, TypeOK
<1> QED
  BY <1>1, FileTypes, VersionsAssumption

(* BootTakesWhatWasInstalled: whenever power is lost, AddDataApex and       *)
(* SelectApexForActivation choose the version accepted last, or the one of *)
(* an InstallPackage that has gone past UnloadApexFromInit.                *)
THEOREM NextBootTakesIt ==
  ASSUME OneCallAPackage, Recoverable
  PROVE  Spec => []BootTakesWhatWasInstalled
<1>1. AllInv => BootTakesWhatWasInstalled
  <2> SUFFICES ASSUME AllInv, main # "off", NEW p \in Packages, NEW f \in Candidates(p)
               PROVE  \/ f.ver = accepted[p]
                      \/ \E t \in Threads : pc[t] \in UnloadedLabels /\ Package(t) = p
                                            /\ f.ver = call[t].new.ver
    BY DEF BootTakesWhatWasInstalled
  <2>1. TypeInv /\ SafeInv /\ IsFiniteSet(files) /\ PackageInv(p)
    BY DEF AllInv, SafeInv, MountInv
  <2>2. f.ver \in Nat /\ accepted[p] \in Nat
    BY <2>1, CandidateTypes
  <2>3. CASE \A t \in Threads : ~Attends(t, p)
    <3>1. PackageAt(p, "idle", NoCall)
      BY <2>1, <2>3 DEF PackageInv
    <3>2. PICK e \in EntriesOf(p) : e.image.file.ver = accepted[p] /\ Kept(p, e.image.file)
      BY <3>1 DEF PackageAt, ActivePart, BoundAt, NewIsActive
    <3>3. accepted[p] <= f.ver
      BY <2>1, <3>2, CandidateAbove
    <3>4. f.ver <= accepted[p]
      <4>1. FilesPart(p, "idle", NoCall) /\ ~NoCall.ok
        BY <3>1 DEF PackageAt, NoCall
      <4> QED
        BY <2>1, <4>1, CandidateBelow
    <3> QED
      BY <2>2, <3>3, <3>4
  <2>4. CASE \E t \in Threads : Attends(t, p)
    <3>1. PICK t \in Threads : Attends(t, p)
      BY <2>4
    <3>2. PICK l, c : l = pc[t] /\ c = call[t]
      OBVIOUS
    <3>3. /\ Package(t) = p /\ PackageAt(p, l, c) /\ c \in CallType /\ KnownAt(l, c)
          /\ c.new \in Files /\ l \in Labels /\ l # "idle" /\ c.op \in {"install", "stage"}
      BY <2>1, <3>1, <3>2, CallFacts DEF Attends
    <3>4. FilesPart(p, l, c)
      BY <3>3 DEF PackageAt
    <3>5. NewTarget(c).ver = c.new.ver
      BY <3>3, FileTypes DEF NewTarget, Target, Files
    <3>6. CASE f.ver = c.new.ver /\ l \in UnloadedLabels
      BY <3>2, <3>3, <3>6
    <3>7. CASE f.ver <= accepted[p] /\ ~(f.ver = c.new.ver /\ l \in UnloadedLabels)
      <4>1. CASE c.op = "stage"
        <5>1. l \in TempLabels
          BY <3>3, <4>1 DEF KnownAt, InstallLabels, Labels
        <5>2. PICK e \in EntriesOf(p) : e.image.file.ver = accepted[p] /\ Kept(p, e.image.file)
          BY <3>3, <5>1 DEF PackageAt, ActivePart, BoundAt, NewIsActive, TempLabels
        <5>3. accepted[p] <= f.ver
          BY <2>1, <5>2, CandidateAbove
        <5> QED
          BY <2>2, <3>7, <5>3
      <4>2. CASE c.op = "install" /\ Kept(p, c.cur)
        <5>1. c.cur.ver = accepted[p]
          BY <3>4, <4>2 DEF FilesPart
        <5>2. accepted[p] <= f.ver
          BY <2>1, <4>2, <5>1, CandidateAbove
        <5> QED
          BY <2>2, <3>7, <5>2
      <4>3. CASE c.op = "install" /\ ~Kept(p, c.cur)
        <5>1. NewIsActive(l, c) /\ l # "accept" /\ c.new.ver >= accepted[p]
          BY <3>4, <4>3 DEF FilesPart
        <5>2. l \in UnloadedLabels /\ Linked(l, c)
          BY <3>4, <5>1 DEF NewIsActive, UnloadedLabels, Linked, FilesPart
        <5>3. c.target = NewTarget(c) /\ c.target \in DataFiles(p)
          BY <3>4, <5>2 DEF FilesPart
        <5>4. Kept(p, NewTarget(c))
          BY <5>3 DEF Kept
        <5>5. c.new.ver <= f.ver /\ c.new.ver \in Nat
          BY <2>1, <3>3, <3>5, <5>4, CandidateAbove, FileTypes, VersionsAssumption
        <5> QED
          BY <2>2, <3>7, <5>1, <5>5
      <4> QED
        BY <3>3, <4>1, <4>2, <4>3
    <3>8. CASE ~(f.ver <= accepted[p])
      <4>1. (Linked(l, c) \/ l = "undo") /\ f = NewTarget(c)
        BY <2>1, <3>4, <3>8, CandidateBelow
      <4>2. l \in UnloadedLabels
        BY <4>1 DEF Linked, UnloadedLabels
      <4> QED
        BY <3>5, <3>6, <4>1, <4>2
    <3> QED
      BY <3>6, <3>7, <3>8
  <2> QED
    BY <2>3, <2>4
<1> QED
  BY <1>1, Invariant, PTL

(* LinkedIsPickedUp: from the link in /data/apex/active on, and as long as  *)
(* the guard has not put the old APEX back, a boot picks the new one up.   *)
THEOREM BootPicksUpLinked ==
  ASSUME OneCallAPackage, Recoverable
  PROVE  Spec => []LinkedIsPickedUp
<1>1. AllInv => LinkedIsPickedUp
  <2> SUFFICES ASSUME AllInv, NEW t \in Threads,
                      pc[t] \in {"activate", "mount", "add", "bind", "accept", "collect", "write"},
                      ~Undoing(t), NEW f \in Candidates(Package(t))
               PROVE  f.ver = call[t].target.ver
    BY DEF LinkedIsPickedUp
  <2>1. PICK p, l, c : p = Package(t) /\ l = pc[t] /\ c = call[t]
    OBVIOUS
  <2>2. TypeInv /\ SafeInv /\ IsFiniteSet(files)
    BY DEF AllInv
  <2>3. /\ p \in Packages /\ PackageAt(p, l, c) /\ c \in CallType /\ KnownAt(l, c)
        /\ c.new \in Files /\ f \in Candidates(p)
    BY <2>1, <2>2, CallFacts
  <2>4. FilesPart(p, l, c)
    BY <2>3 DEF PackageAt
  <2>5. c.ok
    <3>1. CASE l \in ActivateLabels4
      BY <2>1, <2>2, <3>1, ActivateFacts
    <3>2. CASE l \in {"accept", "collect", "write"}
      BY <2>3, <3>2, AcceptFacts
    <3> QED
      BY <2>1, <3>1, <3>2 DEF ActivateLabels4
  <2>6. c.target = NewTarget(c) /\ c.target \in DataFiles(p)
    BY <2>1, <2>4, <2>5 DEF FilesPart, Linked
  <2>7. c.new.ver >= accepted[p]
    BY <2>1, <2>3, <2>4 DEF FilesPart, KnownAt, InstallLabels, UnloadedLabels
  <2>8. NewTarget(c).ver = c.new.ver /\ c.new.ver \in Nat
    BY <2>3, FileTypes, VersionsAssumption DEF NewTarget, Target, Files
  <2>9. c.target.ver <= f.ver
    BY <2>2, <2>3, <2>6, CandidateAbove DEF Kept
  <2>10. f.ver <= accepted[p] \/ f = NewTarget(c)
    BY <2>2, <2>3, <2>4, CandidateBelow
  <2>11. f.ver \in Nat /\ accepted[p] \in Nat
    BY <2>2, <2>3, CandidateTypes
  <2>12. f.ver = c.target.ver
    BY <2>6, <2>7, <2>8, <2>9, <2>10, <2>11
  <2> QED
    BY <2>1, <2>12
<1> QED
  BY <1>1, Invariant, PTL

(* InstallKeepsOrReplaces: when InstallPackage returns after it took the    *)
(* active APEX out of use, /apex/name shows the new APEX if it answers      *)
(* success and the old one otherwise, and its file is there.               *)
THEOREM InstallEndsWell ==
  ASSUME OneCallAPackage, Recoverable
  PROVE  Spec => InstallKeepsOrReplaces
<1>1. AllInv /\ [Next]_vars => [\A t \in Threads : Reload(t) => KeepsOrReplaces(t)]_vars
  <2> SUFFICES ASSUME AllInv, NEW t \in Threads, Reload(t)
               PROVE  KeepsOrReplaces(t)
    OBVIOUS
  <2>1. PICK p, l, c : p = Package(t) /\ l = pc[t] /\ c = call[t]
    OBVIOUS
  <2>2. l = "reload"
    BY <2>1 DEF Reload
  <2>3. /\ p \in Packages /\ PackageAt(p, l, c) /\ c \in CallType /\ KnownAt(l, c)
        /\ c.new \in Files /\ c.new.pkg = p
    BY <2>1, <2>2, CallFacts DEF AllInv
  <2>4. c.op = "install" /\ c.ok \in BOOLEAN
    BY <2>2, <2>3 DEF KnownAt, InstallLabels, UnloadedLabels, CallType
  <2>5. PICK e \in EntriesOf(p) :
          /\ Stands(p, e, TRUE, TRUE)
          /\ IF c.ok THEN e.image.file = c.target ELSE e.image.file = c.cur
    BY <2>2, <2>3, <2>4 DEF PackageAt, ActivePart, BoundAt, NewIsActive
  <2>6. Shown(p) = IF c.ok THEN c.target ELSE c.cur
    BY <2>3, <2>5, ShownIs
  <2>7. FilesPart(p, l, c)
    BY <2>3 DEF PackageAt
  <2>8. ASSUME c.ok
        PROVE  Exists(c.target)
    <3>1. c.target \in DataFiles(p)
      BY <2>2, <2>7, <2>8 DEF FilesPart, Linked
    <3> QED
      BY <3>1 DEF DataFiles, Exists
  <2>9. ASSUME ~c.ok
        PROVE  Exists(c.cur)
    <3>1. Kept(p, c.cur)
      BY <2>2, <2>4, <2>7, <2>9 DEF FilesPart, NewIsActive
    <3> QED
      BY <3>1 DEF Kept, DataFiles, Exists, OnData, BuiltIn
  <2>10. PICK f : f = Shown(p)
    OBVIOUS
  <2>11. c.ok => f = c.target /\ Exists(f)
    BY <2>6, <2>8, <2>10
  <2>12. ~c.ok => f = c.cur /\ Exists(f)
    BY <2>6, <2>9, <2>10
  <2>13. /\ Shown(p) = IF c.ok THEN c.target ELSE c.cur
         /\ Exists(Shown(p))
    BY <2>6, <2>10, <2>11, <2>12
  <2> QED
    BY <2>1, <2>3, <2>13 DEF KeepsOrReplaces
<1> QED
  BY <1>1, Invariant, PTL DEF Spec, InstallKeepsOrReplaces
=============================================================================
