----------------------- MODULE RebootlessInstall_proofs -----------------------
(* What holds of RebootlessInstall for every value of its constants.        *)
EXTENDS RebootlessInstall, SequenceTheorems, TLAPS

(* TypeOK is not inductive: what a call has found or mounted is known at    *)
(* the labels that use it.                                                 *)
InstallLabels == {"minor", "unload"} \cup UnloadedLabels
WithEntry == {"tempAdd", "tempUnmount", "dropRemove", "dropUnmount", "forget", "unmountId", "add"}
WithTarget == {"activate", "mount", "add", "bind"}
KnownAt(label, c) ==
  /\ label # "idle" => c.new \in Files
  /\ label # "idle" /\ c.op = "install" => c.cur \in Files
  /\ label \in InstallLabels => c.op = "install"
  /\ label \in WithEntry => c.entry \in Entries
  /\ label \in WithTarget => c.target \in Files
  /\ c.minor \in 0 .. MaxMinor
TypeInv == TypeOK /\ \A t \in Threads : KnownAt(pc[t], call[t])

(* The variables that are not about mounts or calls.                        *)
OtherTypes ==
  /\ files \subseteq {f \in Files : OnData(f)}
  /\ info \subseteq Files
  /\ loaded \subseteq Packages
  /\ main \in {"off", "wait", "scan", "unlink", "done"}
  /\ todo \subseteq Files /\ doomed \in Files \cup {NoFile}
  /\ calls \in Nat /\ reboots \in Nat /\ faults \in Nat
  /\ accepted \in [Packages -> Versions]
  /\ aborted \in BOOLEAN
  /\ refused \subseteq Packages

-----------------------------------------------------------------------------
(* The operators on files, names, mount points and mounts.                 *)

LEMMA FileTypes ==
  ASSUME NEW f \in Files
  PROVE  /\ f.pkg \in Packages /\ f.ver \in Versions /\ f.minor \in -2 .. MaxMinor
         /\ IdPoint(f) \in Points /\ TempPoint(f) \in Points /\ ActivePoint(f.pkg) \in Points
         /\ TempName(f) \in Names
         /\ \A m \in 0 .. MaxMinor : IdName(f, m) \in Names /\ IdName(f, m + 1) \in Names
         /\ \A m \in 0 .. MaxMinor : Target(f, m) \in Files /\ OnData(Target(f, m))
BY VersionsAssumption DEF Files, Points, IdPoint, TempPoint, ActivePoint, TempName, IdName, Names,
   Target, OnData

LEMMA PackageTypes ==
  ASSUME NEW p \in Packages
  PROVE  /\ BuiltIn(p) \in Files /\ ActivePoint(p) \in Points /\ BootName(p) \in Names
         /\ \A v \in Versions : Upload(p, v) \in Files
BY VersionsAssumption DEF BuiltIn, Files, ActivePoint, Points, BootName, Names, Upload

LEMMA NoneIsNothing == None \notin Files /\ None \notin Names /\ None \notin Entries
BY NoneAssumption

LEMMA EntryTypes ==
  ASSUME NEW e \in Entries
  PROVE  e.image \in Images /\ e.point \in Points /\ e.image.file \in Files
         /\ e.image.dev \in Names \cup {NoName} /\ e.image.loop \in Loops
BY DEF Entries, Images

(* Taking the mount on top away leaves a sequence of images.                *)
LEMMA UnderType ==
  ASSUME MountedTypeOK, NEW pt \in Points
  PROVE  /\ Under(pt) \in [Points -> Seq(Images)]
         /\ mounts[pt] # <<>> => Popped(pt) \in [Points -> Seq(Images)] /\ Top(pt) \in Images
<1>1. mounts[pt] \in Seq(Images)
  BY DEF MountedTypeOK
<1>2. CASE mounts[pt] = <<>>
  BY <1>2 DEF Under, MountedTypeOK
<1>3. CASE mounts[pt] # <<>>
  <2>1. Len(mounts[pt]) \in Nat /\ Len(mounts[pt]) >= 1
    BY <1>1, <1>3, EmptySeq, LenProperties
  <2>2. SubSeq(mounts[pt], 1, Len(mounts[pt]) - 1) \in Seq(Images)
    BY <1>1, <2>1, SubSeqProperties
  <2>3. Top(pt) \in Images
    BY <1>1, <2>1, ElementOfSeq DEF Top
  <2> QED
    BY <1>3, <2>2, <2>3 DEF Under, Popped, MountedTypeOK
<1> QED
  BY <1>2, <1>3

(* What an operator on the kernel leaves has the type of the kernel.        *)
KernelTypeOK ==
  /\ mounts \in [Points -> Seq(Images)]
  /\ detached \subseteq Images
  /\ devices \subseteq [name : Names, loop : Loops, deferred : BOOLEAN]

LEMMA SettledType ==
  ASSUME NEW ms, NEW det, NEW ds
  PROVE  Settled(ms, det, ds) \subseteq ds
BY DEF Settled

LEMMA UmountType ==
  ASSUME MountedTypeOK, NEW pt \in Points, NEW detach \in BOOLEAN, Umount(pt, detach)
  PROVE  KernelTypeOK'
<1>1. mounts' \in [Points -> Seq(Images)] /\ Top(pt) \in Images
  BY UnderType DEF Umount
<1>2. detached' \subseteq Images
  BY <1>1 DEF Umount, MountedTypeOK
<1>3. devices' \subseteq devices
  BY SettledType DEF Umount
<1> QED
  BY <1>1, <1>2, <1>3 DEF KernelTypeOK, MountedTypeOK

LEMMA MountType ==
  ASSUME MountedTypeOK, NEW image \in Images, NEW pt \in Points, MountPackageImpl(image, pt)
  PROVE  KernelTypeOK'
<1>1. mounts' \in [Points -> Seq(Images)]
  BY DEF MountPackageImpl, MountedTypeOK
<1>2. devices' \subseteq [name : Names, loop : Loops, deferred : BOOLEAN]
  <2>1. CASE image.dev = NoName
    BY <2>1 DEF MountPackageImpl, MountedTypeOK
  <2>2. CASE image.dev # NoName
    <3>1. [name |-> image.dev, loop |-> image.loop, deferred |-> FALSE]
            \in [name : Names, loop : Loops, deferred : BOOLEAN]
      BY <2>2 DEF Images
    <3> QED
      BY <2>2, <3>1 DEF MountPackageImpl, MountedTypeOK
  <2> QED
    BY <2>1, <2>2
<1>3. detached' \subseteq Images
  BY DEF MountPackageImpl, MountedTypeOK
<1> QED
  BY <1>1, <1>2, <1>3 DEF KernelTypeOK

LEMMA MountFailsType ==
  ASSUME MountedTypeOK, NEW name, MountPackageFails(name)
  PROVE  KernelTypeOK'
BY DEF MountPackageFails, KernelTypeOK, MountedTypeOK

LEMMA UnmountType ==
  ASSUME MountedTypeOK, NEW e \in Entries,
         (\E deferred \in BOOLEAN : Unmount(e, deferred)) \/ UnmountFails(e)
  PROVE  KernelTypeOK'
<1>1. mounts' \in [Points -> Seq(Images)]
  BY UnderType, EntryTypes DEF Unmount, UnmountFails, MountedTypeOK
<1>2. devices' \subseteq [name : Names, loop : Loops, deferred : BOOLEAN]
  <2>1. CASE \E deferred \in BOOLEAN : Unmount(e, deferred)
    <3>1. {IF d.name = e.image.dev THEN [d EXCEPT !.deferred = TRUE] ELSE d : d \in devices}
            \subseteq [name : Names, loop : Loops, deferred : BOOLEAN]
      BY DEF MountedTypeOK
    <3> QED
      BY <2>1, <3>1, SettledType DEF Unmount
  <2>2. CASE UnmountFails(e)
    BY <2>2, SettledType DEF UnmountFails, MountedTypeOK
  <2> QED
    BY <2>1, <2>2
<1> QED
  BY <1>1, <1>2 DEF Unmount, UnmountFails, KernelTypeOK, MountedTypeOK

LEMMA BindMountType ==
  ASSUME MountedTypeOK, NEW f \in Files,
         (\E covering \in BOOLEAN : BindMount(f, covering)) \/ BindMountFails(f)
  PROVE  KernelTypeOK'
<1>1. ActivePoint(f.pkg) \in Points /\ IdPoint(f) \in Points
  BY FileTypes
<1>2. mounts' \in [Points -> Seq(Images)]
  <2>1. CASE \E covering \in BOOLEAN : BindMount(f, covering)
    <3>1. PICK covering \in BOOLEAN : BindMount(f, covering)
      BY <2>1
    <3> DEFINE base == IF covering THEN mounts ELSE Under(ActivePoint(f.pkg))
    <3>2. base \in [Points -> Seq(Images)]
      BY <1>1, UnderType DEF MountedTypeOK
    <3>3. mounts[IdPoint(f)] \in Seq(Images)
      BY <1>1 DEF MountedTypeOK
    <3>4. base[ActivePoint(f.pkg)] \o mounts[IdPoint(f)] \in Seq(Images)
      BY <1>1, <3>2, <3>3, ConcatProperties
    <3>5. mounts' = [base EXCEPT ![ActivePoint(f.pkg)] = @ \o mounts[IdPoint(f)]]
      BY <3>1 DEF BindMount
    <3> HIDE DEF base
    <3> QED
      BY <3>2, <3>4, <3>5
  <2>2. CASE BindMountFails(f)
    BY <1>1, <2>2, UnderType DEF BindMountFails
  <2> QED
    BY <2>1, <2>2
<1>3. devices' = Settled(mounts', detached, devices) /\ detached' = detached
  BY DEF BindMount, BindMountFails
<1>4. devices' \subseteq devices
  BY <1>3, SettledType
<1> QED
  BY <1>2, <1>3, <1>4 DEF KernelTypeOK, MountedTypeOK

-----------------------------------------------------------------------------
(* The database.                                                           *)

LEMMA DatabaseFacts ==
  ASSUME MountedTypeOK
  PROVE  /\ \A p : EntriesOf(p) \subseteq Entries /\ Latest(p) \subseteq EntriesOf(p)
                   /\ GetLatestMountedApex(p) \subseteq Latest(p)
                   /\ GetTempMountedApexData(p) \subseteq Entries
         /\ \A f, temp : WithPath(f, temp) \subseteq Entries
BY DEF MountedTypeOK, EntriesOf, Latest, GetLatestMountedApex, GetTempMountedApexData, WithPath,
   GreatestOf

LEMMA DatabaseType ==
  ASSUME MountedTypeOK,
         (\E e \in Entries : AddMountedApex(e)) \/ (\E f, temp : RemoveMountedApex(f, temp))
  PROVE  db' \subseteq Entries
BY DEF MountedTypeOK, AddMountedApex, RemoveMountedApex

LEMMA GetActivePackagesType ==
  ASSUME MountedTypeOK
  PROVE  GetActivePackages \subseteq Files
<1>1. \A p : GetLatestMountedApex(p) \subseteq Entries
  BY DatabaseFacts
<1> QED
  BY <1>1, EntryTypes DEF GetActivePackages

LEMMA CandidatesType ==
  ASSUME files \subseteq Files, NEW p \in Packages
  PROVE  Candidates(p) \subseteq Files
BY PackageTypes DEF Candidates, DataFiles

(* What MountImage has mounted becomes the entry of the call.               *)
LEMMA MountImageType ==
  ASSUME MountedTypeOK, call \in [Threads -> CallType], NEW t \in Threads, NEW f \in Files,
         NEW pt \in Points, NEW name \in Names \cup {NoName}, MountImage(t, f, pt, name)
  PROVE  /\ KernelTypeOK'
         /\ \E e \in Entries : call' = [call EXCEPT ![t].entry = e]
<1>1. PICK image \in NewImages(f, name) :
        /\ MountPackageImpl(image, pt)
        /\ call' = [call EXCEPT ![t].entry = [image |-> image, point |-> pt]]
  BY DEF MountImage
<1>2. image \in Images
  BY DEF NewImages, FreeLoops, Images
<1>3. [image |-> image, point |-> pt] \in Entries
  BY <1>2 DEF Entries
<1> QED
  BY <1>1, <1>2, <1>3, MountType

-----------------------------------------------------------------------------
(* Steps of a call: the label and the call of one thread change.            *)

LEMMA Step ==
  ASSUME TypeInv, NEW t \in Threads, NEW label \in Labels, NEW c \in CallType,
         KnownAt(label, c), pc' = [pc EXCEPT ![t] = label],
         call' = [call EXCEPT ![t] = c] \/ (call' = call /\ c = call[t]),
         KernelTypeOK', db' \subseteq Entries, OtherTypes'
  PROVE  TypeInv'
<1>1. pc' \in [Threads -> Labels] /\ call' \in [Threads -> CallType]
  BY DEF TypeInv, TypeOK
<1>2. pc'[t] = label /\ call'[t] = c
  BY DEF TypeInv, TypeOK
<1>3. \A u \in Threads \ {t} : pc'[u] = pc[u] /\ call'[u] = call[u]
  BY DEF TypeInv, TypeOK
<1>4. \A u \in Threads : KnownAt(pc'[u], call'[u])
  <2>1. ASSUME NEW u \in Threads PROVE KnownAt(pc'[u], call'[u])
    BY <1>2, <1>3 DEF TypeInv
  <2> QED
    BY <2>1
<1>5. (\A u \in Threads : KnownAt(pc[u], call[u]))'
  BY <1>4
<1>6. TypeOK'
  BY <1>1 DEF TypeOK, MountedTypeOK, KernelTypeOK, OtherTypes
<1> QED
  BY <1>5, <1>6 DEF TypeInv

LEMMA GotoStep ==
  ASSUME TypeInv, NEW t \in Threads, NEW label \in Labels, KnownAt(label, call[t]),
         Goto(t, label), call' = call, KernelTypeOK', db' \subseteq Entries, OtherTypes'
  PROVE  TypeInv'
<1>1. call[t] \in CallType
  BY DEF TypeInv, TypeOK
<1> QED
  BY <1>1, Step DEF Goto

LEMMA NoCallType ==
  ASSUME MaxMinor \in Nat
  PROVE  NoCall \in CallType /\ KnownAt("idle", NoCall)
BY DEF NoCall, CallType, KnownAt, InstallLabels, UnloadedLabels, WithEntry, WithTarget

LEMMA ReturnStep ==
  ASSUME TypeInv, NEW t \in Threads, Return(t), KernelTypeOK', db' \subseteq Entries, OtherTypes'
  PROVE  TypeInv'
<1>1. NoCall \in CallType /\ KnownAt("idle", NoCall) /\ "idle" \in Labels
  BY NoCallType, VersionsAssumption DEF Labels
<1> QED
  BY <1>1, Step DEF Return

LEMMA ErrorStep ==
  ASSUME TypeInv, NEW t \in Threads, pc[t] \in InstallLabels, Error(t),
         KernelTypeOK', db' \subseteq Entries, OtherTypes'
  PROVE  TypeInv'
<1> DEFINE c == [call[t] EXCEPT !.ok = FALSE]
<1>1. call[t] \in CallType /\ KnownAt(pc[t], call[t])
  BY DEF TypeInv, TypeOK
<1>2. c \in CallType /\ KnownAt("reload", c)
  BY <1>1 DEF CallType, KnownAt, InstallLabels, UnloadedLabels, WithEntry, WithTarget
<1>3. call' = [call EXCEPT ![t] = c] /\ pc' = [pc EXCEPT ![t] = "reload"]
  BY DEF Error, Goto
<1>4. "reload" \in Labels
  BY DEF Labels, UnloadedLabels
<1> HIDE DEF c
<1> QED
  BY <1>2, <1>3, <1>4, Step

LEMMA TypeParts ==
  ASSUME TypeInv
  PROVE  /\ MountedTypeOK /\ KernelTypeOK /\ db \subseteq Entries /\ OtherTypes
         /\ files \subseteq Files /\ call \in [Threads -> CallType]
         /\ \A t \in Threads : call[t] \in CallType /\ KnownAt(pc[t], call[t])
BY DEF TypeInv, TypeOK, MountedTypeOK, KernelTypeOK, OtherTypes

(* What a step writes into the entry of its call.                           *)
LEMMA EntryStep ==
  ASSUME TypeInv, NEW t \in Threads, NEW label \in {"tempAdd", "add", "dropRemove", "forget"},
         pc[t] # "idle", label # "tempAdd" /\ label # "dropRemove" => pc[t] \in InstallLabels,
         label = "add" => call[t].target \in Files,
         \E e \in Entries : call' = [call EXCEPT ![t].entry = e],
         Goto(t, label), KernelTypeOK', db' \subseteq Entries, OtherTypes'
  PROVE  TypeInv'
<1>1. PICK e \in Entries : call' = [call EXCEPT ![t].entry = e]
  OBVIOUS
<1> DEFINE c == [call[t] EXCEPT !.entry = e]
<1>2. call[t] \in CallType /\ KnownAt(pc[t], call[t])
  BY TypeParts
<1>3. c \in CallType
  BY <1>2 DEF CallType
<1>4. KnownAt(label, c)
  BY <1>2 DEF CallType, KnownAt, InstallLabels, UnloadedLabels, WithEntry, WithTarget
<1>5. label \in Labels
  BY DEF Labels, TempLabels, UnloadedLabels
<1>6. call' = [call EXCEPT ![t] = c]
  BY <1>1
<1> HIDE DEF c
<1> QED
  BY <1>3, <1>4, <1>5, <1>6, Step DEF Goto

(* Memory and mounts are empty after a reboot.                              *)
LEMMA PowerOffType ==
  ASSUME TypeInv, PowerOff, files' \subseteq {f \in Files : OnData(f)},
         calls' \in Nat, reboots' \in Nat, faults' \in Nat,
         accepted' \in [Packages -> Versions], aborted' \in BOOLEAN,
         refused' \subseteq Packages
  PROVE  TypeInv'
<1>1. NoCall \in CallType /\ KnownAt("idle", NoCall) /\ "idle" \in Labels
  BY NoCallType, VersionsAssumption DEF Labels
<1>2. pc' \in [Threads -> Labels] /\ call' \in [Threads -> CallType]
  BY <1>1 DEF PowerOff
<1>3. \A t \in Threads : KnownAt(pc'[t], call'[t])
  BY <1>1 DEF PowerOff
<1>4. <<>> \in Seq(Images)
  BY EmptySeq
<1>5. mounts' \in [Points -> Seq(Images)]
  BY <1>4 DEF PowerOff
<1>6. MountedTypeOK' /\ OtherTypes'
  BY <1>5 DEF PowerOff, MountedTypeOK, OtherTypes
<1>7. TypeOK'
  BY <1>2, <1>6 DEF TypeOK, OtherTypes
<1>8. (\A t \in Threads : KnownAt(pc[t], call[t]))'
  BY <1>3
<1> QED
  BY <1>7, <1>8 DEF TypeInv

LEMMA FailType ==
  ASSUME TypeInv, UNCHANGED faults \/ \E place : Fail(place)
  PROVE  faults' \in Nat
BY TypeParts DEF OtherTypes, Fail

LEMMA TempMountsType ==
  ASSUME TypeInv, NEW t \in Threads, TempMounts(t)
  PROVE  TypeInv'
<1> USE DEF mounted, kernel, disk, memory, mainVars, bounds, history
<1> DEFINE new == call[t].new
<1>1. call[t] \in CallType /\ KnownAt(pc[t], call[t])
  BY TypeParts
<1>2. pc[t] # "idle" => new \in Files
  BY <1>1 DEF KnownAt
<1>3. CASE TempMount(t)
  <2>1. new \in Files /\ pc[t] = "tempMount" /\ MountImage(t, new, TempPoint(new), TempName(new))
    BY <1>2, <1>3 DEF TempMount
  <2>2. KernelTypeOK' /\ \E e \in Entries : call' = [call EXCEPT ![t].entry = e]
    BY <2>1, MountImageType, FileTypes, TypeParts
  <2>3. db' \subseteq Entries /\ OtherTypes' /\ Goto(t, "tempAdd")
    BY <1>3, TypeParts DEF TempMount, OtherTypes
  <2> QED
    BY <2>1, <2>2, <2>3, EntryStep
<1>4. CASE TempMountFails(t)
  <2>1. KernelTypeOK'
    BY <1>4, MountFailsType, TypeParts DEF TempMountFails
  <2>2. db' \subseteq Entries /\ OtherTypes' /\ Return(t)
    BY <1>4, TypeParts DEF TempMountFails, OtherTypes, Fail
  <2> QED
    BY <2>1, <2>2, ReturnStep
<1>5. CASE TempAdd(t)
  <2>1. pc[t] = "tempAdd" /\ call[t].entry \in Entries
    BY <1>1, <1>5 DEF TempAdd, KnownAt, WithEntry
  <2>2. db' \subseteq Entries
    BY <1>5, <2>1, DatabaseType, TypeParts DEF TempAdd
  <2>3. KernelTypeOK' /\ OtherTypes'
    BY <1>5, TypeParts DEF TempAdd, KernelTypeOK, OtherTypes, Fail
  <2>4. CASE Goto(t, IF call[t].op = "stage" THEN "dropFind" ELSE "tempUnmount") /\ call' = call
    <3> DEFINE label == IF call[t].op = "stage" THEN "dropFind" ELSE "tempUnmount"
    <3>1. label \in Labels /\ KnownAt(label, call[t])
      BY <1>1, <2>1 DEF Labels, TempLabels, KnownAt, InstallLabels, UnloadedLabels, WithEntry,
         WithTarget
    <3>2. Goto(t, label) /\ call' = call
      BY <2>4
    <3> HIDE DEF label
    <3> QED
      BY <2>2, <2>3, <3>1, <3>2, GotoStep
  <2>5. CASE Goto(t, "tempUnmount") /\ call' = [call EXCEPT ![t].ok = FALSE]
    <3> DEFINE c == [call[t] EXCEPT !.ok = FALSE]
    <3>1. c \in CallType /\ KnownAt("tempUnmount", c)
      BY <1>1, <2>1 DEF CallType, KnownAt, InstallLabels, UnloadedLabels, WithEntry, WithTarget
    <3>2. call' = [call EXCEPT ![t] = c] /\ pc' = [pc EXCEPT ![t] = "tempUnmount"]
      BY <2>5 DEF Goto
    <3>3. "tempUnmount" \in Labels
      BY DEF Labels, TempLabels
    <3> HIDE DEF c
    <3> QED
      BY <2>2, <2>3, <3>1, <3>2, <3>3, Step
  <2> QED
    BY <1>5, <2>4, <2>5 DEF TempAdd
<1>6. CASE UnmountTemp(t)
  <2>1. pc[t] \in {"tempUnmount", "dropUnmount"} /\ call[t].entry \in Entries
    BY <1>1, <1>6 DEF UnmountTemp, KnownAt, WithEntry
  <2>2. KernelTypeOK'
    BY <1>6, <2>1, UnmountType, TypeParts DEF UnmountTemp
  <2>9. faults' \in Nat
    BY <1>6, FailType DEF UnmountTemp
  <2>3. db' \subseteq Entries /\ OtherTypes'
    BY <1>6, <2>9, TypeParts DEF UnmountTemp, OtherTypes
  <2> DEFINE label == IF pc[t] = "tempUnmount" THEN "tempRemove" ELSE "dropFind"
  <2>4. label \in Labels /\ KnownAt(label, call[t])
    BY <1>1, <2>1 DEF Labels, TempLabels, KnownAt, InstallLabels, UnloadedLabels, WithEntry,
       WithTarget
  <2>5. Goto(t, label) /\ call' = call
    BY <1>6 DEF UnmountTemp
  <2> HIDE DEF label
  <2> QED
    BY <2>2, <2>3, <2>4, <2>5, GotoStep
<1>7. CASE TempRemove(t)
  <2>1. db' \subseteq Entries /\ KernelTypeOK' /\ OtherTypes'
    BY <1>7, DatabaseType, TypeParts DEF TempRemove, KernelTypeOK, OtherTypes
  <2>2. CASE call[t].op = "install" /\ call[t].ok
    <3>1. "minor" \in Labels /\ KnownAt("minor", call[t])
      BY <1>1, <1>7, <2>2 DEF TempRemove, Labels, KnownAt, InstallLabels, UnloadedLabels,
         WithEntry, WithTarget
    <3>2. Goto(t, "minor") /\ call' = call
      BY <1>7, <2>2 DEF TempRemove
    <3> QED
      BY <2>1, <3>1, <3>2, GotoStep
  <2>3. CASE ~(call[t].op = "install" /\ call[t].ok)
    BY <1>7, <2>1, <2>3, ReturnStep DEF TempRemove
  <2> QED
    BY <2>2, <2>3
<1>8. CASE DropFind(t)
  <2>1. db' \subseteq Entries /\ KernelTypeOK' /\ OtherTypes'
    BY <1>8, TypeParts DEF DropFind, KernelTypeOK, OtherTypes
  <2>2. CASE Return(t)
    BY <2>1, <2>2, ReturnStep
  <2>3. CASE \E e \in GetTempMountedApexData(Package(t)) :
               call' = [call EXCEPT ![t].entry = e] /\ Goto(t, "dropRemove")
    <3>1. (\E e \in Entries : call' = [call EXCEPT ![t].entry = e]) /\ Goto(t, "dropRemove")
      BY <2>3, DatabaseFacts, TypeParts
    <3>2. pc[t] = "dropFind"
      BY <1>8 DEF DropFind
    <3> QED
      BY <2>1, <3>1, <3>2, EntryStep
  <2> QED
    BY <1>8, <2>2, <2>3 DEF DropFind
<1>9. CASE DropRemove(t)
  <2>1. db' \subseteq Entries /\ KernelTypeOK' /\ OtherTypes'
    BY <1>9, DatabaseType, TypeParts DEF DropRemove, KernelTypeOK, OtherTypes
  <2>2. "dropUnmount" \in Labels /\ KnownAt("dropUnmount", call[t])
    BY <1>1, <1>9 DEF DropRemove, Labels, TempLabels, KnownAt, InstallLabels, UnloadedLabels,
       WithEntry, WithTarget
  <2>3. Goto(t, "dropUnmount") /\ call' = call
    BY <1>9 DEF DropRemove
  <2> QED
    BY <2>1, <2>2, <2>3, GotoStep
<1>10. CASE AddAborts(t)
  BY <1>10, PowerOffType, TypeParts DEF AddAborts, Abort, OtherTypes
<1> QED
  BY <1>3, <1>4, <1>5, <1>6, <1>7, <1>8, <1>9, <1>10 DEF TempMounts

LEMMA UnloadType ==
  ASSUME TypeInv, NEW t \in Threads, Unload(t)
  PROVE  TypeInv'
<1> USE DEF mounted, kernel, disk, memory, mainVars, bounds, history
<1>1. call[t] \in CallType /\ KnownAt(pc[t], call[t])
  BY TypeParts
<1>2. CASE ComputePackageIdMinor(t)
  <2>1. KernelTypeOK' /\ db' \subseteq Entries /\ OtherTypes'
    BY <1>2, TypeParts DEF ComputePackageIdMinor, KernelTypeOK, OtherTypes
  <2>2. CASE Return(t)
    BY <2>1, <2>2, ReturnStep
  <2>3. CASE (\E m \in Minors(call[t].new) : call' = [call EXCEPT ![t].minor = m]) /\ Goto(t, "unload")
    <3>1. PICK m \in Minors(call[t].new) : call' = [call EXCEPT ![t].minor = m]
      BY <2>3
    <3>2. m \in 0 .. MaxMinor /\ m \in Nat
      BY VersionsAssumption DEF Minors
    <3> DEFINE c == [call[t] EXCEPT !.minor = m]
    <3>3. c \in CallType /\ KnownAt("unload", c)
      BY <1>1, <1>2, <3>2 DEF ComputePackageIdMinor, CallType, KnownAt, InstallLabels,
         UnloadedLabels, WithEntry, WithTarget
    <3>4. call' = [call EXCEPT ![t] = c] /\ pc' = [pc EXCEPT ![t] = "unload"]
      BY <2>3, <3>1 DEF Goto
    <3>5. "unload" \in Labels
      BY DEF Labels
    <3> HIDE DEF c
    <3> QED
      BY <2>1, <3>3, <3>4, <3>5, Step
  <2> QED
    BY <1>2, <2>2, <2>3 DEF ComputePackageIdMinor
<1>3. CASE UnloadApexFromInit(t)
  <2>1. KernelTypeOK' /\ db' \subseteq Entries
    BY <1>3, TypeParts DEF UnloadApexFromInit, KernelTypeOK
  <2>2. loaded' \subseteq Packages /\ faults' \in Nat
    BY <1>3, TypeParts DEF UnloadApexFromInit, OtherTypes, Fail
  <2>3. OtherTypes'
    BY <1>3, <2>2, TypeParts DEF UnloadApexFromInit, OtherTypes
  <2>4. CASE Return(t)
    BY <2>1, <2>3, <2>4, ReturnStep
  <2>5. CASE Goto(t, "unmount") /\ call' = call
    <3>1. "unmount" \in Labels /\ KnownAt("unmount", call[t])
      BY <1>1, <1>3 DEF UnloadApexFromInit, Labels, KnownAt, InstallLabels, UnloadedLabels,
         WithEntry, WithTarget
    <3> QED
      BY <2>1, <2>3, <2>5, <3>1, GotoStep
  <2> QED
    BY <1>3, <2>4, <2>5 DEF UnloadApexFromInit
<1>4. CASE UnmountActive(t)
  <2>1. pc[t] = "unmount" /\ call[t].new \in Files /\ call[t].force \in BOOLEAN
    BY <1>1, <1>4 DEF UnmountActive, KnownAt, CallType
  <2>2. \E e \in Entries : call' = [call EXCEPT ![t].entry = e]
    BY <1>4, DatabaseFacts, TypeParts DEF UnmountActive
  <2>3. KernelTypeOK'
    <3>1. CASE UNCHANGED kernel
      BY <3>1, TypeParts DEF KernelTypeOK
    <3>2. CASE Umount(ActivePoint(Package(t)), call[t].force)
      BY <2>1, <3>2, UmountType, FileTypes, TypeParts DEF Package
    <3> QED
      BY <1>4, <3>1, <3>2 DEF UnmountActive
  <2>4. db' \subseteq Entries /\ OtherTypes' /\ Goto(t, "forget")
    BY <1>4, TypeParts DEF UnmountActive, OtherTypes
  <2>5. pc[t] \in InstallLabels
    BY <2>1 DEF InstallLabels, UnloadedLabels
  <2> QED
    BY <2>1, <2>2, <2>3, <2>4, <2>5, EntryStep
<1>5. CASE UnmountActiveFails(t)
  <2>1. faults' \in Nat
    BY <1>5, FailType DEF UnmountActiveFails
  <2>2. KernelTypeOK' /\ db' \subseteq Entries /\ OtherTypes' /\ Error(t)
    BY <1>5, <2>1, TypeParts DEF UnmountActiveFails, KernelTypeOK, OtherTypes
  <2>3. pc[t] \in InstallLabels
    BY <1>5 DEF UnmountActiveFails, InstallLabels, UnloadedLabels
  <2> QED
    BY <2>2, <2>3, ErrorStep
<1>6. CASE Forget(t)
  <2>1. KernelTypeOK' /\ db' \subseteq Entries /\ OtherTypes'
    BY <1>6, DatabaseType, TypeParts DEF Forget, KernelTypeOK, OtherTypes
  <2>2. "unmountId" \in Labels /\ KnownAt("unmountId", call[t])
    BY <1>1, <1>6 DEF Forget, Labels, KnownAt, InstallLabels, UnloadedLabels, WithEntry, WithTarget
  <2>3. Goto(t, "unmountId") /\ call' = call
    BY <1>6 DEF Forget
  <2> QED
    BY <2>1, <2>2, <2>3, GotoStep
<1>7. CASE UnmountId(t)
  <2>1. pc[t] = "unmountId" /\ call[t].entry \in Entries
    BY <1>1, <1>7 DEF UnmountId, KnownAt, WithEntry
  <2>2. KernelTypeOK'
    BY <1>7, <2>1, UnmountType, TypeParts DEF UnmountId
  <2>3. db' \subseteq Entries /\ OtherTypes'
    BY <1>7, TypeParts DEF UnmountId, OtherTypes
  <2>4. "link" \in Labels /\ KnownAt("link", call[t])
    BY <1>1, <2>1 DEF Labels, KnownAt, InstallLabels, UnloadedLabels, WithEntry, WithTarget
  <2>5. Goto(t, "link") /\ call' = call
    BY <1>7 DEF UnmountId
  <2> QED
    BY <2>2, <2>3, <2>4, <2>5, GotoStep
<1>8. CASE UnmountIdFails(t)
  <2>1. pc[t] = "unmountId" /\ call[t].entry \in Entries
    BY <1>1, <1>8 DEF UnmountIdFails, KnownAt, WithEntry
  <2>2. KernelTypeOK'
    BY <1>8, <2>1, UnmountType, TypeParts DEF UnmountIdFails
  <2>3. faults' \in Nat
    BY <1>8, FailType DEF UnmountIdFails
  <2>4. db' \subseteq Entries /\ OtherTypes' /\ Error(t)
    BY <1>8, <2>3, TypeParts DEF UnmountIdFails, OtherTypes
  <2>5. pc[t] \in InstallLabels
    BY <2>1 DEF InstallLabels, UnloadedLabels
  <2> QED
    BY <2>2, <2>4, <2>5, ErrorStep
<1> QED
  BY <1>2, <1>3, <1>4, <1>5, <1>6, <1>7, <1>8 DEF Unload

LEMMA DeviceNameType ==
  ASSUME TypeInv, NEW t \in Threads, call[t].new \in Files
  PROVE  DeviceName(t) \in Names \cup {NoName}
<1>1. call[t].minor \in 0 .. MaxMinor
  BY TypeParts DEF KnownAt
<1> QED
  BY <1>1, FileTypes DEF DeviceName

(* Where activation goes on from, or returns to, a call needs no more.      *)
LEMMA ActivateLabels ==
  ASSUME TypeInv, NEW t \in Threads, pc[t] \in WithTarget,
         NEW label \in {"mount", "bind", "accept", "undo", "reload"}
  PROVE  /\ label \in Labels /\ KnownAt(label, call[t])
         /\ label \in {"mount", "bind"} => call[t].target \in Files
<1>1. KnownAt(pc[t], call[t])
  BY TypeParts
<1> QED
  BY <1>1 DEF Labels, KnownAt, InstallLabels, UnloadedLabels, WithEntry, WithTarget

LEMMA ActivateNewType ==
  ASSUME TypeInv, NEW t \in Threads, ActivateNew(t)
  PROVE  TypeInv'
<1> USE DEF mounted, kernel, disk, memory, mainVars, bounds, history
<1>1. call[t] \in CallType /\ KnownAt(pc[t], call[t])
  BY TypeParts
<1>2. CASE Link(t)
  <2> DEFINE target == Target(call[t].new, call[t].minor)
             c == [call[t] EXCEPT !.target = target]
  <2>1. pc[t] = "link" /\ call[t].new \in Files /\ call[t].minor \in 0 .. MaxMinor
    BY <1>1, <1>2 DEF Link, KnownAt
  <2>2. target \in Files /\ OnData(target)
    BY <2>1, FileTypes
  <2>3. c \in CallType /\ KnownAt("activate", c) /\ KnownAt("undo", c)
    <3> HIDE DEF target
    <3> QED
      BY <1>1, <2>1, <2>2 DEF CallType, KnownAt, InstallLabels, UnloadedLabels, WithEntry, WithTarget
  <2>4. faults' \in Nat
    BY <1>2, FailType DEF Link
  <2>5. files' \subseteq {f \in Files : OnData(f)}
    BY <1>2, <2>2, TypeParts DEF Link, OtherTypes
  <2>6. KernelTypeOK' /\ db' \subseteq Entries /\ OtherTypes'
    BY <1>2, <2>4, <2>5, TypeParts DEF Link, KernelTypeOK, OtherTypes
  <2>7. call' = [call EXCEPT ![t] = c]
    BY <1>2 DEF Link
  <2>8. \/ pc' = [pc EXCEPT ![t] = "activate"]
        \/ pc' = [pc EXCEPT ![t] = "undo"]
    BY <1>2 DEF Link, Goto
  <2>9. "activate" \in Labels /\ "undo" \in Labels
    BY DEF Labels, UnloadedLabels
  <2> HIDE DEF c
  <2> QED
    BY <2>3, <2>6, <2>7, <2>8, <2>9, Step
<1>3. CASE Activate(t)
  <2>1. pc[t] \in WithTarget
    BY <1>3 DEF Activate, WithTarget
  <2>2. \E label \in {"mount", "bind", "accept", "reload"} : Goto(t, label)
    BY <1>3 DEF Activate, Activated
  <2>3. KernelTypeOK' /\ db' \subseteq Entries /\ OtherTypes' /\ call' = call
    BY <1>3, TypeParts DEF Activate, KernelTypeOK, OtherTypes
  <2> QED
    BY <2>1, <2>2, <2>3, ActivateLabels, GotoStep
<1>4. CASE Mount(t)
  <2> DEFINE f == Activating(t)
  <2>1. pc[t] = "mount" /\ f \in Files /\ call[t].new \in Files
    BY <1>1, <1>4 DEF Mount, KnownAt, WithTarget, Activating
  <2>2. DeviceName(t) \in Names \cup {NoName} /\ IdPoint(f) \in Points
    BY <2>1, DeviceNameType, FileTypes
  <2>3. MountImage(t, f, IdPoint(f), DeviceName(t))
    BY <1>4 DEF Mount
  <2>4. KernelTypeOK' /\ \E e \in Entries : call' = [call EXCEPT ![t].entry = e]
    BY <2>1, <2>2, <2>3, MountImageType, TypeParts
  <2>5. db' \subseteq Entries /\ OtherTypes' /\ Goto(t, "add")
    BY <1>4, TypeParts DEF Mount, OtherTypes
  <2>6. pc[t] \in InstallLabels /\ call[t].target \in Files
    BY <2>1 DEF InstallLabels, UnloadedLabels, Activating
  <2> QED
    BY <2>1, <2>4, <2>5, <2>6, EntryStep
<1>5. CASE MountFails(t)
  <2>1. pc[t] \in WithTarget
    BY <1>5 DEF MountFails, WithTarget
  <2>2. \E label \in {"reload", "undo"} : Goto(t, label)
    BY <1>5 DEF MountFails, ActivationFailed
  <2>3. KernelTypeOK'
    BY <1>5, MountFailsType, TypeParts DEF MountFails
  <2>4. faults' \in Nat
    BY <1>5, FailType DEF MountFails
  <2>5. db' \subseteq Entries /\ OtherTypes' /\ call' = call
    BY <1>5, <2>4, TypeParts DEF MountFails, OtherTypes
  <2> QED
    BY <2>1, <2>2, <2>3, <2>5, ActivateLabels, GotoStep
<1>6. CASE Add(t)
  <2>1. pc[t] \in WithTarget /\ call[t].entry \in Entries
    BY <1>1, <1>6 DEF Add, WithTarget, KnownAt, WithEntry
  <2>2. db' \subseteq Entries
    BY <1>6, <2>1, DatabaseType, TypeParts DEF Add
  <2>3. KernelTypeOK' /\ OtherTypes' /\ call' = call /\ Goto(t, "bind")
    BY <1>6, TypeParts DEF Add, KernelTypeOK, OtherTypes
  <2> QED
    BY <2>1, <2>2, <2>3, ActivateLabels, GotoStep
<1>7. CASE Bind(t)
  <2>1. pc[t] \in WithTarget /\ Activating(t) \in Files
    BY <1>1, <1>7 DEF Bind, WithTarget, KnownAt, Activating
  <2>2. KernelTypeOK'
    <3>1. CASE UNCHANGED kernel
      BY <3>1, TypeParts DEF KernelTypeOK
    <3>2. CASE \E covering \in BOOLEAN : BindMount(Activating(t), covering)
      BY <2>1, <3>2, BindMountType, TypeParts
    <3> QED
      BY <1>7, <3>1, <3>2 DEF Bind
  <2>3. faults' \in Nat
    BY <1>7, FailType DEF Bind
  <2>4. db' \subseteq Entries /\ OtherTypes' /\ call' = call
    BY <1>7, <2>3, TypeParts DEF Bind, OtherTypes
  <2>5. \E label \in {"reload", "accept"} : Goto(t, label)
    BY <1>7 DEF Bind, Activated
  <2> QED
    BY <2>1, <2>2, <2>4, <2>5, ActivateLabels, GotoStep
<1>8. CASE BindFails(t)
  <2>1. pc[t] \in WithTarget /\ Activating(t) \in Files
    BY <1>1, <1>8 DEF BindFails, WithTarget, KnownAt, Activating
  <2>2. KernelTypeOK'
    BY <1>8, <2>1, BindMountType, TypeParts DEF BindFails
  <2>3. faults' \in Nat
    BY <1>8, FailType DEF BindFails
  <2>4. db' \subseteq Entries /\ OtherTypes' /\ call' = call
    BY <1>8, <2>3, TypeParts DEF BindFails, OtherTypes
  <2>5. \E label \in {"reload", "undo"} : Goto(t, label)
    BY <1>8 DEF BindFails, ActivationFailed
  <2> QED
    BY <2>1, <2>2, <2>4, <2>5, ActivateLabels, GotoStep
<1>9. CASE BindAborts(t)
  BY <1>9, PowerOffType, TypeParts DEF BindAborts, Abort, OtherTypes
<1>10. CASE Undo(t)
  <2> DEFINE c == [call[t] EXCEPT !.target = call[t].cur, !.ok = FALSE]
  <2>1. pc[t] = "undo" /\ call[t].cur \in Files
    BY <1>1, <1>10 DEF Undo, KnownAt, InstallLabels, UnloadedLabels
  <2>2. c \in CallType /\ KnownAt("activate", c)
    BY <1>1, <2>1 DEF CallType, KnownAt, InstallLabels, UnloadedLabels, WithEntry, WithTarget
  <2>3. faults' \in Nat
    BY <1>10, FailType DEF Undo
  <2>4. KernelTypeOK' /\ db' \subseteq Entries /\ OtherTypes'
    BY <1>10, <2>3, TypeParts DEF Undo, KernelTypeOK, OtherTypes
  <2>5. call' = [call EXCEPT ![t] = c] /\ pc' = [pc EXCEPT ![t] = "activate"]
    BY <1>10 DEF Undo, Goto
  <2>6. "activate" \in Labels
    BY DEF Labels, UnloadedLabels
  <2> HIDE DEF c
  <2> QED
    BY <2>2, <2>4, <2>5, <2>6, Step
<1> QED
  BY <1>2, <1>3, <1>4, <1>5, <1>6, <1>7, <1>8, <1>9, <1>10 DEF ActivateNew

LEMMA FinishType ==
  ASSUME TypeInv, NEW t \in Threads, Finish(t)
  PROVE  TypeInv'
<1> USE DEF mounted, kernel, disk, memory, mainVars, bounds, history
<1>1. call[t] \in CallType /\ KnownAt(pc[t], call[t])
  BY TypeParts
<1>2. CASE Accept(t)
  <2>1. "collect" \in Labels /\ KnownAt("collect", call[t])
    BY <1>1, <1>2 DEF Accept, Labels, KnownAt, InstallLabels, UnloadedLabels, WithEntry, WithTarget
  <2>2. faults' \in Nat
    BY <1>2, FailType DEF Accept
  <2>3. KernelTypeOK' /\ db' \subseteq Entries /\ OtherTypes' /\ Goto(t, "collect") /\ call' = call
    BY <1>2, <2>2, TypeParts DEF Accept, KernelTypeOK, OtherTypes
  <2> QED
    BY <2>1, <2>3, GotoStep
<1>3. CASE CollectInfo(t)
  <2> DEFINE c == [call[t] EXCEPT !.list = GetActivePackages]
  <2>1. GetActivePackages \subseteq Files
    BY GetActivePackagesType, TypeParts
  <2>2. c \in CallType /\ KnownAt("write", c)
    BY <1>1, <1>3, <2>1 DEF CollectInfo, CallType, KnownAt, InstallLabels, UnloadedLabels,
       WithEntry, WithTarget
  <2>3. KernelTypeOK' /\ db' \subseteq Entries /\ OtherTypes'
    BY <1>3, TypeParts DEF CollectInfo, KernelTypeOK, OtherTypes
  <2>4. call' = [call EXCEPT ![t] = c] /\ pc' = [pc EXCEPT ![t] = "write"]
    BY <1>3 DEF CollectInfo, Goto
  <2>5. "write" \in Labels
    BY DEF Labels, UnloadedLabels
  <2> HIDE DEF c
  <2> QED
    BY <2>2, <2>3, <2>4, <2>5, Step
<1>4. CASE WriteInfo(t)
  <2>1. "reload" \in Labels /\ KnownAt("reload", call[t])
    BY <1>1, <1>4 DEF WriteInfo, Labels, KnownAt, InstallLabels, UnloadedLabels, WithEntry, WithTarget
  <2>2. faults' \in Nat
    BY <1>4, FailType DEF WriteInfo
  <2>3. call[t].list \subseteq Files
    BY <1>1 DEF CallType
  <2>4. KernelTypeOK' /\ db' \subseteq Entries /\ OtherTypes' /\ Goto(t, "reload") /\ call' = call
    BY <1>4, <2>2, <2>3, TypeParts DEF WriteInfo, KernelTypeOK, OtherTypes
  <2> QED
    BY <2>1, <2>4, GotoStep
<1>5. CASE Reload(t)
  <2>1. call[t].new \in Files
    BY <1>1, <1>5 DEF Reload, KnownAt
  <2>2. Package(t) \in Packages /\ call[t].new.ver \in Versions
    BY <2>1, FileTypes DEF Package
  <2>3. faults' \in Nat
    BY <1>5, FailType DEF Reload
  <2>4. KernelTypeOK' /\ db' \subseteq Entries /\ OtherTypes' /\ Return(t)
    BY <1>5, <2>2, <2>3, TypeParts DEF Reload, KernelTypeOK, OtherTypes
  <2> QED
    BY <2>4, ReturnStep
<1> QED
  BY <1>2, <1>3, <1>4, <1>5 DEF Finish

-----------------------------------------------------------------------------
(* The device, the clean-up after boot, and new calls.                      *)

(* A step that leaves the calls alone.                                     *)
LEMMA DeviceStep ==
  ASSUME TypeInv, UNCHANGED <<pc, call>>, KernelTypeOK', db' \subseteq Entries, OtherTypes'
  PROVE  TypeInv'
<1>1. TypeOK'
  BY DEF TypeInv, TypeOK, MountedTypeOK, KernelTypeOK, OtherTypes
<1>2. (\A t \in Threads : KnownAt(pc[t], call[t]))'
  BY DEF TypeInv
<1> QED
  BY <1>1, <1>2 DEF TypeInv

LEMMA BootType ==
  ASSUME TypeInv, Boot
  PROVE  TypeInv'
<1> USE DEF mounted, kernel, disk, memory, mainVars, bounds, history
<1>1. PICK chosen \in {g \in [Packages -> Files] : \A p \in Packages : g[p] \in Candidates(p)},
           loop \in [Packages -> Loops] :
        LET image == [p \in Packages |-> BootImage(chosen[p], loop[p])] IN
        /\ mounts' = [pt \in Points |->
             IF pt \in {ActivePoint(pt.pkg), IdPoint(chosen[pt.pkg])}
             THEN <<image[pt.pkg]>> ELSE <<>>]
        /\ db' = {[image |-> image[p], point |-> IdPoint(chosen[p])] : p \in Packages}
        /\ devices' = {[name |-> BootName(p), loop |-> loop[p], deferred |-> FALSE] :
                         p \in {q \in Packages : OnData(chosen[q])}}
        /\ info' = {chosen[p] : p \in Packages}
        /\ accepted' = [p \in Packages |-> chosen[p].ver]
  BY SMTT(40) DEF Boot
<1> DEFINE image == [p \in Packages |-> BootImage(chosen[p], loop[p])]
<1>2. \A p \in Packages : chosen[p] \in Files /\ chosen[p].pkg = chosen[p].pkg
  OBVIOUS
<1>3. \A p \in Packages : BootImage(chosen[p], loop[p]) \in Images
  <2> TAKE p \in Packages
  <2>1. chosen[p] \in Files /\ chosen[p].pkg \in Packages /\ loop[p] \in Loops
    BY <1>2, FileTypes
  <2>2. BootName(chosen[p].pkg) \in Names
    BY <2>1, PackageTypes
  <2> QED
    BY <2>1, <2>2 DEF BootImage, Images
<1>4. \A pt \in Points : pt.pkg \in Packages
  BY DEF Points
<1>5. mounts' \in [Points -> Seq(Images)]
  <2>1. \A pt \in Points : image[pt.pkg] \in Images
    BY <1>3, <1>4
  <2>2. <<>> \in Seq(Images) /\ \A i \in Images : <<i>> \in Seq(Images)
    BY EmptySeq
  <2> HIDE DEF image
  <2> QED
    BY <1>1, <2>1, <2>2 DEF image
<1>6. devices' \subseteq [name : Names, loop : Loops, deferred : BOOLEAN]
  <2>1. \A p \in Packages : [name |-> BootName(p), loop |-> loop[p], deferred |-> FALSE]
                            \in [name : Names, loop : Loops, deferred : BOOLEAN]
    BY PackageTypes
  <2> QED
    BY <1>1, <2>1
<1>7. db' \subseteq Entries
  <2>1. \A p \in Packages : IdPoint(chosen[p]) \in Points
    BY <1>2, FileTypes
  <2> QED
    BY <1>1, <1>3, <2>1 DEF Entries
<1>8. accepted' \in [Packages -> Versions]
  BY <1>1, <1>2, FileTypes
<1>9. KernelTypeOK'
  BY <1>5, <1>6, TypeParts DEF Boot, KernelTypeOK
<1>10. info' \subseteq Files
  BY <1>1, <1>2
<1>11. OtherTypes' /\ UNCHANGED <<pc, call>>
  BY <1>8, <1>10, TypeParts DEF Boot, OtherTypes
<1> QED
  BY <1>7, <1>9, <1>11, DeviceStep

LEMMA DeviceType ==
  ASSUME TypeInv, PowerLoss \/ Release \/ CleanUp
  PROVE  TypeInv'
<1> USE DEF mounted, kernel, disk, memory, mainVars, bounds, history
<1>1. CASE PowerLoss
  BY <1>1, PowerOffType, TypeParts DEF PowerLoss, OtherTypes
<1>2. CASE Release
  <2>1. detached' \subseteq detached /\ devices' \subseteq devices /\ mounts' = mounts
    BY <1>2, SettledType DEF Release, ReleaseDetached
  <2>2. KernelTypeOK' /\ db' \subseteq Entries /\ OtherTypes' /\ UNCHANGED <<pc, call>>
    BY <1>2, <2>1, TypeParts DEF Release, ReleaseDetached, KernelTypeOK, OtherTypes
  <2> QED
    BY <2>2, DeviceStep
<1>3. CASE CleanUp
  <2>1. faults' \in Nat
    BY <1>3, FailType DEF CleanUp, ScanFiles, CheckFile, UnlinkInactive, CleanedUp
  <2>2. KernelTypeOK' /\ db' \subseteq Entries /\ UNCHANGED <<pc, call>>
    BY <1>3, TypeParts DEF CleanUp, ScanFiles, CheckFile, UnlinkInactive, CleanedUp, KernelTypeOK
  <2>3. OtherTypes'
    <3>1. CASE ScanFiles
      BY <3>1, TypeParts DEF ScanFiles, OtherTypes
    <3>2. CASE CheckFile
      BY <3>2, TypeParts DEF CheckFile, OtherTypes
    <3>3. CASE UnlinkInactive
      BY <2>1, <3>3, TypeParts DEF UnlinkInactive, OtherTypes
    <3>4. CASE CleanedUp
      BY <3>4, TypeParts DEF CleanedUp, OtherTypes
    <3> QED
      BY <1>3, <3>1, <3>2, <3>3, <3>4 DEF CleanUp
  <2> QED
    BY <2>2, <2>3, DeviceStep
<1> QED
  BY <1>1, <1>2, <1>3

LEMMA RequestType ==
  ASSUME TypeInv, NEW t \in Threads, Install(t) \/ Stage(t)
  PROVE  TypeInv'
<1> USE DEF mounted, kernel, disk, memory, mainVars, bounds, history
<1>1. KernelTypeOK' /\ db' \subseteq Entries
  BY TypeParts DEF Install, Stage, KernelTypeOK
<1>2. OtherTypes' /\ pc' = [pc EXCEPT ![t] = "tempMount"] /\ "tempMount" \in Labels
  <2>1. calls' \in Nat
    <3>1. CountCall
      BY Zenon DEF Install, Stage
    <3> QED
      BY <3>1, TypeParts DEF CountCall, OtherTypes
  <2>2. UNCHANGED <<files, info, loaded, main, todo, doomed, reboots, faults, accepted, aborted, refused>>
    <3>1. UNCHANGED <<disk, memory, mainVars, reboots, faults, history>>
      BY Zenon DEF Install, Stage
    <3> QED
      BY <3>1
  <2>3. OtherTypes'
    BY <2>1, <2>2, TypeParts DEF OtherTypes
  <2> QED
    BY <2>3 DEF Install, Stage, Goto, Labels, TempLabels
<1>3. NoCall \in CallType /\ NoCall.minor \in 0 .. MaxMinor
  BY NoCallType, VersionsAssumption DEF KnownAt
<1>4. \E c \in CallType : KnownAt("tempMount", c) /\ call' = [call EXCEPT ![t] = c]
  <2>1. CASE Install(t)
    <3>1. PICK p \in Packages, v \in Versions, force \in Forces :
            /\ MayCall(p)
            /\ \E e \in GetLatestMountedApex(p) :
                 /\ Exists(e.image.file)
                 /\ v >= e.image.file.ver
                 /\ call' = [call EXCEPT ![t] =
                      [NoCall EXCEPT !.op = "install", !.new = Upload(p, v), !.force = force,
                                     !.cur = e.image.file, !.ok = TRUE]]
      BY <2>1 DEF Install
    <3>5. PICK e \in GetLatestMountedApex(p) :
            call' = [call EXCEPT ![t] =
              [NoCall EXCEPT !.op = "install", !.new = Upload(p, v), !.force = force,
                             !.cur = e.image.file, !.ok = TRUE]]
      BY <3>1
    <3> DEFINE c == [NoCall EXCEPT !.op = "install", !.new = Upload(p, v), !.force = force,
                                   !.cur = e.image.file, !.ok = TRUE]
    <3>2. e.image.file \in Files /\ Upload(p, v) \in Files /\ force \in BOOLEAN
      BY DatabaseFacts, EntryTypes, PackageTypes, ParametersAssumption, TypeParts
    <3>3. "install" \in Operations
      BY <2>1 DEF Install
    <3>4. c \in CallType /\ KnownAt("tempMount", c)
      BY <1>3, <3>2, <3>3 DEF CallType, KnownAt, InstallLabels, UnloadedLabels, WithEntry, WithTarget
    <3> QED
      BY <3>5, <3>4
  <2>2. CASE Stage(t)
    <3>1. PICK p \in Packages, v \in Versions :
            call' = [call EXCEPT ![t] =
              [NoCall EXCEPT !.op = "stage", !.new = Upload(p, v), !.ok = TRUE]]
      BY <2>2 DEF Stage
    <3> DEFINE c == [NoCall EXCEPT !.op = "stage", !.new = Upload(p, v), !.ok = TRUE]
    <3>2. Upload(p, v) \in Files /\ "stage" \in Operations
      BY <2>2, PackageTypes DEF Stage
    <3>3. c \in CallType /\ KnownAt("tempMount", c)
      BY <1>3, <3>2 DEF CallType, KnownAt, InstallLabels, UnloadedLabels, WithEntry, WithTarget
    <3> QED
      BY <3>1, <3>3
  <2> QED
    BY <2>1, <2>2
<1> QED
  BY <1>1, <1>2, <1>4, Step

-----------------------------------------------------------------------------

LEMMA TypeInit == Init => TypeInv
<1> SUFFICES ASSUME Init PROVE TypeInv
  OBVIOUS
<1>1. NoCall \in CallType /\ KnownAt("idle", NoCall) /\ "idle" \in Labels
  BY NoCallType, VersionsAssumption DEF Labels
<1>2. <<>> \in Seq(Images)
  BY EmptySeq
<1>3. MountedTypeOK
  BY <1>2 DEF Init, MountedTypeOK
<1>4. OtherTypes
  BY ParametersAssumption, VersionsAssumption DEF Init, OtherTypes
<1>5. TypeOK
  BY <1>1, <1>3, <1>4 DEF Init, TypeOK, OtherTypes
<1> QED
  BY <1>1, <1>5 DEF Init, TypeInv

LEMMA TypeNext == TypeInv /\ [Next]_vars => TypeInv'
<1> SUFFICES ASSUME TypeInv, [Next]_vars PROVE TypeInv'
  OBVIOUS
<1>1. CASE UNCHANGED vars
  <2>1. KernelTypeOK' /\ db' \subseteq Entries /\ OtherTypes' /\ UNCHANGED <<pc, call>>
    BY <1>1, TypeParts DEF vars, mounted, disk, memory, mainVars, bounds, history, KernelTypeOK,
       OtherTypes
  <2> QED
    BY <2>1, DeviceStep
<1>2. ASSUME NEW t \in Threads, Install(t) \/ Stage(t) \/ Serve(t)
      PROVE  TypeInv'
  BY <1>2, RequestType, TempMountsType, UnloadType, ActivateNewType, FinishType DEF Serve
<1> QED
  BY <1>1, <1>2, BootType, DeviceType DEF Next

(* Every variable keeps its type; what a call has found or mounted is there *)
(* whenever a later step of it uses it.                                    *)
THEOREM TypeCorrect == Spec => []TypeOK
<1>1. TypeInv => TypeOK
  BY DEF TypeInv
<1> QED
  BY <1>1, TypeInit, TypeNext, PTL DEF Spec

-----------------------------------------------------------------------------
(* Init has back what was unloaded.                                         *)

(* A step of t that stays in the part of an install between unloading and   *)
(* reloading, and keeps the APEX it installs.                              *)
StaysInside(t) ==
  /\ UNCHANGED <<loaded, refused>>
  /\ \E label \in UnloadedLabels : pc' = [pc EXCEPT ![t] = label]
  /\ \E c : c.new = call[t].new /\ call' = [call EXCEPT ![t] = c]

LEMMA InsideGoto ==
  ASSUME TypeInv, NEW t \in Threads, NEW label \in UnloadedLabels, Goto(t, label),
         call' = call, UNCHANGED <<loaded, refused>>
  PROVE  StaysInside(t)
<1>1. call' = [call EXCEPT ![t] = call[t]]
  BY TypeParts
<1> QED
  BY <1>1 DEF StaysInside, Goto

LEMMA InsideError ==
  ASSUME TypeInv, NEW t \in Threads, Error(t), UNCHANGED <<loaded, refused>>
  PROVE  StaysInside(t)
<1> DEFINE c == [call[t] EXCEPT !.ok = FALSE]
<1>1. c.new = call[t].new /\ call' = [call EXCEPT ![t] = c]
  BY TypeParts DEF Error, CallType
<1>2. "reload" \in UnloadedLabels /\ pc' = [pc EXCEPT ![t] = "reload"]
  BY DEF Error, Goto, UnloadedLabels
<1> HIDE DEF c
<1> QED
  BY <1>1, <1>2 DEF StaysInside

LEMMA InsideUnload ==
  ASSUME TypeInv, NEW t \in Threads,
         UnmountActive(t) \/ UnmountActiveFails(t) \/ Forget(t) \/ UnmountId(t) \/ UnmountIdFails(t)
  PROVE  StaysInside(t)
<1> USE DEF mounted, kernel, disk, memory, mainVars, bounds, history
<1>1. UNCHANGED <<loaded, refused>>
  BY DEF UnmountActive, UnmountActiveFails, Forget, UnmountId, UnmountIdFails
<1>2. CASE UnmountActive(t)
  <2>1. PICK e : call' = [call EXCEPT ![t].entry = e]
    BY <1>2 DEF UnmountActive
  <2> DEFINE c == [call[t] EXCEPT !.entry = e]
  <2>2. c.new = call[t].new /\ call' = [call EXCEPT ![t] = c]
    BY <2>1, TypeParts DEF CallType
  <2>3. "forget" \in UnloadedLabels /\ pc' = [pc EXCEPT ![t] = "forget"]
    BY <1>2 DEF UnmountActive, Goto, UnloadedLabels
  <2> HIDE DEF c
  <2> QED
    BY <1>1, <2>2, <2>3 DEF StaysInside
<1>3. CASE UnmountActiveFails(t) \/ UnmountIdFails(t)
  BY <1>1, <1>3, InsideError DEF UnmountActiveFails, UnmountIdFails
<1>4. CASE Forget(t) \/ UnmountId(t)
  <2>1. (Goto(t, "unmountId") \/ Goto(t, "link")) /\ call' = call
    BY <1>4 DEF Forget, UnmountId
  <2> QED
    BY <1>1, <2>1, InsideGoto DEF UnloadedLabels
<1> QED
  BY <1>2, <1>3, <1>4

LEMMA InsideActivate ==
  ASSUME TypeInv, NEW t \in Threads, ActivateNew(t), ~BindAborts(t)
  PROVE  StaysInside(t)
<1> USE DEF mounted, kernel, disk, memory, mainVars, bounds, history
<1>1. CASE Link(t)
  <2> DEFINE c == [call[t] EXCEPT !.target = Target(call[t].new, call[t].minor)]
  <2>1. c.new = call[t].new /\ call' = [call EXCEPT ![t] = c]
    BY <1>1, TypeParts DEF CallType, Link
  <2>2. \E label \in UnloadedLabels : pc' = [pc EXCEPT ![t] = label]
    BY <1>1 DEF Link, Goto, UnloadedLabels
  <2>3. UNCHANGED <<loaded, refused>>
    BY <1>1 DEF Link
  <2> HIDE DEF c
  <2> QED
    BY <2>1, <2>2, <2>3 DEF StaysInside
<1>2. CASE Undo(t)
  <2> DEFINE c == [call[t] EXCEPT !.target = call[t].cur, !.ok = FALSE]
  <2>1. c.new = call[t].new /\ call' = [call EXCEPT ![t] = c]
    BY <1>2, TypeParts DEF CallType, Undo
  <2>2. "activate" \in UnloadedLabels /\ pc' = [pc EXCEPT ![t] = "activate"]
    BY <1>2 DEF Undo, Goto, UnloadedLabels
  <2>3. UNCHANGED <<loaded, refused>>
    BY <1>2 DEF Undo
  <2> HIDE DEF c
  <2> QED
    BY <2>1, <2>2, <2>3 DEF StaysInside
<1>3. CASE Mount(t)
  <2>1. PICK e : call' = [call EXCEPT ![t].entry = e]
    BY <1>3 DEF Mount, MountImage
  <2> DEFINE c == [call[t] EXCEPT !.entry = e]
  <2>2. c.new = call[t].new /\ call' = [call EXCEPT ![t] = c]
    BY <2>1, TypeParts DEF CallType
  <2>3. "add" \in UnloadedLabels /\ pc' = [pc EXCEPT ![t] = "add"] /\ UNCHANGED <<loaded, refused>>
    BY <1>3 DEF Mount, Goto, UnloadedLabels
  <2> HIDE DEF c
  <2> QED
    BY <2>2, <2>3 DEF StaysInside
<1>4. CASE Activate(t) \/ MountFails(t) \/ Add(t) \/ Bind(t) \/ BindFails(t)
  <2>1. \E label \in UnloadedLabels : Goto(t, label)
    BY <1>4 DEF Activate, MountFails, Add, Bind, BindFails, Activated, ActivationFailed,
       UnloadedLabels
  <2>2. call' = call /\ UNCHANGED <<loaded, refused>>
    BY <1>4 DEF Activate, MountFails, Add, Bind, BindFails
  <2> QED
    BY <2>1, <2>2, InsideGoto
<1> QED
  BY <1>1, <1>2, <1>3, <1>4 DEF ActivateNew

LEMMA InsideFinish ==
  ASSUME TypeInv, NEW t \in Threads, Accept(t) \/ CollectInfo(t) \/ WriteInfo(t)
  PROVE  StaysInside(t)
<1> USE DEF mounted, kernel, disk, memory, mainVars, bounds, history
<1>1. CASE CollectInfo(t)
  <2> DEFINE c == [call[t] EXCEPT !.list = GetActivePackages]
  <2>1. c.new = call[t].new /\ call' = [call EXCEPT ![t] = c]
    BY <1>1, TypeParts DEF CallType, CollectInfo
  <2>2. "write" \in UnloadedLabels /\ pc' = [pc EXCEPT ![t] = "write"] /\ UNCHANGED <<loaded, refused>>
    BY <1>1 DEF CollectInfo, Goto, UnloadedLabels
  <2> HIDE DEF c
  <2> QED
    BY <2>1, <2>2 DEF StaysInside
<1>2. CASE Accept(t) \/ WriteInfo(t)
  <2>1. \E label \in UnloadedLabels : Goto(t, label)
    BY <1>2 DEF Accept, WriteInfo, UnloadedLabels
  <2>2. call' = call /\ UNCHANGED <<loaded, refused>>
    BY <1>2 DEF Accept, WriteInfo
  <2> QED
    BY <2>1, <2>2, InsideGoto
<1> QED
  BY <1>1, <1>2

(* A step of t outside that part changes nothing of the other threads'.     *)
StaysOutside(t) ==
  /\ pc[t] \notin UnloadedLabels
  /\ UNCHANGED <<loaded, refused>>
  /\ \E label : pc' = [pc EXCEPT ![t] = label]
  /\ \E c : call' = [call EXCEPT ![t] = c]

LEMMA OutsideTempMounts ==
  ASSUME TypeInv, NEW t \in Threads, TempMounts(t), ~AddAborts(t)
  PROVE  StaysOutside(t)
<1> USE DEF mounted, kernel, disk, memory, mainVars, bounds, history
<1>1. pc[t] \notin UnloadedLabels
  BY DEF TempMounts, TempMount, TempMountFails, TempAdd, UnmountTemp, TempRemove, DropFind,
     DropRemove, UnloadedLabels
<1>2. UNCHANGED <<loaded, refused>>
  BY DEF TempMounts, TempMount, TempMountFails, TempAdd, UnmountTemp, TempRemove, DropFind,
     DropRemove
<1>3. \E label : pc' = [pc EXCEPT ![t] = label]
  BY DEF TempMounts, TempMount, TempMountFails, TempAdd, UnmountTemp, TempRemove, DropFind,
     DropRemove, Goto, Return
<1>4. call' = call => call' = [call EXCEPT ![t] = call[t]]
  BY TypeParts
<1>5. CASE TempMount(t)
  <2>1. PICK e : call' = [call EXCEPT ![t].entry = e]
    BY <1>5 DEF TempMount, MountImage
  <2> QED
    BY <1>1, <1>2, <1>3, <2>1 DEF StaysOutside
<1>6. CASE TempMountFails(t) \/ TempRemove(t) \/ UnmountTemp(t) \/ DropRemove(t)
  <2>1. call' = call \/ call' = [call EXCEPT ![t] = NoCall]
    BY <1>6 DEF TempMountFails, TempRemove, UnmountTemp, DropRemove, Return
  <2> QED
    BY <1>1, <1>2, <1>3, <1>4, <2>1 DEF StaysOutside
<1>7. CASE TempAdd(t)
  <2>1. call' = call \/ call' = [call EXCEPT ![t].ok = FALSE]
    BY <1>7 DEF TempAdd
  <2> QED
    BY <1>1, <1>2, <1>3, <1>4, <2>1 DEF StaysOutside
<1>8. CASE DropFind(t)
  <2>1. \/ call' = [call EXCEPT ![t] = NoCall]
        \/ \E e : call' = [call EXCEPT ![t].entry = e]
    BY <1>8 DEF DropFind, Return
  <2> QED
    BY <1>1, <1>2, <1>3, <2>1 DEF StaysOutside
<1> QED
  BY <1>5, <1>6, <1>7, <1>8 DEF TempMounts

LEMMA OutsideCalls ==
  ASSUME TypeInv, NEW t \in Threads, Install(t) \/ Stage(t) \/ ComputePackageIdMinor(t)
  PROVE  StaysOutside(t)
<1> USE DEF mounted, kernel, disk, memory, mainVars, bounds, history
<1>1. CASE ComputePackageIdMinor(t)
  <2>1. pc[t] \notin UnloadedLabels /\ UNCHANGED <<loaded, refused>>
    BY <1>1 DEF ComputePackageIdMinor, UnloadedLabels
  <2>2. \E label : pc' = [pc EXCEPT ![t] = label]
    BY <1>1 DEF ComputePackageIdMinor, Goto, Return
  <2>3. \/ call' = [call EXCEPT ![t] = NoCall]
        \/ \E m : call' = [call EXCEPT ![t].minor = m]
    BY <1>1 DEF ComputePackageIdMinor, Return
  <2> QED
    BY <2>1, <2>2, <2>3 DEF StaysOutside
<1>2. CASE Install(t) \/ Stage(t)
  <2>1. pc[t] = "idle" /\ UNCHANGED <<memory, history>> /\ Goto(t, "tempMount")
    BY <1>2, Zenon DEF Install, Stage
  <2>2. \E c : call' = [call EXCEPT ![t] = c]
    BY <1>2, Zenon DEF Install, Stage
  <2> QED
    BY <2>1, <2>2 DEF StaysOutside, Goto, UnloadedLabels
<1> QED
  BY <1>1, <1>2

LEMMA UnloadedFrame ==
  ASSUME TypeInv, UnloadedOnlyWhileInstalling, NEW t \in Threads, StaysInside(t) \/ StaysOutside(t)
  PROVE  UnloadedOnlyWhileInstalling'
<1>1. \A u \in Threads \ {t} : pc'[u] = pc[u] /\ call'[u] = call[u]
  BY TypeParts DEF StaysInside, StaysOutside, TypeInv, TypeOK
<1>2. pc[t] \in UnloadedLabels => pc'[t] \in UnloadedLabels /\ call'[t].new = call[t].new
  BY TypeParts DEF StaysInside, StaysOutside, TypeInv, TypeOK
<1>3. UNCHANGED <<loaded, refused>>
  BY DEF StaysInside, StaysOutside
<1>4. \A u \in Threads : pc[u] \in UnloadedLabels =>
        pc'[u] \in UnloadedLabels /\ call'[u].new = call[u].new
  BY <1>1, <1>2
<1> QED
  BY <1>3, <1>4 DEF UnloadedOnlyWhileInstalling, Package

(* Unloading is the first step of that part.                                *)
LEMMA UnloadedUnload ==
  ASSUME TypeInv, UnloadedOnlyWhileInstalling, NEW t \in Threads, UnloadApexFromInit(t)
  PROVE  UnloadedOnlyWhileInstalling'
<1>1. \A u \in Threads : pc[u] \in UnloadedLabels =>
        pc'[u] \in UnloadedLabels /\ call'[u].new = call[u].new
  BY TypeParts DEF UnloadApexFromInit, Goto, Return, UnloadedLabels, TypeInv, TypeOK
<1>2. \/ UNCHANGED <<loaded, refused>>
      \/ /\ loaded' = loaded \ {Package(t)} /\ refused' = refused \ {Package(t)}
         /\ pc'[t] = "unmount" /\ call'[t].new = call[t].new
  BY TypeParts DEF UnloadApexFromInit, Goto, TypeInv, TypeOK
<1>3. "unmount" \in UnloadedLabels
  BY DEF UnloadedLabels
<1> QED
  BY <1>1, <1>2, <1>3 DEF UnloadedOnlyWhileInstalling, Package

(* Reloading is the last.                                                  *)
LEMMA UnloadedReload ==
  ASSUME TypeInv, UnloadedOnlyWhileInstalling, NEW t \in Threads, Reload(t)
  PROVE  UnloadedOnlyWhileInstalling'
<1>1. \A u \in Threads \ {t} : pc'[u] = pc[u] /\ call'[u] = call[u]
  BY TypeParts DEF Reload, Return, TypeInv, TypeOK
<1>2. loaded \subseteq loaded' /\ refused \subseteq refused' /\ Package(t) \in loaded' \cup refused'
  BY DEF Reload
<1> QED
  BY <1>1, <1>2 DEF UnloadedOnlyWhileInstalling, Package

LEMMA UnloadedNext ==
  TypeInv /\ UnloadedOnlyWhileInstalling /\ [Next]_vars => UnloadedOnlyWhileInstalling'
<1> USE DEF mounted, kernel, disk, memory, mainVars, bounds, history
<1> SUFFICES ASSUME TypeInv, UnloadedOnlyWhileInstalling, [Next]_vars
             PROVE  UnloadedOnlyWhileInstalling'
  OBVIOUS
<1>1. ASSUME UNCHANGED <<loaded, refused, pc, call>> PROVE UnloadedOnlyWhileInstalling'
  BY <1>1 DEF UnloadedOnlyWhileInstalling, Package
<1>2. CASE UNCHANGED vars \/ Boot \/ Release \/ CleanUp
  BY <1>1, <1>2 DEF vars, Boot, Release, CleanUp, ScanFiles, CheckFile, UnlinkInactive, CleanedUp
<1>3. ASSUME PowerOff PROVE UnloadedOnlyWhileInstalling'
  BY <1>3 DEF PowerOff, UnloadedOnlyWhileInstalling
<1>4. ASSUME NEW t \in Threads, Install(t) \/ Stage(t) \/ Serve(t)
      PROVE  UnloadedOnlyWhileInstalling'
  <2>1. CASE AddAborts(t) \/ BindAborts(t)
    BY <1>3, <2>1 DEF AddAborts, BindAborts, Abort
  <2>2. CASE Install(t) \/ Stage(t) \/ (TempMounts(t) /\ ~AddAborts(t))
    BY <2>2, OutsideCalls, OutsideTempMounts, UnloadedFrame
  <2>3. CASE Unload(t)
    BY <2>3, OutsideCalls, InsideUnload, UnloadedFrame, UnloadedUnload DEF Unload
  <2>4. CASE ActivateNew(t) /\ ~BindAborts(t)
    BY <2>4, InsideActivate, UnloadedFrame
  <2>5. CASE Finish(t)
    BY <2>5, InsideFinish, UnloadedFrame, UnloadedReload DEF Finish
  <2> QED
    BY <1>4, <2>1, <2>2, <2>3, <2>4, <2>5 DEF Serve
<1> QED
  BY <1>2, <1>3, <1>4 DEF Next, PowerLoss

(* Whatever fails and whatever overlaps, a package that init has unloaded   *)
(* is one that a call is installing and has still to load again, or one    *)
(* that init refused to load: no return of InstallPackage after            *)
(* UnloadApexFromInit leaves the request out (apexd.cpp 3865 to 3871).      *)
THEOREM UnloadedWhileInstalling == Spec => []UnloadedOnlyWhileInstalling
<1>1. Init => UnloadedOnlyWhileInstalling
  BY DEF Init, UnloadedOnlyWhileInstalling
<1> QED
  BY <1>1, TypeInit, TypeNext, UnloadedNext, PTL DEF Spec
=============================================================================
