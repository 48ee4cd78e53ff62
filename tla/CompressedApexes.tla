-------------------------- MODULE CompressedApexes --------------------------
(***************************************************************************)
(* Compressed APEXes (CAPEX) across boots and A/B updates.  A pre-installed *)
(* APEX may be compressed: before it is activated its original is extracted *)
(* to /data/apex/decompressed and checked against the CAPEX.  For an update *)
(* update_engine asks apexd to reserve space, writes the other slot and has *)
(* a second apexd run in a chroot of it, on the same /data, which extracts   *)
(* ahead to *.ota.apex files; the first boot of that slot renames them.      *)
(*                                                                         *)
(* The files on /data are shared by the two systems and by two processes,   *)
(* and power may be lost at any step.  A file that holds one decompressed   *)
(* APEX takes one unit of space.  Staged sessions are here only as the       *)
(* version they leave in /data/apex/active.                                 *)
(***************************************************************************)
EXTENDS Integers, FiniteSets

CONSTANTS
  Packages,         \* names of packages
  SharedLibs,       \* those that provide shared libraries
  Images,           \* Images[i][p]: the pre-installed APEX of p in image i
  FirstImage,       \* the image the device starts with
  DataVersions,     \* versions that staged sessions install
  Capacity,         \* units of space
  SpaceIsHeld,      \* may be TRUE: resize_file takes blocks for what it adds
  OthersTake,       \* bound: units that other files may take
  MaxUpdates,       \* bound: calls to reserve space
  MaxBoots,         \* bound
  MaxChanges,       \* bound: changes in /data/apex/active
  MaxFaults         \* bound: reservations, renames, extractions and mounts that fail

(* No file; one cut short by power loss or by an error.                     *)
Nothing == 0
Partial == -1

PreInstalled == UNION {{Images[i][p] : p \in Packages} : i \in DOMAIN Images}
PreVersions == {a.ver : a \in PreInstalled}
Builds == {a.build : a \in PreInstalled}

(* A package that an image does not have is version 0 of it.  An APEX that   *)
(* provides shared libraries and is compressed does not open.               *)
ASSUME ImagesAssumption ==
  /\ FirstImage \in DOMAIN Images
  /\ \A i \in DOMAIN Images : Images[i] \in [Packages ->
       [ver : Nat, build : Nat \ {0}, compressed : BOOLEAN]]
  /\ \A i \in DOMAIN Images, p \in SharedLibs : ~Images[i][p].compressed
ASSUME BoundsAssumption ==
  /\ SharedLibs \subseteq Packages /\ SpaceIsHeld \subseteq BOOLEAN
  /\ DataVersions \subseteq Nat \ {0}
  /\ IsFiniteSet(Packages) /\ IsFiniteSet(DOMAIN Images)
  /\ {Capacity, MaxUpdates, MaxBoots, MaxChanges, MaxFaults} \cup OthersTake \subseteq Nat

Kinds == {"decompressed", "ota"}              \* suffixes of the file names
Mounts == [from : {"system", "data"} \cup Kinds, ver : PreVersions \cup DataVersions, build : Builds \cup {Nothing}]
NoImage == "none"
NoEstimate == [for |-> NoImage, size |-> 0, base |-> 0, firm |-> FALSE]
Idle == [mode |-> "idle", image |-> NoImage, round |-> 0, chosen |-> {},
         todo |-> {}, at |-> {}, ready |-> {}]

VARIABLES
  (* On disk.                                                              *)
  file,       \* file[k][p][v]: the build in <decompression_dir>/p@v.k.apex
  active,     \* active[p]: version in /data/apex/active, or Nothing
  reserved,   \* size of ota_reserved/full.tmp
  taken,      \* units other files take
  slot,       \* image of the slot that runs, or runs next
  other,      \* image of the other slot, if it is bootable
  (* In memory.                                                            *)
  phase,      \* scan | boot | up | done (boot completed, cleaned up)
  mounted,    \* mounted[p]: what apexd has activated of p
  chroot,     \* the same in the chroot of the other slot
  data,       \* data_store_: the version of the data APEX found at the start
  job,        \* activation in progress, at boot or in the chroot
  (* History and bounds.                                                   *)
  held,       \* whether this file system takes blocks for a resized file
  estimate,   \* what was computed for the update, and whether it still counts
  failed,     \* failed[p]: why p has no APEX in this boot
  updates, boots, changes, faults

disk == <<file, active, reserved, taken, slot, other>>
memory == <<phase, mounted, chroot, data, job>>
history == <<held, estimate, failed, updates, boots, changes, faults>>
vars == <<disk, memory, history>>

---------------------------------------------------------------------------
(* ApexFileRepository                                                       *)

HasPreInstalledVersion(i, p) == Images[i][p].ver > 0
HasDataVersion(store, p) == store[p] # Nothing

(* A data APEX counts only if its package is pre-installed.                 *)
AddDataApex(i) ==
  [p \in Packages |-> IF HasPreInstalledVersion(i, p) THEN active[p] ELSE Nothing]

(* The higher version, the data APEX among equals; of the packages that      *)
(* provide shared libraries both, unless the data APEX covers the other.    *)
SelectApexForActivation(i, store) ==
  LET Pre(p) == Images[i][p].ver
      Has(p) == HasDataVersion(store, p)
  IN {<<p, "system">> : p \in {q \in Packages : HasPreInstalledVersion(i, q)
        /\ \/ ~Has(q)
           \/ Pre(q) > store[q]
           \/ q \in SharedLibs /\ Pre(q) # store[q]}} \cup
     {<<p, "data">> : p \in {q \in Packages : HasPreInstalledVersion(i, q)
        /\ Has(q) /\ store[q] >= Pre(q)}}

Compressed(i, chosen) ==
  {p \in Packages : <<p, "system">> \in chosen /\ Images[i][p].compressed}

---------------------------------------------------------------------------
(* Space                                                                    *)

FilesOf(f) == {x \in Kinds \X Packages \X PreVersions : f[x[1]][x[2]][x[3]] # Nothing}
Free(f, r) == Capacity - taken - Cardinality(FilesOf(f)) - (IF held THEN r ELSE 0)

(* mutant: a package that was not compressed needs no space *)
AllocateForCompressedOnly(p, version) ==
  \/ ~HasPreInstalledVersion(slot, p)
  \/ ~HasDataVersion(data, p) /\ version # Images[slot][p].ver
  \/ HasDataVersion(data, p) /\ version > data[p]

(* Whether the new slot will extract p: it is compared with what this apexd *)
(* found when it started.                                                   *)
ShouldAllocateSpaceForDecompression(p, version) ==
  \/ ~HasPreInstalledVersion(slot, p)
  \/ ~HasDataVersion(data, p) /\ ~Images[slot][p].compressed
  \/ ~HasDataVersion(data, p) /\ version # Images[slot][p].ver
  \/ HasDataVersion(data, p) /\ version > data[p]

CalculateSizeForCompressedApex(i) ==
  Cardinality({p \in Packages : /\ Images[i][p].compressed
                                /\ ShouldAllocateSpaceForDecompression(p, Images[i][p].ver)})

WithoutOta(f) == [f EXCEPT !["ota"] = [p \in Packages |-> [v \in PreVersions |-> Nothing]]]
CanServe == phase \in {"up", "done"}

(* The estimate sees versions only, and data APEXes as they were when apexd *)
(* started: it can be right for an update without rebuilt APEXes, as long as *)
(* the data APEXes found then are the active ones.                          *)
Foreseeable(i) ==
  /\ \A p \in Packages :
       /\ Images[i][p].ver = Images[slot][p].ver => Images[i][p].build = Images[slot][p].build
       /\ data[p] = active[p]
       /\ HasDataVersion(data, p) => \E m \in mounted[p] : m.from = "data"
  /\ \A p \in Packages : failed[p] = "no"

(* reserveSpaceForCompressedApex for an update to image i, which is then     *)
(* written to the other slot.  What an earlier update left is removed.      *)
ReserveSpace(i) ==
  LET size == CalculateSizeForCompressedApex(i)
      f == WithoutOta(file)
  IN /\ CanServe /\ job = Idle /\ updates < MaxUpdates /\ i # slot
     /\ (held => size <= Free(f, 0))
     /\ file' = f /\ reserved' = size
     /\ other' = i
     /\ estimate' = [for |-> i, size |-> size, base |-> Cardinality(FilesOf(f)),
                     firm |-> Foreseeable(i)]
     /\ updates' = updates + 1
     /\ UNCHANGED <<active, taken, slot, memory, held, failed, boots, changes, faults>>

(* A reservation that fails has removed the *.ota.apex files already, and    *)
(* unless full.tmp cannot be opened that one too.  update_engine then does   *)
(* not write the other slot.                                                *)
ReserveSpaceFails(i) ==
  LET size == CalculateSizeForCompressedApex(i)
      f == WithoutOta(file)
  IN /\ CanServe /\ job = Idle /\ updates < MaxUpdates /\ i # slot /\ size > 0
     /\ \/ held /\ size > Free(f, 0) /\ reserved' = 0 /\ faults' = faults
        \/ faults < MaxFaults /\ faults' = faults + 1 /\ reserved' \in {0, reserved}
     /\ file' = f
     /\ updates' = updates + 1
     /\ UNCHANGED <<active, taken, slot, other, memory, held, estimate, failed, boots, changes>>

(* The same call with an empty list: the update is cancelled.  The chroot   *)
(* may still be at work.                                                    *)
CancelUpdate ==
  /\ CanServe /\ other # NoImage /\ estimate.for = other
  /\ file' = WithoutOta(file) /\ reserved' = 0
  /\ other' = NoImage
  /\ estimate' = NoEstimate
  /\ UNCHANGED <<active, taken, slot, memory, held, failed, updates, boots, changes, faults>>

(* The rest of the system stores or deletes something.                      *)
UseSpace ==
  /\ taken' \in OthersTake \ {taken}
  /\ taken' - taken <= Free(file, reserved)
  /\ UNCHANGED <<file, active, reserved, slot, other, memory, history>>

---------------------------------------------------------------------------
(* ProcessCompressedApex: one CAPEX at a time, in a boot or in the chroot   *)

InChroot == job.mode = "chroot"
IsBoot == job.mode = "boot"

OpensOnly(k, p) == file[k][p][Images[job.image][p].ver] > 0       \* mutant: whatever build
OneTarget == "decompressed"                              \* mutant: also in the chroot

(* The CAPEX the job is about to process, and what the file is worth to it: *)
(* a partial file does not open, another build has another root digest.     *)
Capex(p) == Images[job.image][p]
ValidateDecompressedApex(k, p) == file[k][p][Capex(p).ver] = Capex(p).build
Target == IF InChroot THEN "ota" ELSE "decompressed"

GivenUpHalfway(p) == [job EXCEPT !.todo = @ \ {p}]       \* mutant: the next one never starts
Ready(p, k) == [job EXCEPT !.todo = @ \ {p}, !.at = {}, !.ready = @ \cup {<<p, k>>}]
GivenUp(p) == [job EXCEPT !.todo = @ \ {p}, !.at = {}]
FailFor(p, why) == failed' = IF IsBoot THEN [failed EXCEPT ![p] = why] ELSE failed

CanProcess(p) == p \in job.todo /\ job.at = {}

(* What was extracted before is still good.                                 *)
Reuse(p) ==
  /\ CanProcess(p) /\ ValidateDecompressedApex("decompressed", p)
  /\ job' = Ready(p, "decompressed")
  /\ UNCHANGED <<disk, phase, mounted, chroot, data, history>>

(* What the chroot extracted is: the chroot uses it as it is, a boot - the   *)
(* slot has been switched - renames it, over what was not valid.            *)
ReuseOta(p) ==
  LET v == Capex(p).ver
  IN /\ CanProcess(p) /\ ~ValidateDecompressedApex("decompressed", p)
     /\ ValidateDecompressedApex("ota", p)
     /\ IF InChroot
        THEN file' = file /\ job' = Ready(p, "ota")
        ELSE /\ file' = [file EXCEPT !["decompressed"][p][v] = file["ota"][p][v],
                                     !["ota"][p][v] = Nothing]
             /\ job' = Ready(p, "decompressed")
     /\ UNCHANGED <<active, reserved, taken, slot, other, phase, mounted, chroot, data, history>>

(* All of the reserved space is released, and the extraction starts: over   *)
(* what is not valid, but in the chroot not over the file that the running   *)
(* system may use.                                                         *)
StartDecompress(p, f) ==
  LET v == Capex(p).ver
      cleared == [f EXCEPT ![Target][p][v] = Nothing]
  IN /\ reserved' = 0
     /\ IF Free(cleared, 0) > 0
        THEN /\ file' = [cleared EXCEPT ![Target][p][v] = Partial]
             /\ job' = [job EXCEPT !.at = {p}]
             /\ UNCHANGED failed
        ELSE /\ file' = cleared
             /\ job' = GivenUp(p)
             /\ FailFor(p, "space")
     /\ UNCHANGED <<active, taken, slot, other, phase, mounted, chroot, data,
                    held, updates, boots, changes>>

BeginDecompress(p) ==
  /\ CanProcess(p)
  /\ \A k \in Kinds : ~ValidateDecompressedApex(k, p)
  /\ StartDecompress(p, file)
  /\ UNCHANGED <<estimate, faults>>

(* A boot would rename what the chroot extracted, and something fails.      *)
RenameGoesWrong(p) ==
  /\ CanProcess(p) /\ IsBoot /\ ~ValidateDecompressedApex("decompressed", p)
  /\ ValidateDecompressedApex("ota", p)
  /\ faults < MaxFaults /\ faults' = faults + 1

(* The file keeps its name, and another one is extracted beside it: one     *)
(* more than anybody counted on.                                           *)
RenameFails(p) ==
  /\ RenameGoesWrong(p)
  /\ StartDecompress(p, file)
  /\ estimate' = [estimate EXCEPT !.firm = FALSE]

(* Under its new name it does not validate: it is removed, and extracted.    *)
RenamedIsInvalid(p) ==
  /\ RenameGoesWrong(p)
  /\ StartDecompress(p, [file EXCEPT !["ota"][p][Capex(p).ver] = Nothing])
  /\ UNCHANGED estimate

(* The file is labelled and validated, which fails if it is gone meanwhile. *)
EndDecompress(p) ==
  LET v == Capex(p).ver
      there == file[Target][p][v] # Nothing
  IN /\ p \in job.at
     /\ IF there THEN /\ file' = [file EXCEPT ![Target][p][v] = Capex(p).build]
                      /\ job' = Ready(p, Target)
                 ELSE UNCHANGED file /\ job' = GivenUp(p)
     /\ UNCHANGED <<active, reserved, taken, slot, other, phase, mounted, chroot, data, history>>

(* An error in the extraction: the guards remove the file.                  *)
FailDecompress(p) ==
  /\ p \in job.at /\ faults < MaxFaults
  /\ file' = [file EXCEPT ![Target][p][Capex(p).ver] = Nothing]
  /\ job' = GivenUp(p)
  /\ FailFor(p, "fault")
  /\ faults' = faults + 1
  /\ UNCHANGED <<active, reserved, taken, slot, other, phase, mounted, chroot, data,
                 held, estimate, updates, boots, changes>>

---------------------------------------------------------------------------
(* Activation                                                               *)

(* What a job mounts: the chosen APEXes that are not compressed, and what    *)
(* stands for those that are.                                               *)
ToActivate == {x \in job.chosen : x[2] = "data" \/ ~Images[job.image][x[1]].compressed}
                \cup job.ready
Gone(p, from) ==
  \/ from = "data" /\ active[p] = Nothing
  \/ from \in Kinds /\ file[from][p][Capex(p).ver] = Nothing
MountOf(p, from) ==
  CASE from = "data"   -> [from |-> from, ver |-> active[p], build |-> Nothing]
    [] from = "system" -> [from |-> from, ver |-> Capex(p).ver, build |-> Capex(p).build]
    [] from \in Kinds   -> [from |-> from, ver |-> Capex(p).ver,
                           build |-> file[from][p][Capex(p).ver]]
With(m, good) == [p \in Packages |-> m[p] \cup {MountOf(p, x[2]) : x \in {y \in good : y[1] = p}}]
Job(mode, image, round, chosen) ==
  [mode |-> mode, image |-> image, round |-> round, chosen |-> chosen,
   todo |-> Compressed(image, chosen), at |-> {}, ready |-> {}]

(* mutant: a compressed APEX is no fallback *)
FallBackUncompressed(bad, m) ==
  {<<p, "system">> : p \in {q \in Packages \ SharedLibs : <<q, "data">> \in bad /\ m[q] = {}
                             /\ ~Images[slot][q].compressed}}

(* The packages of which an update failed and nothing else is active: for    *)
(* them ActivateMissingApexes takes the pre-installed APEX.                 *)
FallBack(bad, m) ==
  {<<p, "system">> : p \in {q \in Packages \ SharedLibs : <<q, "data">> \in bad /\ m[q] = {}}}

(* ActivateApexPackages; `bad` are those that fail.  After the first round   *)
(* with a failure there is a second one for the missing packages.           *)
Activate(bad) ==
  LET now == With(IF IsBoot THEN mounted ELSE chroot, ToActivate \ bad)
      missing == FallBack(bad, now)
      hopeless == {p \in Packages : <<p, "data">> \in bad => p \in SharedLibs} \cap {x[1] : x \in bad}
  IN /\ job.mode # "idle" /\ job.round < 3 /\ job.todo = {} /\ job.at = {}
     /\ LET gone == {x \in ToActivate : Gone(x[1], x[2])}
        IN \/ bad = gone /\ faults' = faults
           \/ /\ faults < MaxFaults /\ faults' = faults + 1
              /\ bad \subseteq ToActivate /\ gone \subseteq bad
              /\ Cardinality(bad \ gone) = 1
     /\ IF IsBoot THEN mounted' = now /\ chroot' = chroot
                  ELSE chroot' = now /\ mounted' = mounted
     /\ failed' = IF IsBoot THEN [p \in Packages |-> IF p \in hopeless THEN "fault" ELSE failed[p]]
                            ELSE failed
     /\ estimate' = [estimate EXCEPT !.firm = @ /\ bad = {}]
     /\ IF job.round = 1 /\ bad # {}
        THEN job' = Job(job.mode, job.image, 2, missing) /\ phase' = phase
        ELSE IF IsBoot THEN job' = Idle /\ phase' = "up"
                       ELSE job' = [job EXCEPT !.round = 3] /\ phase' = phase
     /\ UNCHANGED <<disk, data, held, updates, boots, changes>>

(* OnOtaChrootBootstrap: a process of its own, with its own repository.      *)
OnOtaChrootBootstrap ==
  /\ CanServe /\ job = Idle /\ other # NoImage /\ other = estimate.for
  /\ job' = Job("chroot", other, 1, SelectApexForActivation(other, AddDataApex(other)))
  /\ UNCHANGED <<disk, phase, mounted, chroot, data, history>>

(* otapreopt_chroot is done and unmounts everything.                        *)
LeaveChroot ==
  /\ InChroot /\ job.round = 3
  /\ job' = Idle /\ chroot' = [p \in Packages |-> {}]
  /\ UNCHANGED <<disk, phase, mounted, data, history>>

---------------------------------------------------------------------------
(* Boot                                                                     *)

(* A reboot or a loss of power.  It may switch to the slot of the update, or *)
(* back when the update does not work: that slot is then not used again.    *)
Reboot(switch) ==
  /\ boots < MaxBoots
  /\ switch => other # NoImage
  /\ IF switch THEN /\ slot' = other
                    /\ other' = IF slot = estimate.for THEN NoImage ELSE slot
               ELSE UNCHANGED <<slot, other>>
  /\ estimate' = [estimate EXCEPT !.firm = @ /\ ~(switch /\ slot = estimate.for)]
  /\ phase' = "scan" /\ job' = Idle
  /\ mounted' = [p \in Packages |-> {}] /\ chroot' = [p \in Packages |-> {}]
  /\ data' = [p \in Packages |-> Nothing] /\ failed' = [p \in Packages |-> "no"]
  /\ boots' = boots + 1
  /\ UNCHANGED <<file, active, reserved, taken, held, updates, changes, faults>>

(* ScanStagedSessionsDirAndStage, or a revert: the data APEX becomes another *)
(* one, or none.                                                           *)
ChangeActive(p, v) ==
  /\ phase = "scan" /\ changes < MaxChanges
  /\ v \in DataVersions \cup {Nothing} /\ v # active[p]
  /\ HasPreInstalledVersion(slot, p)
  /\ active' = [active EXCEPT ![p] = v]
  /\ estimate' = [estimate EXCEPT !.firm = FALSE]
  /\ changes' = changes + 1
  /\ UNCHANGED <<file, reserved, taken, slot, other, memory, held, failed, updates, boots, faults>>

(* OnStart, up to the activation.                                           *)
OnStart ==
  /\ phase = "scan" /\ job = Idle
  /\ data' = AddDataApex(slot)
  /\ job' = Job("boot", slot, 1, SelectApexForActivation(slot, AddDataApex(slot)))
  /\ phase' = "boot"
  /\ UNCHANGED <<disk, mounted, chroot, history>>

(* mutant: what was extracted ahead goes too *)
RemoveAllInactive ==
  /\ phase = "up" /\ phase' = "done"
  /\ active' = [p \in Packages |->
       IF \E m \in mounted[p] : m.from = "data" /\ m.ver = active[p] THEN active[p] ELSE Nothing]
  /\ file' = [k \in Kinds |-> [p \in Packages |-> [v \in PreVersions |->
       IF \E m \in mounted[p] : m.from = k /\ m.ver = v THEN file[k][p][v] ELSE Nothing]]]
  /\ UNCHANGED <<reserved, taken, slot, other, mounted, chroot, data, job, history>>

(* BootCompletedCleanup.                                                    *)
RemoveInactiveDataApex ==
  /\ phase = "up" /\ phase' = "done"
  /\ active' = [p \in Packages |->
       IF \E m \in mounted[p] : m.from = "data" /\ m.ver = active[p] THEN active[p] ELSE Nothing]
  /\ file' = [file EXCEPT !["decompressed"] = [p \in Packages |-> [v \in PreVersions |->
       IF \E m \in mounted[p] : m.from = "decompressed" /\ m.ver = v
       THEN file["decompressed"][p][v] ELSE Nothing]]]
  /\ UNCHANGED <<reserved, taken, slot, other, mounted, chroot, data, job, history>>

(* apexd exits when nobody uses it and is started again on demand.          *)
InitializeDataApex ==
  /\ phase = "done" /\ data' = AddDataApex(slot)
  /\ UNCHANGED <<disk, phase, mounted, chroot, job, history>>

---------------------------------------------------------------------------
Init ==
  /\ file = [k \in Kinds |-> [p \in Packages |-> [v \in PreVersions |-> Nothing]]]
  /\ active = [p \in Packages |-> Nothing]
  /\ reserved = 0 /\ taken = 0
  /\ slot = FirstImage /\ other = NoImage
  /\ phase = "scan" /\ job = Idle
  /\ mounted = [p \in Packages |-> {}] /\ chroot = [p \in Packages |-> {}]
  /\ data = [p \in Packages |-> Nothing]
  /\ held \in SpaceIsHeld
  /\ estimate = NoEstimate
  /\ failed = [p \in Packages |-> "no"]
  /\ updates = 0 /\ boots = 0 /\ changes = 0 /\ faults = 0

ProcessCompressedApex ==
  \E p \in Packages : \/ Reuse(p) \/ ReuseOta(p) \/ BeginDecompress(p)
                      \/ RenameFails(p) \/ RenamedIsInvalid(p)
                      \/ EndDecompress(p) \/ FailDecompress(p)

Next ==
  \/ \E i \in DOMAIN Images : ReserveSpace(i) \/ ReserveSpaceFails(i)
  \/ CancelUpdate \/ UseSpace
  \/ ProcessCompressedApex
  \/ \E bad \in SUBSET ToActivate : Activate(bad)
  \/ OnOtaChrootBootstrap \/ LeaveChroot
  \/ \E switch \in BOOLEAN : Reboot(switch)
  \/ \E p \in Packages, v \in DataVersions \cup {Nothing} : ChangeActive(p, v)
  \/ OnStart \/ RemoveInactiveDataApex \/ InitializeDataApex

Spec == Init /\ [][Next]_vars

---------------------------------------------------------------------------
(* Properties                                                               *)

(* The variables have their types.                                          *)
TypeOK ==
  /\ file \in [Kinds -> [Packages -> [PreVersions -> Builds \cup {Nothing, Partial}]]]
  /\ active \in [Packages -> DataVersions \cup {Nothing}]
  /\ data \in [Packages -> DataVersions \cup {Nothing}]
  /\ reserved \in Nat /\ taken \in Nat
  /\ slot \in DOMAIN Images /\ other \in DOMAIN Images \cup {NoImage}
  /\ phase \in {"scan", "boot", "up", "done"}
  /\ mounted \in [Packages -> SUBSET Mounts] /\ chroot \in [Packages -> SUBSET Mounts]
  /\ job.mode \in {"idle", "boot", "chroot"} /\ job.at \subseteq job.todo
  /\ Cardinality(job.at) <= 1
  /\ job.ready \subseteq Packages \X Kinds
  /\ failed \in [Packages -> {"no", "space", "fault"}]
  /\ {estimate.size, estimate.base, updates, boots, changes, faults} \subseteq Nat

(* Neither system activates a decompressed file that is not, build for       *)
(* build, what the CAPEX of its own image holds: not one left by the other   *)
(* slot, by an earlier update, by another process or by power loss          *)
(* (ProcessCompressedApex, ValidateDecompressedApex).                       *)
ActiveIsValid ==
  \A p \in Packages :
    /\ \A m \in mounted[p] : m.from \in Kinds =>
         m.ver = Images[slot][p].ver /\ m.build = Images[slot][p].build
    /\ \A m \in chroot[p] : m.from \in Kinds =>
         m.ver = Images[job.image][p].ver /\ m.build = Images[job.image][p].build

(* No file that an active APEX of the running system is mounted from is      *)
(* deleted or written again, by the chroot, the clean-up or a call          *)
(* (ProcessCompressedApex with is_ota_chroot, RemoveInactiveDataApex).      *)
MountedFilesStay ==
  \A p \in Packages : \A m \in mounted[p] :
    /\ m.from \in Kinds => m.from = "decompressed" /\ file["decompressed"][p][m.ver] = m.build
    /\ m.from = "data" => active[p] = m.ver

(* After a boot every pre-installed package is active, if only as the        *)
(* pre-installed APEX behind an update that failed or is gone               *)
(* (ActivateMissingApexes).  A package is left out only if its pre-installed *)
(* APEX could not be extracted, for want of space or by an error, or not     *)
(* mounted - once is enough (apexd.cpp 1781) - or if it provides shared      *)
(* libraries and is not mounted: nothing stands in for these (1776).        *)
EveryPackageIsActive ==
  CanServe => \A p \in Packages :
    HasPreInstalledVersion(slot, p) /\ failed[p] = "no" => mounted[p] # {}

(* What the chroot and the boots of an update extract is no more than was    *)
(* computed for it (ShouldAllocateSpaceForDecompression against             *)
(* SelectApexForActivation), however often power is lost - but for an        *)
(* *.ota.apex file that power loss left in part: no boot removes it.  The    *)
(* estimate no longer counts (firm) once a rename or a mount has failed.     *)
EstimateSuffices ==
  LET CutShort(p, v) == file["ota"][p][v] = Partial /\ ~(InChroot /\ p \in job.at)
  IN estimate.firm =>
       Cardinality({x \in FilesOf(file) : x[1] = "ota" => ~CutShort(x[2], x[3])})
         <= estimate.base + estimate.size

(* What was extracted for the other slot stays *.ota.apex as long as the old *)
(* one is booted and nothing new is asked for, unless a boot of the old slot  *)
(* that lacks the very same APEX renames it and then finds it valid          *)
(* (OnStartOtaApexKeptUntilSlotSwitch in apexd_test.cpp).  The renamed file,  *)
(* like any that both slots can use, stays for the new slot until a boot of   *)
(* the old one completes without having activated it: a mount that failed,    *)
(* or an update on /data, has it removed (RemoveInactiveDataApex).           *)
OtaIsKept ==
  [][\A p \in Packages :
       LET a == Images[estimate.for][p]
           unused == phase = "up" /\ ~\E m \in mounted[p] : m.from = "decompressed" /\ m.ver = a.ver
       IN estimate.for # NoImage /\ (estimate').for = estimate.for /\ updates' = updates
          /\ slot # estimate.for /\ a.compressed =>
            /\ file["ota"][p][a.ver] = a.build =>
                 \/ a.build \in {file'["ota"][p][a.ver], file'["decompressed"][p][a.ver]}
                 \/ RenamedIsInvalid(p)
            /\ file["decompressed"][p][a.ver] = a.build /\ Images[slot][p] = a =>
                 file'["decompressed"][p][a.ver] = a.build \/ unused]_vars
=============================================================================
