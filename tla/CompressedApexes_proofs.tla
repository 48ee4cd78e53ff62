----------------------- MODULE CompressedApexes_proofs -----------------------
(* What holds of CompressedApexes for every value of its constants: any      *)
(* packages and images, whatever is installed, updated, cancelled and        *)
(* rebooted in between, and whatever fails.                                 *)
EXTENDS CompressedApexes, FiniteSetTheorems, TLAPS

Froms == {"system", "data"}
FileType == [Kinds -> [Packages -> [PreVersions -> Builds \cup {Nothing, Partial}]]]
JobType == [mode : {"idle", "boot", "chroot"}, image : DOMAIN Images \cup {NoImage}, round : 0..3,
            chosen : SUBSET (Packages \X Froms), todo : SUBSET Packages, at : SUBSET Packages,
            ready : SUBSET (Packages \X Kinds)]
EstimateType == [for : DOMAIN Images \cup {NoImage}, size : Nat, base : Nat, firm : BOOLEAN]

(* The variables with their types in full.                                  *)
Typed ==
  /\ file \in FileType
  /\ active \in [Packages -> DataVersions \cup {Nothing}]
  /\ data \in [Packages -> DataVersions \cup {Nothing}]
  /\ reserved \in Nat /\ taken \in Nat
  /\ slot \in DOMAIN Images /\ other \in DOMAIN Images \cup {NoImage}
  /\ phase \in {"scan", "boot", "up", "done"}
  /\ mounted \in [Packages -> SUBSET Mounts] /\ chroot \in [Packages -> SUBSET Mounts]
  /\ job \in JobType /\ estimate \in EstimateType
  /\ failed \in [Packages -> {"no", "space", "fault"}]
  /\ {updates, boots, changes, faults} \subseteq Nat

(* A job runs in a boot of the slot, or in the chroot of some image.         *)
JobRuns ==
  /\ job.mode = "idle" => job = Idle
  /\ IsBoot <=> phase = "boot"
  /\ IsBoot => job.image = slot
  /\ InChroot => job.image \in DOMAIN Images
  /\ ~InChroot => chroot = [p \in Packages |-> {}]
  /\ phase = "scan" => mounted = [p \in Packages |-> {}]
  /\ IsBoot /\ job.round # 1 => \A p \in Packages : <<p, "data">> \notin job.chosen

(* One CAPEX at a time, and what is ready has been removed from todo.        *)
OneAtATime ==
  /\ job.at \subseteq job.todo
  /\ \A p, q \in job.at : p = q
  /\ \A x \in job.ready : x[1] \notin job.todo

(* The build a file must hold to stand for the CAPEX the job processes.      *)
FileOf(k, p) == file[k][p][Capex(p).ver]

(* What is ready holds what the CAPEX does, unless it is gone: in a boot it   *)
(* is a decompressed file, which nobody removes.                            *)
ReadyIsValid ==
  \A x \in job.ready : LET p == x[1] k == x[2] IN
    /\ FileOf(k, p) \in {Capex(p).build, Nothing}
    /\ IsBoot => k = "decompressed" /\ FileOf(k, p) = Capex(p).build

(* A boot extracts only for packages of which nothing is active.            *)
BootExtracts ==
  IsBoot =>
    /\ \A p \in job.at : FileOf("decompressed", p) = Partial
    /\ \A p \in job.todo : mounted[p] = {}

MountsAreValid == ActiveIsValid /\ MountedFilesStay

(* What the job will mount of p, or has given up or still to process.         *)
Covered(p) ==
  \/ p \in job.todo
  \/ \E x \in ToActivate : x[1] = p

NoneLeftOut ==
  \A p \in Packages : HasPreInstalledVersion(slot, p) /\ failed[p] = "no" =>
    /\ CanServe => mounted[p] # {}
    /\ IsBoot => mounted[p] # {} \/ Covered(p)

SafeInv == Typed /\ JobRuns /\ OneAtATime /\ ReadyIsValid /\ BootExtracts /\ MountsAreValid /\ NoneLeftOut

-----------------------------------------------------------------------------
(* What the images are made of, and how many files there can be.            *)
LEMMA ImagesAre ==
  ASSUME NEW i \in DOMAIN Images, NEW p \in Packages
  PROVE  /\ Images[i][p].ver \in PreVersions \cap Nat
         /\ Images[i][p].build \in Builds \cap (Nat \ {0})
         /\ Images[i][p].compressed \in BOOLEAN
<1>1. Images[i][p] \in PreInstalled
  BY DEF PreInstalled
<1> QED
  BY <1>1, ImagesAssumption DEF PreVersions, Builds

LEMMA KindsFinite == IsFiniteSet(Kinds)
<1>1. IsFiniteSet({"decompressed"}) /\ IsFiniteSet({"ota"})
  BY FS_Singleton
<1>2. Kinds = {"decompressed"} \cup {"ota"}
  BY DEF Kinds
<1> QED
  BY <1>1, <1>2, FS_Union

LEMMA PreVersionsFinite == IsFiniteSet(PreVersions)
<1> DEFINE D == (DOMAIN Images) \X Packages
           F == [x \in D |-> Images[x[1]][x[2]].ver]
<1>1. IsFiniteSet(D)
  BY BoundsAssumption, FS_Product
<1>2. F \in [D -> PreVersions]
  BY ImagesAre
<1>3. ASSUME NEW v \in PreVersions
      PROVE  \E x \in D : F[x] = v
  <2>1. PICK i \in DOMAIN Images, p \in Packages : v = Images[i][p].ver
    BY DEF PreVersions, PreInstalled
  <2>2. <<i, p>> \in D /\ F[<<i, p>>] = v
    BY <2>1
  <2> QED
    BY <2>2
<1>4. F \in Surjection(D, PreVersions)
  BY <1>2, <1>3 DEF Surjection
<1> QED
  BY <1>1, <1>4, FS_Surjection

LEMMA FilesFinite == ASSUME NEW f PROVE IsFiniteSet(FilesOf(f)) /\ Cardinality(FilesOf(f)) \in Nat
<1> DEFINE T == Kinds \X (Packages \X PreVersions)
           F == [x \in FilesOf(f) |-> <<x[1], <<x[2], x[3]>>>>]
<1>1. IsFiniteSet(T)
  BY KindsFinite, PreVersionsFinite, BoundsAssumption, FS_Product
<1>2. FilesOf(f) \subseteq Kinds \X Packages \X PreVersions
  BY DEF FilesOf
<1>3. F \in [FilesOf(f) -> T]
  BY <1>2
<1>4. \A x, y \in FilesOf(f) : F[x] = F[y] => x = y
  <2> SUFFICES ASSUME NEW x \in FilesOf(f), NEW y \in FilesOf(f), F[x] = F[y]
               PROVE  x = y
    OBVIOUS
  <2>1. x = <<x[1], x[2], x[3]>> /\ y = <<y[1], y[2], y[3]>>
    BY <1>2
  <2>2. x[1] = y[1] /\ x[2] = y[2] /\ x[3] = y[3]
    OBVIOUS
  <2> QED
    BY <2>1, <2>2
<1>5. F \in Injection(FilesOf(f), T)
  BY <1>3, <1>4 DEF Injection, IsInjective
<1> QED
  BY <1>1, <1>5, FS_Injection, FS_CardinalityType

LEMMA EstimateIsNat == ASSUME NEW i PROVE CalculateSizeForCompressedApex(i) \in Nat
<1> DEFINE S == {p \in Packages : /\ Images[i][p].compressed
                                  /\ ShouldAllocateSpaceForDecompression(p, Images[i][p].ver)}
<1>1. S \in SUBSET Packages
  OBVIOUS
<1>2. IsFiniteSet(S)
  BY <1>1, BoundsAssumption, FS_Subset
<1> QED
  BY <1>2, FS_CardinalityType DEF CalculateSizeForCompressedApex


(* The job once it is done with a CAPEX, one way or the other.               *)
SameJob(j) ==
  j.mode = job.mode /\ j.image = job.image /\ j.round = job.round /\ j.chosen = job.chosen

LEMMA JobReady ==
  ASSUME job \in JobType, NEW p \in Packages, NEW k \in Kinds
  PROVE  /\ Ready(p, k) \in JobType /\ SameJob(Ready(p, k))
         /\ Ready(p, k).todo = job.todo \ {p} /\ Ready(p, k).at = {}
         /\ Ready(p, k).ready = job.ready \cup {<<p, k>>}
<1>1. Ready(p, k) \in JobType
  <2>1. /\ job.ready \cup {<<p, k>>} \in SUBSET (Packages \X Kinds)
        /\ job.todo \ {p} \in SUBSET Packages /\ {} \in SUBSET Packages
    BY DEF JobType
  <2> QED
    BY <2>1 DEF JobType, Ready
<1>2. SameJob(Ready(p, k))
  BY DEF JobType, Ready, SameJob
<1>3. Ready(p, k).todo = job.todo \ {p} /\ Ready(p, k).at = {}
  BY DEF JobType, Ready
<1>4. Ready(p, k).ready = job.ready \cup {<<p, k>>}
  BY DEF JobType, Ready
<1> QED
  BY <1>1, <1>2, <1>3, <1>4

LEMMA JobGivenUp ==
  ASSUME job \in JobType, NEW p \in Packages
  PROVE  /\ GivenUp(p) \in JobType /\ SameJob(GivenUp(p))
         /\ GivenUp(p).todo = job.todo \ {p} /\ GivenUp(p).at = {}
         /\ GivenUp(p).ready = job.ready
BY DEF JobType, GivenUp, SameJob

LEMMA JobStarts ==
  ASSUME NEW mode \in {"boot", "chroot"}, NEW i \in DOMAIN Images, NEW n \in 0..3,
         NEW chosen \in SUBSET (Packages \X Froms)
  PROVE  /\ Job(mode, i, n, chosen) \in JobType
         /\ Job(mode, i, n, chosen).mode = mode /\ Job(mode, i, n, chosen).image = i
         /\ Job(mode, i, n, chosen).round = n
         /\ Job(mode, i, n, chosen).todo = Compressed(i, chosen)
         /\ Job(mode, i, n, chosen).chosen = chosen
         /\ Job(mode, i, n, chosen).at = {} /\ Job(mode, i, n, chosen).ready = {}
BY DEF JobType, Job, Compressed

LEMMA IdleJob == /\ Idle \in JobType /\ Idle.mode = "idle" /\ Idle.todo = {} /\ Idle.at = {}
                 /\ Idle.ready = {} /\ Idle.chosen = {}
BY DEF Idle, JobType

-----------------------------------------------------------------------------
(* ProcessCompressedApex.                                                   *)

(* What becomes of p in any of its steps, and what stays as it was: in the    *)
(* chroot, every decompressed file.                                         *)
FilesOfOthersStay(p) ==
  /\ file' \in FileType
  /\ \A k \in Kinds, q \in Packages, v \in PreVersions :
       q # p \/ v # Capex(p).ver \/ (InChroot /\ k = "decompressed") =>
         file'[k][q][v] = file[k][q][v]

Processes(p) ==
  /\ p \in job.todo
  /\ \/ \E k \in Kinds :
          /\ job' = Ready(p, k) /\ file'[k][p][Capex(p).ver] = Capex(p).build
          /\ IsBoot => k = "decompressed"
     \/ job' = GivenUp(p) /\ (IsBoot => failed'[p] # "no")
     \/ job' = [job EXCEPT !.at = {p}] /\ file'[Target][p][Capex(p).ver] = Partial
  /\ failed' \in [Packages -> {"no", "space", "fault"}]
  /\ \A q \in Packages : failed'[q] = failed[q] \/ (q = p /\ failed'[q] # "no")
  /\ FilesOfOthersStay(p)
  /\ reserved' \in Nat /\ faults' \in Nat
  /\ estimate' \in {estimate, [estimate EXCEPT !.firm = FALSE]}
  /\ UNCHANGED <<active, taken, slot, other, phase, mounted, chroot, data,
                 held, updates, boots, changes>>

LEMMA InJob ==
  ASSUME Typed, JobRuns, NEW p \in job.todo
  PROVE  /\ p \in Packages /\ job.image \in DOMAIN Images /\ (IsBoot \/ InChroot)
         /\ Capex(p).ver \in PreVersions /\ Capex(p).build \in Builds \cap (Nat \ {0})
BY IdleJob, ImagesAre DEF Typed, JobRuns, JobType, IsBoot, InChroot, Capex

JobMoves(p) ==
  /\ p \in job.todo /\ job' \in JobType /\ SameJob(job')
  /\ job'.todo \in {job.todo, job.todo \ {p}}
  /\ job'.at \subseteq {p} \cap job'.todo
  /\ job.ready \subseteq job'.ready
  /\ \A x \in job'.ready \ job.ready :
       /\ x[1] = p /\ p \notin job'.todo
       /\ file'[x[2]][p][Capex(p).ver] = Capex(p).build
       /\ IsBoot => x[2] = "decompressed"
  /\ \A q \in job'.at : file'[Target][q][Capex(q).ver] = Partial
  /\ IsBoot => \/ p \in job'.todo
               \/ \E x \in job'.ready : x[1] = p
               \/ failed'[p] # "no"

LEMMA JobOf ==
  ASSUME SafeInv, NEW p, Processes(p)
  PROVE  JobMoves(p)
<1> USE DEF JobMoves, SafeInv
<1>1. job \in JobType /\ p \in Packages /\ p \in job.todo
  BY InJob DEF Typed, Processes
<1>2. CASE \E k \in Kinds :
             /\ job' = Ready(p, k) /\ file'[k][p][Capex(p).ver] = Capex(p).build
             /\ IsBoot => k = "decompressed"
  <2>1. PICK k \in Kinds :
             /\ job' = Ready(p, k) /\ file'[k][p][Capex(p).ver] = Capex(p).build
             /\ IsBoot => k = "decompressed"
    BY <1>2
  <2>2. /\ job' \in JobType /\ SameJob(job') /\ job'.todo = job.todo \ {p} /\ job'.at = {}
        /\ job'.ready = job.ready \cup {<<p, k>>}
    BY <1>1, <2>1, JobReady
  <2>3. \A x \in job'.ready \ job.ready : x[1] = p /\ x[2] = k
    BY <2>2
  <2>4. \E x \in job'.ready : x[1] = p
    <3>1. <<p, k>> \in job'.ready /\ <<p, k>>[1] = p
      BY <2>2
    <3> QED
      BY <3>1
  <2> QED
    BY <1>1, <2>1, <2>2, <2>3, <2>4
<1>3. CASE job' = GivenUp(p) /\ (IsBoot => failed'[p] # "no")
  BY <1>1, <1>3, JobGivenUp
<1>4. CASE job' = [job EXCEPT !.at = {p}] /\ file'[Target][p][Capex(p).ver] = Partial
  <2>1. /\ job' \in JobType /\ SameJob(job') /\ job'.todo = job.todo /\ job'.at = {p}
        /\ job'.ready = job.ready
    BY <1>1, <1>4 DEF JobType, SameJob
  <2> QED
    BY <1>1, <1>4, <2>1
<1> QED
  BY <1>2, <1>3, <1>4 DEF Processes

LEMMA ReadyFacts ==
  ASSUME Typed, OneAtATime, NEW x \in job.ready
  PROVE  x[1] \in Packages /\ x[2] \in Kinds /\ x[1] \notin job.todo
<1>1. job.ready \subseteq Packages \X Kinds
  BY DEF Typed, JobType
<1> QED
  BY <1>1 DEF OneAtATime

LEMMA ProcessSafe ==
  ASSUME SafeInv, NEW p, Processes(p)
  PROVE  SafeInv'
<1> USE DEF SafeInv, FilesOfOthersStay, Processes
<1>0. JobMoves(p)
  BY JobOf
<1> USE <1>0 DEF JobMoves
<1>1. /\ p \in Packages /\ job.image \in DOMAIN Images /\ (IsBoot \/ InChroot)
      /\ Capex(p).ver \in PreVersions
  BY InJob
<1>2. /\ job'.mode = job.mode /\ job'.image = job.image /\ job'.round = job.round
      /\ job'.chosen = job.chosen /\ IsBoot' = IsBoot /\ InChroot' = InChroot
      /\ \A q : Capex(q)' = Capex(q)
  BY DEF SameJob, IsBoot, InChroot, Capex
<1>3. Typed'
  <2>1. estimate' \in EstimateType
    BY DEF Typed, EstimateType
  <2> QED
    BY <2>1 DEF Typed
<1>4. JobRuns'
  BY <1>1, <1>2 DEF JobRuns, IsBoot, InChroot
<1>5. OneAtATime'
  BY DEF OneAtATime
<1>6. ReadyIsValid'
  <2>1. ASSUME NEW x \in job.ready
        PROVE  /\ file'[x[2]][x[1]][Capex(x[1]).ver] = file[x[2]][x[1]][Capex(x[1]).ver]
    <3>1. x[1] \in Packages /\ x[2] \in Kinds /\ x[1] # p
      BY ReadyFacts
    <3>2. Capex(x[1]).ver \in PreVersions
      BY <1>1, <3>1, ImagesAre DEF Capex
    <3> QED
      BY <3>1, <3>2
  <2>2. ASSUME NEW x \in job'.ready
        PROVE  /\ FileOf(x[2], x[1])' \in {Capex(x[1])'.build, Nothing}
               /\ IsBoot' => x[2] = "decompressed" /\ FileOf(x[2], x[1])' = Capex(x[1])'.build
    <3>1. CASE x \in job.ready
      BY <1>2, <2>1, <3>1 DEF ReadyIsValid, FileOf
    <3>2. CASE x \notin job.ready
      BY <1>2, <3>2 DEF FileOf
    <3> QED
      BY <3>1, <3>2
  <2> QED
    BY <2>2 DEF ReadyIsValid
<1>7. BootExtracts'
  <2>1. IsBoot => Target = "decompressed"
    BY DEF Target, IsBoot, InChroot
  <2> QED
    BY <1>2, <2>1 DEF BootExtracts, FileOf
<1>8. MountsAreValid'
  <2>1. ActiveIsValid'
    BY <1>2 DEF MountsAreValid, ActiveIsValid
  <2>2. ASSUME NEW q \in Packages, NEW m \in mounted[q], m.from \in Kinds
        PROVE  m.from = "decompressed" /\ file'["decompressed"][q][m.ver] = m.build
    <3>1. m.from = "decompressed" /\ file["decompressed"][q][m.ver] = m.build
          /\ m.ver = Images[slot][q].ver
      BY <2>2 DEF MountsAreValid, MountedFilesStay, ActiveIsValid
    <3>2. q # p \/ InChroot
      BY <1>1 DEF BootExtracts
    <3>3. m.ver \in PreVersions /\ "decompressed" \in Kinds
      BY <3>1, ImagesAre DEF Typed, Kinds
    <3> QED
      BY <3>1, <3>2, <3>3
  <2>3. MountedFilesStay'
    BY <2>2 DEF MountsAreValid, MountedFilesStay
  <2> QED
    BY <2>1, <2>3 DEF MountsAreValid
<1>9. NoneLeftOut'
  <2> SUFFICES ASSUME NEW q \in Packages, HasPreInstalledVersion(slot, q), failed'[q] = "no"
               PROVE  /\ CanServe => mounted[q] # {}
                      /\ IsBoot => mounted[q] # {} \/ Covered(q)'
    BY <1>2 DEF NoneLeftOut, CanServe, HasPreInstalledVersion
  <2>1. IsBoot => ~CanServe
    BY DEF JobRuns, CanServe
  <2>2. failed[q] = "no"
    OBVIOUS
  <2>3. Covered(q) => Covered(q)' \/ q = p
    BY <1>2 DEF Covered, ToActivate
  <2>4. IsBoot /\ q = p => Covered(q)'
    BY <1>2 DEF Covered, ToActivate
  <2> QED
    BY <2>1, <2>2, <2>3, <2>4 DEF NoneLeftOut
<1> QED
  BY <1>3, <1>4, <1>5, <1>6, <1>7, <1>8, <1>9

(* The steps of ProcessCompressedApex for p.                                 *)
Steps(p) == \/ Reuse(p) \/ ReuseOta(p) \/ BeginDecompress(p)
            \/ RenameFails(p) \/ RenamedIsInvalid(p)
            \/ EndDecompress(p) \/ FailDecompress(p)

(* The start of an extraction, in files that differ only in those of p.       *)
LEMMA StartProcesses ==
  ASSUME SafeInv, NEW p \in Packages, CanProcess(p), NEW f \in FileType, InChroot => f = file,
         \A k \in Kinds, q \in Packages, w \in PreVersions :
           q # p \/ w # Capex(p).ver => f[k][q][w] = file[k][q][w],
         StartDecompress(p, f), faults' \in Nat,
         estimate' \in {estimate, [estimate EXCEPT !.firm = FALSE]}
  PROVE  Processes(p)
<1> DEFINE v == Capex(p).ver
           cleared == [f EXCEPT ![Target][p][v] = Nothing]
<1>1. /\ p \in job.todo /\ failed \in [Packages -> {"no", "space", "fault"}]
      /\ "decompressed" \in Kinds /\ "ota" \in Kinds /\ 0 \in Nat
  BY DEF CanProcess, SafeInv, Typed, Kinds
<1>2. v \in PreVersions /\ Target \in Kinds /\ (InChroot => Target = "ota")
  BY <1>1, InJob DEF SafeInv, Target
<1>3. ASSUME NEW b \in {Nothing, Partial}, file' = [f EXCEPT ![Target][p][v] = b]
      PROVE  FilesOfOthersStay(p) /\ file'[Target][p][v] = b
  BY <1>1, <1>2, <1>3 DEF FilesOfOthersStay, FileType
<1>4. /\ reserved' = 0
      /\ UNCHANGED <<active, taken, slot, other, phase, mounted, chroot, data,
                     held, updates, boots, changes>>
  BY DEF StartDecompress
<1>5. CASE Free(cleared, 0) > 0
  <2>1. /\ file' = [cleared EXCEPT ![Target][p][v] = Partial]
        /\ job' = [job EXCEPT !.at = {p}] /\ failed' = failed
    BY <1>5 DEF StartDecompress
  <2>2. file' = [f EXCEPT ![Target][p][v] = Partial]
    <3>1. \A k \in Kinds, w \in PreVersions :
            [[f EXCEPT ![k][p][w] = Nothing] EXCEPT ![k][p][w] = Partial] = [f EXCEPT ![k][p][w] = Partial]
      BY DEF FileType
    <3>2. [cleared EXCEPT ![Target][p][v] = Partial] = [f EXCEPT ![Target][p][v] = Partial]
      BY Zenon, <1>2, <3>1
    <3> QED
      BY <2>1, <3>2
  <2>3. FilesOfOthersStay(p) /\ file'[Target][p][v] = Partial
    BY <1>3, <2>2
  <2> QED
    BY <1>1, <1>4, <2>1, <2>3 DEF Processes
<1>6. CASE ~(Free(cleared, 0) > 0)
  <2>1. file' = cleared /\ job' = GivenUp(p) /\ FailFor(p, "space")
    BY <1>6 DEF StartDecompress
  <2>2. FilesOfOthersStay(p)
    BY <1>3, <2>1
  <2> HIDE DEF cleared
  <2> QED
    BY <1>1, <1>4, <2>1, <2>2 DEF Processes, FailFor
<1> QED
  BY <1>5, <1>6

LEMMA StepsProcess ==
  ASSUME SafeInv, NEW p \in Packages,
         Steps(p)
  PROVE  Processes(p)
<1> USE DEF disk, history, Steps
<1>1. /\ p \in job.todo /\ job \in JobType /\ file \in FileType
      /\ failed \in [Packages -> {"no", "space", "fault"}]
      /\ reserved \in Nat /\ faults \in Nat /\ "decompressed" \in Kinds /\ "ota" \in Kinds
  BY DEF Reuse, ReuseOta, BeginDecompress, RenameFails, RenamedIsInvalid, RenameGoesWrong,
     EndDecompress, FailDecompress, CanProcess, SafeInv, OneAtATime, Typed, Kinds
<1>2. /\ job.image \in DOMAIN Images /\ (IsBoot \/ InChroot) /\ ~(IsBoot /\ InChroot)
      /\ Capex(p).ver \in PreVersions /\ Capex(p).build \in Builds \cap (Nat \ {0})
  BY <1>1, InJob DEF SafeInv, IsBoot, InChroot
<1>3. Target \in Kinds /\ (IsBoot => Target = "decompressed") /\ (InChroot => Target = "ota")
  BY <1>1, <1>2 DEF Target
<1> DEFINE v == Capex(p).ver
           Rest == UNCHANGED <<active, taken, slot, other, phase, mounted, chroot, data,
                               held, estimate, updates, boots, changes>>
<1>4. ASSUME NEW b \in Builds \cup {Nothing, Partial}, file' = [file EXCEPT ![Target][p][v] = b]
      PROVE  FilesOfOthersStay(p) /\ file'[Target][p][v] = b
  BY <1>1, <1>2, <1>3, <1>4 DEF FilesOfOthersStay, FileType
<1>5. CASE Reuse(p)
  <2>1. job' = Ready(p, "decompressed") /\ UNCHANGED <<file, failed, reserved, faults>>
        /\ file["decompressed"][p][v] = Capex(p).build /\ Rest
    BY <1>5 DEF Reuse, ValidateDecompressedApex
  <2>2. FilesOfOthersStay(p)
    BY <1>1, <2>1 DEF FilesOfOthersStay
  <2> QED
    BY <1>1, <2>1, <2>2 DEF Processes
<1>6. CASE ReuseOta(p)
  <2>1. Rest /\ UNCHANGED <<reserved, failed, faults>> /\ file["ota"][p][v] = Capex(p).build
    BY <1>6 DEF ReuseOta, ValidateDecompressedApex
  <2>2. CASE InChroot
    <3>1. file' = file /\ job' = Ready(p, "ota")
      BY <1>6, <2>2 DEF ReuseOta
    <3>2. FilesOfOthersStay(p)
      BY <1>1, <3>1 DEF FilesOfOthersStay
    <3> QED
      BY <1>1, <1>2, <2>1, <2>2, <3>1, <3>2 DEF Processes
  <2>3. CASE IsBoot
    <3>1. /\ file' = [file EXCEPT !["decompressed"][p][v] = Capex(p).build,
                                  !["ota"][p][v] = Nothing]
          /\ job' = Ready(p, "decompressed")
      BY <1>2, <1>6, <2>1, <2>3 DEF ReuseOta
    <3>2. FilesOfOthersStay(p) /\ file'["decompressed"][p][v] = Capex(p).build
      <4> DEFINE f == [file EXCEPT !["decompressed"][p][v] = Capex(p).build]
      <4>1. /\ f \in FileType /\ f["decompressed"][p][v] = Capex(p).build
            /\ \A k \in Kinds, q \in Packages, w \in PreVersions :
                 q # p \/ w # v => f[k][q][w] = file[k][q][w]
        BY <1>1, <1>2 DEF FileType
      <4>2. file' = [f EXCEPT !["ota"][p][v] = Nothing]
        BY <3>1
      <4> HIDE DEF f
      <4>3. /\ file' \in FileType /\ file'["decompressed"][p][v] = f["decompressed"][p][v]
            /\ \A k \in Kinds, q \in Packages, w \in PreVersions :
                 q # p \/ w # v => file'[k][q][w] = f[k][q][w]
        BY <1>1, <1>2, <4>1, <4>2 DEF FileType
      <4> QED
        BY <1>2, <2>3, <4>1, <4>3 DEF FilesOfOthersStay
    <3> QED
      BY <1>1, <2>1, <3>1, <3>2 DEF Processes
  <2> QED
    BY <1>2, <2>2, <2>3
<1>7. CASE BeginDecompress(p) \/ RenameFails(p)
  <2>1. CanProcess(p) /\ StartDecompress(p, file) /\ faults' \in Nat
        /\ estimate' \in {estimate, [estimate EXCEPT !.firm = FALSE]}
    BY <1>1, <1>7 DEF BeginDecompress, RenameFails, RenameGoesWrong
  <2> QED
    BY <1>1, <2>1, StartProcesses
<1>10. CASE RenamedIsInvalid(p)
  <2> DEFINE f == [file EXCEPT !["ota"][p][v] = Nothing]
  <2>1. CanProcess(p) /\ StartDecompress(p, f) /\ faults' \in Nat /\ estimate' = estimate /\ ~InChroot
    BY <1>1, <1>2, <1>10 DEF RenamedIsInvalid, RenameGoesWrong
  <2>2. /\ f \in FileType
        /\ \A k \in Kinds, q \in Packages, w \in PreVersions :
             q # p \/ w # v => f[k][q][w] = file[k][q][w]
    BY <1>1, <1>2 DEF FileType
  <2> HIDE DEF f
  <2> QED
    BY <2>1, <2>2, StartProcesses
<1>8. CASE EndDecompress(p)
  <2>1. Rest /\ UNCHANGED <<reserved, failed, faults>> /\ p \in job.at
    BY <1>8 DEF EndDecompress
  <2>2. CASE file[Target][p][v] # Nothing
    <3>1. file' = [file EXCEPT ![Target][p][v] = Capex(p).build] /\ job' = Ready(p, Target)
      BY <1>8, <2>2 DEF EndDecompress
    <3>2. FilesOfOthersStay(p) /\ file'[Target][p][v] = Capex(p).build
      BY <1>2, <1>4, <3>1
    <3> QED
      BY <1>1, <1>3, <2>1, <3>1, <3>2 DEF Processes
  <2>3. CASE file[Target][p][v] = Nothing
    <3>1. file' = file /\ job' = GivenUp(p)
      BY <1>8, <2>3 DEF EndDecompress
    <3>2. ~IsBoot
      BY <1>3, <2>1, <2>3 DEF SafeInv, BootExtracts, FileOf, Partial, Nothing
    <3>3. FilesOfOthersStay(p)
      BY <1>1, <3>1 DEF FilesOfOthersStay
    <3> QED
      BY <1>1, <2>1, <3>1, <3>2, <3>3 DEF Processes
  <2> QED
    BY <2>2, <2>3
<1>9. CASE FailDecompress(p)
  <2>1. /\ Rest /\ reserved' = reserved /\ faults' = faults + 1
        /\ file' = [file EXCEPT ![Target][p][v] = Nothing] /\ job' = GivenUp(p)
        /\ FailFor(p, "fault")
    BY <1>9 DEF FailDecompress
  <2>2. FilesOfOthersStay(p)
    BY <1>4, <2>1
  <2> QED
    BY <1>1, <2>1, <2>2 DEF Processes, FailFor
<1> HIDE DEF v, Rest
<1> QED
  BY Zenon, <1>5, <1>6, <1>7, <1>8, <1>9, <1>10


-----------------------------------------------------------------------------
(* The calls, and the rest of the system.                                   *)
LEMMA OtaRemoved ==
  ASSUME NEW f \in FileType
  PROVE  /\ WithoutOta(f) \in FileType
         /\ \A p \in Packages, v \in PreVersions :
              /\ WithoutOta(f)["decompressed"][p][v] = f["decompressed"][p][v]
              /\ WithoutOta(f)["ota"][p][v] = Nothing
BY DEF WithoutOta, FileType, Kinds

LEMMA RequestSafe ==
  ASSUME SafeInv,
         (\E i \in DOMAIN Images : ReserveSpace(i) \/ ReserveSpaceFails(i)) \/ CancelUpdate
  PROVE  SafeInv'
<1> USE DEF SafeInv, memory
<1>1. /\ CanServe /\ file' = WithoutOta(file)
      /\ UNCHANGED <<active, taken, slot, memory, failed, boots, changes>> /\ faults' \in Nat
  BY DEF ReserveSpace, ReserveSpaceFails, CancelUpdate, Typed
<1>2. /\ ~IsBoot /\ phase # "scan" /\ file \in FileType /\ Nothing = 0
  BY <1>1 DEF JobRuns, CanServe, Typed, Nothing
<1>3. Typed'
  <2>1. reserved' \in Nat /\ other' \in DOMAIN Images \cup {NoImage} /\ updates' \in Nat
    BY EstimateIsNat DEF ReserveSpace, ReserveSpaceFails, CancelUpdate, Typed
  <2>2. estimate' \in EstimateType
    <3>1. NoEstimate \in EstimateType
      BY DEF NoEstimate, EstimateType
    <3>2. ASSUME NEW i \in DOMAIN Images, ReserveSpace(i)
          PROVE  estimate' \in EstimateType
      <4>1. Cardinality(FilesOf(WithoutOta(file))) \in Nat
        BY FilesFinite
      <4>2. Foreseeable(i) \in BOOLEAN
        BY DEF Foreseeable
      <4>3. CalculateSizeForCompressedApex(i) \in Nat
        BY EstimateIsNat
      <4> QED
        BY <3>2, <4>1, <4>2, <4>3 DEF ReserveSpace, EstimateType
    <3> QED
      BY <3>1, <3>2 DEF CancelUpdate, ReserveSpaceFails, Typed
  <2> QED
    BY <1>1, <1>2, <2>1, <2>2, OtaRemoved DEF Typed
<1>4. JobRuns' /\ OneAtATime'
  BY <1>1 DEF JobRuns, OneAtATime, IsBoot, InChroot
<1>5. ReadyIsValid'
  <2>1. ASSUME NEW x \in job.ready
        PROVE  /\ x[1] \in Packages /\ x[2] \in Kinds /\ Capex(x[1]).ver \in PreVersions
               /\ FileOf(x[2], x[1])' \in {FileOf(x[2], x[1]), Nothing}
    <3>1. job.mode # "idle" /\ x[1] \in Packages /\ x[2] \in {"decompressed", "ota"}
      BY IdleJob DEF JobRuns, Typed, JobType, Kinds
    <3>2. Capex(x[1]).ver \in PreVersions
      BY <1>2, <3>1, ImagesAre DEF JobRuns, Capex, Typed, JobType, InChroot, IsBoot
    <3> QED
      <4>1. FileOf(x[2], x[1])' = WithoutOta(file)[x[2]][x[1]][Capex(x[1]).ver]
        BY <1>1 DEF FileOf, Capex
      <4>2. CASE x[2] = "ota"
        BY <1>2, <3>1, <3>2, <4>1, <4>2, OtaRemoved DEF Kinds
      <4>3. CASE x[2] = "decompressed"
        BY <1>2, <3>1, <3>2, <4>1, <4>3, OtaRemoved DEF Kinds, FileOf
      <4> QED
        BY <3>1, <3>2, <4>2, <4>3 DEF Kinds
  <2> QED
    BY <1>1, <1>2, <2>1 DEF ReadyIsValid, Capex, IsBoot
<1>6. BootExtracts'
  BY <1>1, <1>2 DEF BootExtracts, IsBoot
<1>7. MountsAreValid'
  <2>1. ActiveIsValid'
    BY <1>1 DEF MountsAreValid, ActiveIsValid
  <2>2. ASSUME NEW p \in Packages, NEW m \in mounted[p], m.from \in Kinds
        PROVE  m.from = "decompressed" /\ file'["decompressed"][p][m.ver] = m.build
    <3>1. /\ m.from = "decompressed" /\ file["decompressed"][p][m.ver] = m.build
          /\ m.ver = Images[slot][p].ver
      BY <2>2 DEF MountsAreValid, MountedFilesStay, ActiveIsValid
    <3>2. m.ver \in PreVersions
      BY <3>1, ImagesAre DEF Typed
    <3> QED
      BY <1>1, <1>2, <3>1, <3>2, OtaRemoved
  <2>3. MountedFilesStay'
    BY <1>1, <2>2 DEF MountsAreValid, MountedFilesStay
  <2> QED
    BY <2>1, <2>3 DEF MountsAreValid
<1>8. NoneLeftOut'
  BY <1>1, <1>2 DEF NoneLeftOut, CanServe, IsBoot, HasPreInstalledVersion
<1> QED
  BY <1>3, <1>4, <1>5, <1>6, <1>7, <1>8

(* Steps that leave the files, the job and what is mounted.                  *)
LEMMA AsideSafe ==
  ASSUME SafeInv, UseSpace \/ InitializeDataApex
                  \/ \E p \in Packages, v \in DataVersions \cup {Nothing} : ChangeActive(p, v)
  PROVE  SafeInv'
<1> USE DEF SafeInv, memory, history, disk
<1>1. /\ UNCHANGED <<file, slot, job, phase, mounted, chroot, failed>>
      /\ active' = active \/ phase = "scan"
  BY DEF UseSpace, InitializeDataApex, ChangeActive
<1>2. Typed'
  <2>1. CASE UseSpace
    <3>1. taken' \in Nat
      BY <2>1, BoundsAssumption DEF UseSpace
    <3> QED
      BY <2>1, <3>1 DEF UseSpace, Typed
  <2>2. CASE InitializeDataApex
    BY <2>2 DEF InitializeDataApex, AddDataApex, Typed
  <2>3. CASE \E p \in Packages, v \in DataVersions \cup {Nothing} : ChangeActive(p, v)
    <3>1. active' \in [Packages -> DataVersions \cup {Nothing}] /\ changes' \in Nat
      BY <2>3 DEF ChangeActive, Typed
    <3>2. estimate' \in EstimateType
      BY <2>3 DEF ChangeActive, Typed, EstimateType
    <3> QED
      BY <2>3, <3>1, <3>2 DEF ChangeActive, Typed
  <2> QED
    BY <2>1, <2>2, <2>3
<1>3. JobRuns' /\ OneAtATime' /\ ReadyIsValid' /\ BootExtracts' /\ NoneLeftOut'
  BY ZenonT(60), <1>1 DEF JobRuns, OneAtATime, ReadyIsValid, BootExtracts, NoneLeftOut, IsBoot, InChroot,
     FileOf, Capex, CanServe, Covered, ToActivate, HasPreInstalledVersion
<1>4. MountsAreValid'
  BY <1>1 DEF MountsAreValid, ActiveIsValid, MountedFilesStay, JobRuns
<1> QED
  BY <1>2, <1>3, <1>4

-----------------------------------------------------------------------------
(* Boots, and the chroot.                                                   *)

(* Every pre-installed package is among what SelectApexForActivation chooses.*)
LEMMA ChoiceCovers ==
  ASSUME NEW i \in DOMAIN Images, NEW store \in [Packages -> DataVersions \cup {Nothing}]
  PROVE  /\ SelectApexForActivation(i, store) \in SUBSET (Packages \X Froms)
         /\ \A p \in Packages : HasPreInstalledVersion(i, p) =>
              \/ <<p, "system">> \in SelectApexForActivation(i, store)
              \/ <<p, "data">> \in SelectApexForActivation(i, store)
<1>1. \A p \in Packages : Images[i][p].ver \in Nat /\ store[p] \in Nat
  <2>1. DataVersions \cup {Nothing} \subseteq Nat
    BY BoundsAssumption DEF Nothing
  <2> QED
    BY <2>1, ImagesAre
<1> QED
  BY <1>1 DEF SelectApexForActivation, Froms, HasDataVersion, HasPreInstalledVersion

LEMMA BootSafe ==
  ASSUME SafeInv, \/ OnOtaChrootBootstrap \/ LeaveChroot \/ OnStart
                  \/ \E switch \in BOOLEAN : Reboot(switch)
  PROVE  SafeInv'
<1> USE DEF SafeInv, memory, history, disk
<1>1. CASE OnOtaChrootBootstrap
  <2> DEFINE chosen == SelectApexForActivation(other, AddDataApex(other))
  <2>1. /\ CanServe /\ job = Idle /\ other \in DOMAIN Images
        /\ job' = Job("chroot", other, 1, chosen)
        /\ UNCHANGED <<disk, phase, mounted, chroot, data, history>>
    BY <1>1 DEF OnOtaChrootBootstrap, Typed
  <2>2. chosen \in SUBSET (Packages \X Froms)
    BY <2>1, ChoiceCovers DEF AddDataApex, Typed
  <2>3. /\ job' \in JobType /\ job'.mode = "chroot" /\ job'.image = other /\ job'.round = 1
        /\ job'.at = {} /\ job'.ready = {}
    <3> HIDE DEF chosen
    <3> QED
      BY <2>1, <2>2, JobStarts
  <2>4. Typed'
    BY <2>1, <2>3 DEF Typed
  <2>5. JobRuns'
    BY <2>1, <2>3 DEF JobRuns, IsBoot, InChroot, CanServe
  <2>6. OneAtATime' /\ ReadyIsValid' /\ BootExtracts'
    BY <2>3 DEF OneAtATime, ReadyIsValid, BootExtracts, IsBoot
  <2>7. MountsAreValid'
    BY <2>1, IdleJob DEF MountsAreValid, ActiveIsValid, MountedFilesStay, JobRuns, InChroot
  <2>8. NoneLeftOut'
    BY <2>1, <2>3 DEF NoneLeftOut, IsBoot, CanServe, HasPreInstalledVersion
  <2> QED
    BY <2>4, <2>5, <2>6, <2>7, <2>8
<1>2. CASE LeaveChroot
  <2>1. /\ InChroot /\ job' = Idle /\ chroot' = [p \in Packages |-> {}]
        /\ UNCHANGED <<disk, phase, mounted, data, history>>
    BY <1>2 DEF LeaveChroot
  <2>2. Typed'
    BY <2>1, IdleJob DEF Typed
  <2>3. JobRuns' /\ OneAtATime' /\ ReadyIsValid' /\ BootExtracts'
    BY <2>1, IdleJob DEF JobRuns, OneAtATime, ReadyIsValid, BootExtracts, IsBoot, InChroot
  <2>4. MountsAreValid'
    BY <2>1 DEF MountsAreValid, ActiveIsValid, MountedFilesStay
  <2>5. NoneLeftOut'
    BY <2>1, IdleJob DEF NoneLeftOut, IsBoot, CanServe, HasPreInstalledVersion
  <2> QED
    BY <2>2, <2>3, <2>4, <2>5
<1>3. CASE OnStart
  <2> DEFINE chosen == SelectApexForActivation(slot, AddDataApex(slot))
  <2>1. /\ phase = "scan" /\ job = Idle /\ data' = AddDataApex(slot) /\ phase' = "boot"
        /\ job' = Job("boot", slot, 1, chosen) /\ slot \in DOMAIN Images
        /\ UNCHANGED <<disk, mounted, chroot, history>>
    BY <1>3 DEF OnStart, Typed
  <2>2. /\ mounted = [p \in Packages |-> {}] /\ chroot = [p \in Packages |-> {}]
    BY <2>1, IdleJob DEF JobRuns, InChroot
  <2>3. AddDataApex(slot) \in [Packages -> DataVersions \cup {Nothing}]
    BY DEF AddDataApex, Typed
  <2>4. /\ chosen \in SUBSET (Packages \X Froms)
        /\ \A p \in Packages : HasPreInstalledVersion(slot, p) =>
             <<p, "system">> \in chosen \/ <<p, "data">> \in chosen
    BY <2>1, <2>3, ChoiceCovers
  <2> HIDE DEF chosen
  <2>5. /\ job' \in JobType /\ job'.mode = "boot" /\ job'.image = slot
        /\ job'.todo = Compressed(slot, chosen) /\ job'.chosen = chosen
        /\ job'.round = 1 /\ job'.at = {} /\ job'.ready = {}
    BY <2>1, <2>4, JobStarts
  <2>6. Typed'
    BY <2>1, <2>3, <2>5 DEF Typed
  <2>7. JobRuns'
    BY <2>1, <2>2, <2>5 DEF JobRuns, IsBoot, InChroot
  <2>8. OneAtATime' /\ ReadyIsValid' /\ BootExtracts'
    BY <2>1, <2>2, <2>5 DEF OneAtATime, ReadyIsValid, BootExtracts, Compressed
  <2>9. MountsAreValid'
    BY <2>1, <2>2 DEF MountsAreValid, ActiveIsValid, MountedFilesStay
  <2>10. ASSUME NEW p \in Packages, HasPreInstalledVersion(slot, p)
         PROVE  Covered(p)'
    <3>1. CASE <<p, "data">> \in chosen
      <4>1. <<p, "data">> \in ToActivate' /\ <<p, "data">>[1] = p
        BY <2>5, <3>1 DEF ToActivate
      <4> QED
        BY <4>1 DEF Covered
    <3>2. CASE <<p, "system">> \in chosen /\ Images[slot][p].compressed
      BY <2>5, <3>2 DEF Covered, Compressed
    <3>3. CASE <<p, "system">> \in chosen /\ ~Images[slot][p].compressed
      <4>1. <<p, "system">> \in ToActivate' /\ <<p, "system">>[1] = p
        BY <2>5, <3>3 DEF ToActivate
      <4> QED
        BY <4>1 DEF Covered
    <3> QED
      BY <2>4, <2>10, <3>1, <3>2, <3>3
  <2>11. NoneLeftOut'
    BY <2>1, <2>10 DEF NoneLeftOut, CanServe, HasPreInstalledVersion
  <2> QED
    BY <2>6, <2>7, <2>8, <2>9, <2>11
<1>4. ASSUME NEW switch \in BOOLEAN, Reboot(switch)
      PROVE  SafeInv'
  <2>1. /\ phase' = "scan" /\ job' = Idle /\ slot' \in DOMAIN Images
        /\ other' \in DOMAIN Images \cup {NoImage}
        /\ mounted' = [p \in Packages |-> {}] /\ chroot' = [p \in Packages |-> {}]
        /\ data' = [p \in Packages |-> Nothing] /\ failed' = [p \in Packages |-> "no"]
        /\ boots' = boots + 1
        /\ UNCHANGED <<file, active, reserved, taken, held, updates, changes, faults>>
    BY <1>4 DEF Reboot, Typed
  <2>2. estimate' \in EstimateType
    BY <1>4 DEF Reboot, Typed, EstimateType
  <2>3. Typed'
    BY <2>1, <2>2, IdleJob DEF Typed
  <2>4. JobRuns' /\ OneAtATime' /\ ReadyIsValid' /\ BootExtracts'
    BY <2>1, IdleJob DEF JobRuns, OneAtATime, ReadyIsValid, BootExtracts, IsBoot, InChroot
  <2>5. MountsAreValid' /\ NoneLeftOut'
    BY <2>1, IdleJob DEF MountsAreValid, ActiveIsValid, MountedFilesStay, NoneLeftOut, CanServe, IsBoot
  <2> QED
    BY <2>3, <2>4, <2>5
<1> QED
  BY <1>1, <1>2, <1>3, <1>4

-----------------------------------------------------------------------------
(* Activation, and the clean-up after it.                                   *)

(* What is mounted of x, which is not gone.                                 *)
LEMMA MountIs ==
  ASSUME SafeInv, job.mode # "idle", NEW x \in ToActivate, ~Gone(x[1], x[2]),
         NEW m, m = MountOf(x[1], x[2])
  PROVE  /\ m \in Mounts /\ m.from = x[2] /\ x[1] \in Packages
         /\ m.from = "data" => m.ver = active[x[1]]
         /\ m.from \in Kinds =>
              /\ m.ver = Capex(x[1]).ver /\ m.build = Capex(x[1]).build
              /\ IsBoot => m.from = "decompressed"
              /\ file[m.from][x[1]][m.ver] = m.build
<1> USE DEF SafeInv
<1>1. /\ x[1] \in Packages /\ x[2] \in Froms \cup Kinds /\ job.image \in DOMAIN Images
      /\ x[2] \in Kinds => x \in job.ready
  BY DEF Typed, JobType, JobRuns, IsBoot, InChroot, ToActivate, Froms, Kinds
<1>2. /\ Capex(x[1]).ver \in PreVersions /\ Capex(x[1]).build \in Builds
  BY <1>1, ImagesAre DEF Capex
<1>3. CASE x[2] = "data"
  <2>1. m = [from |-> "data", ver |-> active[x[1]], build |-> Nothing]
    BY <1>3 DEF MountOf, Kinds
  <2>2. active[x[1]] \in DataVersions
    BY <1>1, <1>3 DEF Gone, Typed
  <2> QED
    BY <1>1, <1>3, <2>1, <2>2 DEF Mounts, Kinds
<1>4. CASE x[2] = "system"
  <2>1. m = [from |-> "system", ver |-> Capex(x[1]).ver, build |-> Capex(x[1]).build]
    BY <1>4 DEF MountOf, Kinds
  <2> QED
    BY <1>1, <1>2, <1>4, <2>1 DEF Mounts, Kinds
<1>5. CASE x[2] \in Kinds
  <2>1. m = [from |-> x[2], ver |-> Capex(x[1]).ver, build |-> FileOf(x[2], x[1])]
    BY <1>5 DEF MountOf, FileOf, Kinds
  <2>2. FileOf(x[2], x[1]) = Capex(x[1]).build /\ (IsBoot => x[2] = "decompressed")
    BY <1>1, <1>5 DEF ReadyIsValid, Gone, FileOf
  <2> QED
    BY <1>1, <1>2, <1>5, <2>1, <2>2 DEF Mounts, Kinds, FileOf
<1> QED
  BY <1>1, <1>3, <1>4, <1>5 DEF Froms

(* ActivateApexPackages, and ActivateMissingApexes after it.                 *)
LEMMA ActivateSafe ==
  ASSUME SafeInv, NEW bad \in SUBSET ToActivate, Activate(bad)
  PROVE  SafeInv'
<1> USE DEF SafeInv, disk
<1> DEFINE good == ToActivate \ bad
           base == IF IsBoot THEN mounted ELSE chroot
           now == With(base, good)
           missing == FallBack(bad, now)
           hopeless == {p \in Packages : <<p, "data">> \in bad => p \in SharedLibs}
                         \cap {x[1] : x \in bad}
           again == job.round = 1 /\ bad # {}
<1>1. /\ job.mode # "idle" /\ job.todo = {} /\ job.at = {}
      /\ {x \in ToActivate : Gone(x[1], x[2])} \subseteq bad
      /\ mounted' = (IF IsBoot THEN now ELSE mounted)
      /\ chroot' = (IF IsBoot THEN chroot ELSE now)
      /\ failed' = IF IsBoot THEN [p \in Packages |-> IF p \in hopeless THEN "fault" ELSE failed[p]]
                             ELSE failed
      /\ estimate' = [estimate EXCEPT !.firm = @ /\ bad = {}]
      /\ again => job' = Job(job.mode, job.image, 2, missing) /\ phase' = phase
      /\ ~again /\ IsBoot => job' = Idle /\ phase' = "up"
      /\ ~again /\ ~IsBoot => job' = [job EXCEPT !.round = 3] /\ phase' = phase
      /\ faults' \in {faults, faults + 1}
      /\ UNCHANGED <<disk, data, held, updates, boots, changes>>
  BY DEF Activate
<1>2. /\ job.mode \in {"boot", "chroot"} /\ job.image \in DOMAIN Images /\ job \in JobType
      /\ IsBoot <=> ~InChroot
  BY <1>1 DEF Typed, JobType, JobRuns, IsBoot, InChroot
<1>3. \A p \in Packages : now[p] = base[p] \cup {MountOf(p, x[2]) : x \in {y \in good : y[1] = p}}
  BY DEF With
<1>4. ASSUME NEW p \in Packages, NEW m \in now[p]
      PROVE  /\ m \in Mounts
             /\ m \in base[p] \/
                  /\ m.from = "data" => m.ver = active[p]
                  /\ m.from \in Kinds =>
                       /\ m.ver = Capex(p).ver /\ m.build = Capex(p).build
                       /\ IsBoot => m.from = "decompressed"
                       /\ file[m.from][p][m.ver] = m.build
  <2>1. CASE m \in base[p]
    BY <1>2, <2>1 DEF Typed
  <2>2. CASE m \notin base[p]
    <3>1. PICK x \in good : x[1] = p /\ m = MountOf(p, x[2])
      <4>1. m \in {MountOf(p, x[2]) : x \in {y \in good : y[1] = p}}
        BY <1>3, <1>4, <2>2
      <4> QED
        BY <4>1
    <3>2. x \in ToActivate /\ ~Gone(x[1], x[2])
      BY <1>1, <3>1
    <3> QED
      BY <1>1, <3>1, <3>2, MountIs
  <2> QED
    BY <2>1, <2>2
<1>5. now \in [Packages -> SUBSET Mounts]
  <2>1. now = [p \in Packages |-> now[p]]
    BY DEF With
  <2> QED
    BY <1>4, <2>1
<1> HIDE DEF now
<1>6. /\ missing \in SUBSET (Packages \X Froms)
      /\ \A p \in Packages : <<p, "system">> \in missing <=>
           p \notin SharedLibs /\ <<p, "data">> \in bad /\ now[p] = {}
      /\ \A p \in Packages : <<p, "data">> \notin missing
  <2>1. missing = {<<p, "system">> :
                     p \in {q \in Packages \ SharedLibs : <<q, "data">> \in bad /\ now[q] = {}}}
    BY DEF FallBack
  <2> HIDE DEF missing
  <2>2. missing \in SUBSET (Packages \X Froms)
    <3>1. ASSUME NEW x \in missing
          PROVE  x \in Packages \X Froms
      <4>1. PICK p \in Packages : x = <<p, "system">>
        BY <2>1
      <4> QED
        BY <4>1 DEF Froms
    <3> QED
      BY <3>1
  <2>3. \A p \in Packages : <<p, "system">> \in missing <=>
           p \notin SharedLibs /\ <<p, "data">> \in bad /\ now[p] = {}
    BY <2>1
  <2>4. \A p \in Packages : <<p, "data">> \notin missing
    BY <2>1
  <2> QED
    BY <2>2, <2>3, <2>4
<1>7. again => /\ job' \in JobType /\ job'.mode = job.mode /\ job'.image = job.image
               /\ job'.round = 2 /\ job'.chosen = missing /\ job'.at = {} /\ job'.ready = {}
               /\ job'.todo = Compressed(job.image, missing)
  <2> HIDE DEF missing
  <2> QED
    BY <1>1, <1>2, <1>6, JobStarts
<1>8. ~again /\ ~IsBoot => /\ job' \in JobType /\ SameJob([job' EXCEPT !.round = job.round])
                           /\ job'.mode = job.mode /\ job'.image = job.image /\ job'.round = 3
                           /\ job'.todo = job.todo /\ job'.at = job.at /\ job'.ready = job.ready
                           /\ job'.chosen = job.chosen
  BY <1>1, <1>2 DEF JobType, SameJob
<1> HIDE DEF missing
<1>9. Typed'
  <2>1. job' \in JobType
    BY <1>1, <1>7, <1>8, IdleJob
  <2>2. estimate' \in EstimateType
    BY <1>1 DEF Typed, EstimateType
  <2>3. failed' \in [Packages -> {"no", "space", "fault"}]
    BY <1>1 DEF Typed
  <2>4. mounted' \in [Packages -> SUBSET Mounts] /\ chroot' \in [Packages -> SUBSET Mounts]
    BY <1>1, <1>5 DEF Typed
  <2> QED
    BY <1>1, <2>1, <2>2, <2>3, <2>4 DEF Typed
<1>10. JobRuns'
  <2>1. CASE again
    BY <1>1, <1>2, <1>6, <1>7, <2>1 DEF JobRuns, IsBoot, InChroot
  <2>2. CASE ~again /\ IsBoot
    <3>1. job' = Idle /\ phase' = "up" /\ phase = "boot" /\ chroot' = chroot /\ ~InChroot
      BY <1>1, <1>2, <2>2 DEF JobRuns
    <3> QED
      BY <3>1, IdleJob DEF JobRuns, IsBoot, InChroot
  <2>3. CASE ~again /\ ~IsBoot
    BY <1>1, <1>2, <1>8, <2>3 DEF JobRuns, IsBoot, InChroot
  <2> QED
    BY <2>1, <2>2, <2>3
<1>11. OneAtATime' /\ ReadyIsValid'
  BY <1>1, <1>2, <1>7, <1>8, IdleJob DEF OneAtATime, ReadyIsValid, IsBoot, InChroot, FileOf, Capex
<1>12. BootExtracts'
  BY <1>1, <1>2, <1>6, <1>7, <1>8, IdleJob DEF BootExtracts, IsBoot, InChroot, Compressed
<1>13. MountsAreValid'
  <2>1. ASSUME NEW p \in Packages, NEW m \in mounted'[p]
        PROVE  /\ m.from \in Kinds =>
                    /\ m.ver = Images[slot][p].ver /\ m.build = Images[slot][p].build
                    /\ m.from = "decompressed" /\ file["decompressed"][p][m.ver] = m.build
               /\ m.from = "data" => active[p] = m.ver
    <3>1. CASE m \in mounted[p]
      BY <3>1 DEF MountsAreValid, ActiveIsValid, MountedFilesStay
    <3>2. CASE m \notin mounted[p]
      <4>1. IsBoot /\ m \in now[p] /\ m \notin base[p] /\ job.image = slot
        BY <1>1, <2>1, <3>2 DEF JobRuns
      <4> QED
        BY <1>4, <4>1 DEF Capex
    <3> QED
      BY <3>1, <3>2
  <2>2. ASSUME NEW p \in Packages, NEW m \in chroot'[p], m.from \in Kinds
        PROVE  m.ver = Images[job'.image][p].ver /\ m.build = Images[job'.image][p].build
    <3>1. ~IsBoot
      BY <1>1, <1>2, <2>2 DEF JobRuns
    <3>2. job'.image = job.image /\ m \in now[p]
      BY <1>1, <1>7, <1>8, <2>2, <3>1
    <3> QED
      BY <1>4, <2>2, <3>1, <3>2 DEF MountsAreValid, ActiveIsValid, Capex
  <2>3. ActiveIsValid'
    BY <1>1, <2>1, <2>2 DEF ActiveIsValid
  <2>4. MountedFilesStay'
    BY <1>1, <2>1 DEF MountedFilesStay
  <2> QED
    BY <2>3, <2>4 DEF MountsAreValid
<1>14. NoneLeftOut'
  <2> SUFFICES ASSUME NEW p \in Packages, HasPreInstalledVersion(slot, p), failed'[p] = "no"
               PROVE  /\ CanServe' => mounted'[p] # {}
                      /\ IsBoot' => mounted'[p] # {} \/ Covered(p)'
    BY <1>1 DEF NoneLeftOut, HasPreInstalledVersion
  <2>1. CASE ~IsBoot
    BY <1>1, <1>2, <1>7, <1>8, <2>1 DEF NoneLeftOut, CanServe, IsBoot
  <2>2. CASE IsBoot
    <3>1. failed[p] = "no" /\ p \notin hopeless
      BY <1>1, <2>2
    <3>2. mounted[p] # {} \/ \E x \in ToActivate : x[1] = p
      BY <1>1, <2>2, <3>1 DEF NoneLeftOut, Covered
    <3>3. CASE now[p] # {}
      BY <1>1, <2>2, <3>3
    <3>4. CASE now[p] = {}
      <4>1. mounted[p] = {} /\ \A x \in good : x[1] # p
        BY <1>3, <2>2, <3>4
      <4>2. PICK x \in bad : x[1] = p
        BY <3>2, <4>1
      <4>3. <<p, "data">> \in bad /\ p \notin SharedLibs
        BY <3>1, <4>2
      <4>4. <<p, "system">> \in missing
        BY <1>6, <3>4, <4>3
      <4>5. again
        <5>1. <<p, "data">> \in job.chosen
          BY <4>3 DEF ToActivate, Typed, JobType, Kinds
        <5> QED
          BY <2>2, <4>3, <5>1 DEF JobRuns
      <4>6. phase' = "boot"
        BY <1>1, <2>2, <4>5 DEF JobRuns
      <4>7. Covered(p)'
        <5>1. CASE Images[job.image][p].compressed
          BY <1>7, <4>4, <4>5, <5>1 DEF Covered, Compressed
        <5>2. CASE ~Images[job.image][p].compressed
          <6>1. <<p, "system">> \in ToActivate' /\ <<p, "system">>[1] = p
            BY <1>7, <4>4, <4>5, <5>2 DEF ToActivate
          <6> QED
            BY <6>1 DEF Covered
        <5> QED
          BY <5>1, <5>2
      <4> QED
        BY <4>6, <4>7 DEF CanServe
    <3> QED
      BY <3>3, <3>4
  <2> QED
    BY <2>1, <2>2
<1> QED
  BY <1>9, <1>10, <1>11, <1>12, <1>13, <1>14

(* BootCompletedCleanup keeps what is mounted.                              *)
LEMMA CleanupSafe ==
  ASSUME SafeInv, RemoveInactiveDataApex
  PROVE  SafeInv'
<1> USE DEF SafeInv
<1>1. /\ phase = "up" /\ phase' = "done"
      /\ UNCHANGED <<reserved, taken, slot, other, mounted, chroot, data, job, history>>
      /\ active' = [p \in Packages |->
           IF \E m \in mounted[p] : m.from = "data" /\ m.ver = active[p] THEN active[p] ELSE Nothing]
      /\ file' = [file EXCEPT !["decompressed"] = [p \in Packages |-> [v \in PreVersions |->
           IF \E m \in mounted[p] : m.from = "decompressed" /\ m.ver = v
           THEN file["decompressed"][p][v] ELSE Nothing]]]
  BY DEF RemoveInactiveDataApex
<1>2. ~IsBoot /\ file \in FileType
  BY <1>1 DEF JobRuns, Typed
<1>3. /\ file' \in FileType
      /\ \A p \in Packages, v \in PreVersions :
           /\ file'["ota"][p][v] = file["ota"][p][v]
           /\ file'["decompressed"][p][v] =
                IF \E m \in mounted[p] : m.from = "decompressed" /\ m.ver = v
                THEN file["decompressed"][p][v] ELSE Nothing
  BY <1>1, <1>2 DEF FileType, Kinds
<1>4. Typed'
  BY <1>1, <1>3 DEF Typed, history
<1>5. JobRuns' /\ OneAtATime' /\ BootExtracts'
  BY <1>1, <1>2 DEF JobRuns, OneAtATime, BootExtracts, IsBoot, InChroot
<1>6. ReadyIsValid'
  <2>1. ASSUME NEW x \in job.ready
        PROVE  FileOf(x[2], x[1])' \in {FileOf(x[2], x[1]), Nothing}
    <3>1. /\ job.mode # "idle" /\ x[1] \in Packages
          /\ x[2] = "decompressed" \/ x[2] = "ota"
      BY IdleJob DEF JobRuns, Typed, JobType, Kinds
    <3>2. Capex(x[1]).ver \in PreVersions
      BY <1>2, <3>1, ImagesAre DEF JobRuns, Capex, Typed, JobType, InChroot, IsBoot
    <3> QED
      <4>1. FileOf(x[2], x[1])' = file'[x[2]][x[1]][Capex(x[1]).ver]
        BY <1>1 DEF FileOf, Capex
      <4>2. CASE x[2] = "ota"
        BY <1>3, <3>1, <3>2, <4>1, <4>2 DEF FileOf
      <4>3. CASE x[2] = "decompressed"
        BY <1>3, <3>1, <3>2, <4>1, <4>3 DEF FileOf
      <4> QED
        BY <3>1, <4>2, <4>3
  <2> QED
    BY <1>1, <1>2, <2>1 DEF ReadyIsValid, Capex, IsBoot
<1>7. MountsAreValid'
  <2>1. ActiveIsValid'
    BY <1>1 DEF MountsAreValid, ActiveIsValid
  <2>2. ASSUME NEW p \in Packages, NEW m \in mounted[p], m.from \in Kinds
        PROVE  m.from = "decompressed" /\ file'["decompressed"][p][m.ver] = m.build
    <3>1. /\ m.from = "decompressed" /\ file["decompressed"][p][m.ver] = m.build
          /\ m.ver = Images[slot][p].ver
      BY <2>2 DEF MountsAreValid, MountedFilesStay, ActiveIsValid
    <3>2. m.ver \in PreVersions
      BY <3>1, ImagesAre DEF Typed
    <3> QED
      BY <1>3, <3>1, <3>2
  <2>3. ASSUME NEW p \in Packages, NEW m \in mounted[p], m.from = "data"
        PROVE  active'[p] = m.ver
    BY <1>1, <2>3 DEF MountsAreValid, MountedFilesStay
  <2>4. MountedFilesStay'
    BY <1>1, <2>2, <2>3 DEF MountedFilesStay
  <2> QED
    BY <2>1, <2>4 DEF MountsAreValid
<1>8. NoneLeftOut'
  BY <1>1, <1>2 DEF NoneLeftOut, CanServe, IsBoot, HasPreInstalledVersion, history
<1> QED
  BY <1>4, <1>5, <1>6, <1>7, <1>8

-----------------------------------------------------------------------------
LEMMA SafeInit == Init => SafeInv
<1> SUFFICES ASSUME Init
             PROVE  SafeInv
  OBVIOUS
<1> USE DEF Init
<1>1. Typed
  <2>1. estimate \in EstimateType
    BY DEF NoEstimate, EstimateType
  <2>2. slot \in DOMAIN Images
    BY ImagesAssumption
  <2>3. file \in FileType
    BY DEF FileType
  <2> QED
    BY <2>1, <2>2, <2>3, IdleJob DEF Typed
<1>2. JobRuns /\ OneAtATime /\ ReadyIsValid /\ BootExtracts
  BY IdleJob DEF JobRuns, OneAtATime, ReadyIsValid, BootExtracts, IsBoot, InChroot
<1>3. MountsAreValid /\ NoneLeftOut
  BY IdleJob DEF MountsAreValid, ActiveIsValid, MountedFilesStay, NoneLeftOut, CanServe, IsBoot
<1> QED
  BY <1>1, <1>2, <1>3 DEF SafeInv

LEMMA SafeNext == SafeInv /\ [Next]_vars => SafeInv'
<1> SUFFICES ASSUME SafeInv, [Next]_vars
             PROVE  SafeInv'
  OBVIOUS
<1>1. CASE UNCHANGED vars
  <2> USE <1>1 DEF vars, disk, memory, history, SafeInv, IsBoot, InChroot, FileOf, Capex
  <2>1. Typed'
    BY DEF Typed
  <2>2. JobRuns' /\ OneAtATime' /\ ReadyIsValid' /\ BootExtracts'
    BY DEF JobRuns, OneAtATime, ReadyIsValid, BootExtracts
  <2>3. MountsAreValid'
    BY DEF MountsAreValid, ActiveIsValid, MountedFilesStay
  <2>4. NoneLeftOut'
    BY DEF NoneLeftOut, CanServe, Covered, ToActivate, HasPreInstalledVersion
  <2> QED
    BY <2>1, <2>2, <2>3, <2>4
<1>2. CASE ProcessCompressedApex
  BY <1>2, StepsProcess, ProcessSafe DEF ProcessCompressedApex, Steps
<1> QED
  BY <1>1, <1>2, RequestSafe, AsideSafe, BootSafe, ActivateSafe, CleanupSafe DEF Next

LEMMA Safe == Spec => []SafeInv
BY SafeInit, SafeNext, PTL DEF Spec

(* Every variable keeps its type, and at most one CAPEX is decompressed at a *)
(* time.                                                                    *)
THEOREM TypeCorrect == Spec => []TypeOK
<1>1. SafeInv => TypeOK
  <2> SUFFICES ASSUME SafeInv
               PROVE  TypeOK
    OBVIOUS
  <2>1. Cardinality(job.at) <= 1
    <3>1. CASE job.at = {}
      BY <3>1, FS_EmptySet
    <3>2. CASE job.at # {}
      <4>1. PICK p \in job.at : TRUE
        BY <3>2
      <4>2. job.at = {p}
        BY DEF SafeInv, OneAtATime
      <4>3. Cardinality({p}) = 1
        BY FS_Singleton
      <4> QED
        BY <4>2, <4>3
    <3> QED
      BY <3>1, <3>2
  <2> QED
    BY <2>1 DEF SafeInv, Typed, OneAtATime, JobType, EstimateType, FileType, TypeOK
<1> QED
  BY <1>1, Safe, PTL

(* Neither system activates a decompressed file that is not, build for       *)
(* build, what the CAPEX of its own image holds, whatever files other        *)
(* images, cancelled updates and losses of power have left.                 *)
THEOREM OnlyValidIsActive == Spec => []ActiveIsValid
<1>1. SafeInv => ActiveIsValid
  BY DEF SafeInv, MountsAreValid
<1> QED
  BY <1>1, Safe, PTL

(* No file that an active APEX is mounted from is deleted or written again,  *)
(* by the chroot, the clean-up or a call.                                   *)
THEOREM MountedStay == Spec => []MountedFilesStay
<1>1. SafeInv => MountedFilesStay
  BY DEF SafeInv, MountsAreValid
<1> QED
  BY <1>1, Safe, PTL

(* Every pre-installed package is active after a boot, unless its pre-       *)
(* installed APEX could not be extracted or was itself what failed to mount, *)
(* or it provides shared libraries.  A data APEX that fails, or is gone, has  *)
(* the pre-installed one behind it (ActivateMissingApexes).                  *)
THEOREM NoPackageIsLeftOut == Spec => []EveryPackageIsActive
<1>1. SafeInv => EveryPackageIsActive
  BY DEF SafeInv, NoneLeftOut, EveryPackageIsActive
<1> QED
  BY <1>1, Safe, PTL

-----------------------------------------------------------------------------
(* The chroot is that of the update, unless that was cancelled; what it is    *)
(* extracting is not there yet.                                             *)
OtaInv ==
  InChroot =>
    /\ estimate.for \in {job.image, NoImage}
    /\ \A p \in job.at : FileOf("ota", p) \in {Partial, Nothing}

LEMMA OtaNext == SafeInv /\ OtaInv /\ [Next]_vars => OtaInv'
<1> SUFFICES ASSUME SafeInv, OtaInv, [Next]_vars, InChroot'
             PROVE  /\ (estimate').for \in {job'.image, NoImage}
                    /\ \A p \in job'.at : FileOf("ota", p)' \in {Partial, Nothing}
  BY DEF OtaInv
<1> USE DEF SafeInv, OtaInv, disk, memory, history
<1>1. ASSUME UNCHANGED job, (estimate').for = estimate.for, UNCHANGED file \/ RemoveInactiveDataApex
      PROVE  /\ (estimate').for \in {job'.image, NoImage}
             /\ \A p \in job'.at : FileOf("ota", p)' \in {Partial, Nothing}
  <2>1. file'["ota"] = file["ota"]
    BY <1>1 DEF RemoveInactiveDataApex, Typed, FileType, Kinds
  <2> QED
    BY <1>1, <2>1 DEF FileOf, Capex, InChroot
<1>2. CASE UNCHANGED vars \/ UseSpace \/ RemoveInactiveDataApex \/ InitializeDataApex
  BY <1>1, <1>2 DEF vars, UseSpace, RemoveInactiveDataApex, InitializeDataApex
<1>3. ASSUME NEW p \in Packages, NEW v \in DataVersions \cup {Nothing}, ChangeActive(p, v)
      PROVE  /\ (estimate').for \in {job'.image, NoImage}
             /\ \A q \in job'.at : FileOf("ota", q)' \in {Partial, Nothing}
  BY <1>1, <1>3 DEF ChangeActive, Typed, EstimateType
<1>4. ASSUME NEW i \in DOMAIN Images, ReserveSpace(i) \/ ReserveSpaceFails(i)
      PROVE  FALSE
  BY <1>4, IdleJob DEF ReserveSpace, ReserveSpaceFails, InChroot
<1>5. CASE CancelUpdate
  <2>1. /\ file' = WithoutOta(file) /\ job' = job /\ (estimate').for = NoImage
    BY <1>5 DEF CancelUpdate, NoEstimate
  <2>2. InChroot /\ job.image \in DOMAIN Images
    BY <2>1 DEF JobRuns, InChroot
  <2>3. ASSUME NEW p \in job.at
        PROVE  FileOf("ota", p)' = Nothing
    <3>1. p \in Packages /\ Capex(p).ver \in PreVersions /\ file \in FileType
      BY <2>2, ImagesAre DEF Typed, JobType, Capex
    <3> QED
      BY <2>1, <3>1, OtaRemoved DEF FileOf, Capex
  <2> QED
    BY <2>1, <2>3
<1>6. ASSUME NEW p \in Packages, Steps(p)
      PROVE  /\ (estimate').for \in {job'.image, NoImage}
             /\ \A q \in job'.at : FileOf("ota", q)' \in {Partial, Nothing}
  <2>1. JobMoves(p) /\ (estimate').for = estimate.for
    BY <1>6, StepsProcess, JobOf DEF Processes, Typed, EstimateType
  <2>2. job'.image = job.image /\ InChroot /\ Target = "ota"
    BY <2>1 DEF JobMoves, SameJob, InChroot, Target
  <2> QED
    BY <2>1, <2>2 DEF JobMoves, FileOf, Capex
<1>7. ASSUME NEW bad \in SUBSET ToActivate, Activate(bad)
      PROVE  /\ (estimate').for \in {job'.image, NoImage}
             /\ \A q \in job'.at : FileOf("ota", q)' \in {Partial, Nothing}
  <2>1. (estimate').for = estimate.for /\ job.at = {}
    BY <1>7 DEF Activate, Typed, EstimateType
  <2>2. job.mode \in {"boot", "chroot"} /\ job.image \in DOMAIN Images /\ job \in JobType
    BY <1>7 DEF Activate, Typed, JobType, JobRuns, IsBoot, InChroot
  <2>3. \/ job' = Idle
        \/ \E missing \in SUBSET (Packages \X Froms) : job' = Job(job.mode, job.image, 2, missing)
        \/ job' = [job EXCEPT !.round = 3]
    <3>1. ASSUME NEW m
          PROVE  FallBack(bad, m) \in SUBSET (Packages \X Froms)
      <4>1. ASSUME NEW x \in FallBack(bad, m)
            PROVE  x \in Packages \X Froms
        <5>1. PICK p \in Packages : x = <<p, "system">>
          BY <4>1 DEF FallBack
        <5> QED
          BY <5>1 DEF Froms
      <4> QED
        BY <4>1
    <3> QED
      BY <1>7, <3>1 DEF Activate
  <2>4. job'.mode = job.mode /\ job'.image = job.image /\ job'.at = {}
    <3>1. job' # Idle
      BY IdleJob DEF InChroot
    <3> QED
      BY <2>1, <2>2, <2>3, <3>1, JobStarts DEF JobType
  <2> QED
    BY <2>1, <2>4 DEF InChroot
<1>8. CASE OnOtaChrootBootstrap
  <2> DEFINE chosen == SelectApexForActivation(other, AddDataApex(other))
  <2>1. /\ other \in DOMAIN Images /\ other = estimate.for /\ estimate' = estimate
        /\ job' = Job("chroot", other, 1, chosen)
    BY <1>8 DEF OnOtaChrootBootstrap, Typed
  <2>2. job'.image = other /\ job'.at = {}
    BY <2>1 DEF Job
  <2> QED
    BY <2>1, <2>2
<1>9. LeaveChroot \/ OnStart \/ (\E switch \in BOOLEAN : Reboot(switch)) => FALSE
  BY IdleJob DEF LeaveChroot, OnStart, Job, Reboot, InChroot
<1> QED
  BY <1>2, <1>3, <1>4, <1>5, <1>6, <1>7, <1>8, <1>9 DEF Next, ProcessCompressedApex, Steps

(* What was extracted for an update is still there after a step, unless the  *)
(* slot is switched, there is a new request, or it is found invalid.  What    *)
(* both slots can use stays, unless a boot is completed without using it.     *)
OtaKept(p) ==
  LET a == Images[estimate.for][p]
      unused == phase = "up" /\ ~\E m \in mounted[p] : m.from = "decompressed" /\ m.ver = a.ver
  IN estimate.for # NoImage /\ (estimate').for = estimate.for /\ updates' = updates
     /\ slot # estimate.for /\ a.compressed =>
       /\ file["ota"][p][a.ver] = a.build =>
            \/ a.build \in {file'["ota"][p][a.ver], file'["decompressed"][p][a.ver]}
            \/ RenamedIsInvalid(p)
       /\ file["decompressed"][p][a.ver] = a.build /\ Images[slot][p] = a =>
            file'["decompressed"][p][a.ver] = a.build \/ unused

LEMMA OtaStep ==
  ASSUME SafeInv, OtaInv, [Next]_vars, NEW p \in Packages
  PROVE  OtaKept(p)
<1> DEFINE a == Images[estimate.for][p]
           ota == file["ota"][p][a.ver]
           dec == file["decompressed"][p][a.ver]
           OtaStays1 == ota = a.build =>
             \/ a.build \in {file'["ota"][p][a.ver], file'["decompressed"][p][a.ver]}
             \/ RenamedIsInvalid(p)
           DecStays1 == dec = a.build /\ Images[slot][p] = a =>
             \/ file'["decompressed"][p][a.ver] = a.build
             \/ phase = "up" /\ ~\E m \in mounted[p] : m.from = "decompressed" /\ m.ver = a.ver
<1> SUFFICES ASSUME estimate.for # NoImage, (estimate').for = estimate.for, updates' = updates
             PROVE  OtaStays1 /\ DecStays1
  BY DEF OtaKept
<1> USE DEF SafeInv
<1>1. /\ estimate.for \in DOMAIN Images /\ a.ver \in PreVersions /\ a.build \in Nat \ {0}
      /\ file \in FileType /\ "ota" \in Kinds /\ "decompressed" \in Kinds /\ updates \in Nat
  BY ImagesAre DEF Typed, EstimateType, Kinds
<1>2. CASE file' = file
  BY <1>2
<1>3. ASSUME NEW i \in DOMAIN Images, ReserveSpace(i) \/ ReserveSpaceFails(i)
      PROVE  FALSE
  BY <1>1, <1>3 DEF ReserveSpace, ReserveSpaceFails
<1>4. CASE CancelUpdate
  BY <1>4 DEF CancelUpdate, NoEstimate
<1>5. CASE RemoveInactiveDataApex
  <2>1. file'["ota"] = file["ota"]
    BY <1>1, <1>5 DEF RemoveInactiveDataApex, FileType
  <2>2. /\ phase = "up"
        /\ file'["decompressed"][p][a.ver] =
             IF \E m \in mounted[p] : m.from = "decompressed" /\ m.ver = a.ver
             THEN dec ELSE Nothing
    BY <1>1, <1>5 DEF RemoveInactiveDataApex, FileType
  <2> QED
    BY <2>1, <2>2
<1>6. ASSUME NEW q \in Packages, Steps(q)
      PROVE  OtaStays1 /\ DecStays1
  <2> DEFINE v == Capex(q).ver
  <2>1. /\ q \in job.todo /\ v \in PreVersions /\ (IsBoot \/ InChroot) /\ ~(IsBoot /\ InChroot)
        /\ Capex(q).build \in Nat \ {0} /\ FilesOfOthersStay(q)
    <3>1. Processes(q)
      BY <1>6, StepsProcess
    <3> QED
      BY <3>1, InJob DEF IsBoot, InChroot, Processes
  <2>2. CASE q # p \/ v # a.ver
    BY <1>1, <2>1, <2>2 DEF FilesOfOthersStay
  <2>3. CASE q = p /\ v = a.ver /\ InChroot
    <3>1. Target = "ota" /\ Capex(p) = a /\ ~IsBoot
      BY <2>1, <2>3 DEF Target, OtaInv, Capex
    <3>2. DecStays1
      BY <1>1, <2>1, <2>3 DEF FilesOfOthersStay
    <3>3. ASSUME ota = a.build
          PROVE  file' = file
      <4>1. ota \notin {Partial, Nothing}
        BY <1>1, <3>3 DEF Partial, Nothing
      <4>2. p \notin job.at
        BY <2>3, <3>1, <4>1 DEF OtaInv, FileOf
      <4>3. ValidateDecompressedApex("ota", p)
        BY <3>1, <3>3 DEF ValidateDecompressedApex
      <4>4. Reuse(q) \/ ReuseOta(q)
        BY <1>1, <1>6, <2>3, <3>1, <4>2, <4>3 DEF Steps, BeginDecompress, EndDecompress, FailDecompress,
           RenameFails, RenamedIsInvalid, RenameGoesWrong
      <4> QED
        BY <2>3, <4>4 DEF ReuseOta, Reuse, disk
    <3> QED
      BY <3>2, <3>3
  <2>4. CASE q = p /\ v = a.ver /\ IsBoot
    <3>1. Target = "decompressed" /\ Capex(p) = Images[slot][p]
      BY <2>1, <2>4 DEF Target, JobRuns, Capex
    <3>2. OtaStays1
      <4>1. CASE Reuse(q)
        BY <4>1 DEF Reuse, disk
      <4>2. CASE ReuseOta(q)
        <5>1. file' = [file EXCEPT !["decompressed"][q][v] = file["ota"][q][v],
                                   !["ota"][q][v] = Nothing]
          BY <2>1, <2>4, <4>2 DEF ReuseOta
        <5>2. file'["decompressed"][q][v] = file["ota"][q][v]
          BY <1>1, <2>1, <5>1 DEF FileType
        <5> QED
          BY <2>4, <5>2
      <4>3. CASE RenamedIsInvalid(q)
        BY <2>4, <4>3
      <4>4. CASE BeginDecompress(q) \/ RenameFails(q) \/ EndDecompress(q) \/ FailDecompress(q)
        <5>1. file'["ota"] = file["ota"]
          BY <1>1, <3>1, <4>4 DEF BeginDecompress, RenameFails, StartDecompress, EndDecompress,
             FailDecompress, FileType
        <5> QED
          BY <5>1
      <4> QED
        BY <1>6, <4>1, <4>2, <4>3, <4>4 DEF Steps
    <3>3. ASSUME dec = a.build, Images[slot][p] = a
          PROVE  file' = file
      <4>1. ValidateDecompressedApex("decompressed", p)
        BY <3>1, <3>3 DEF ValidateDecompressedApex
      <4>2. p \notin job.at
        <5>1. p \in job.at => dec = Partial
          BY <2>4 DEF BootExtracts, FileOf
        <5> QED
          BY <1>1, <3>3, <5>1 DEF Partial
      <4>3. Reuse(q)
        BY <1>1, <1>6, <2>4, <4>1, <4>2 DEF Steps, ReuseOta, BeginDecompress, EndDecompress,
           FailDecompress, RenameFails, RenamedIsInvalid, RenameGoesWrong
      <4> QED
        BY <4>3 DEF Reuse, disk
    <3> QED
      BY <3>2, <3>3
  <2> QED
    BY <2>1, <2>2, <2>3, <2>4
<1>8. CASE ProcessCompressedApex
  BY <1>6, <1>8 DEF ProcessCompressedApex, Steps
<1>9. UNCHANGED vars \/ UseSpace \/ (\E bad \in SUBSET ToActivate : Activate(bad))
      \/ OnOtaChrootBootstrap \/ LeaveChroot \/ (\E switch \in BOOLEAN : Reboot(switch))
      \/ (\E q \in Packages, v \in DataVersions \cup {Nothing} : ChangeActive(q, v))
      \/ OnStart \/ InitializeDataApex => file' = file
  BY DEF vars, disk, UseSpace, Activate, OnOtaChrootBootstrap, LeaveChroot, Reboot, ChangeActive,
     OnStart, InitializeDataApex
<1> QED
  BY <1>2, <1>3, <1>4, <1>5, <1>8, <1>9 DEF Next

(* What was extracted ahead for the other slot stays while the old one is    *)
(* booted, in one place or the other that slot looks for it, unless it is     *)
(* found invalid or a boot that did not activate the renamed file completes.  *)
THEOREM OtaStays == Spec => OtaIsKept
<1>1. Init => OtaInv
  BY IdleJob DEF Init, OtaInv, InChroot
<1>2. SafeInv /\ OtaInv /\ [Next]_vars =>
        [\A p \in Packages :
           LET a == Images[estimate.for][p]
               unused == phase = "up" /\ ~\E m \in mounted[p] : m.from = "decompressed" /\ m.ver = a.ver
           IN estimate.for # NoImage /\ (estimate').for = estimate.for /\ updates' = updates
              /\ slot # estimate.for /\ a.compressed =>
                /\ file["ota"][p][a.ver] = a.build =>
                     \/ a.build \in {file'["ota"][p][a.ver], file'["decompressed"][p][a.ver]}
                     \/ RenamedIsInvalid(p)
                /\ file["decompressed"][p][a.ver] = a.build /\ Images[slot][p] = a =>
                     file'["decompressed"][p][a.ver] = a.build \/ unused]_vars
  BY OtaStep DEF OtaKept
<1> QED
  BY <1>1, <1>2, SafeInit, SafeNext, OtaNext, PTL DEF Spec, OtaIsKept

-----------------------------------------------------------------------------
(* The estimate.                                                            *)

(* What is mounted from /data overrides the built-in APEX, what is mounted   *)
(* from the image itself is not compressed; and so does what a boot has     *)
(* chosen of /data.                                                         *)
Overrides(p) == HasPreInstalledVersion(slot, p) /\ active[p] >= Images[slot][p].ver
ChosenInv ==
  \A p \in Packages :
    /\ \A m \in mounted[p] : /\ m.from = "data" => Overrides(p)
                             /\ m.from = "system" => ~Images[slot][p].compressed
    /\ IsBoot /\ <<p, "data">> \in job.chosen => Overrides(p)

(* As long as the estimate counts, the slot is that of the update, or the    *)
(* one it was computed in, next to which the update's chroot may run.        *)
Updated == slot = estimate.for
UpdateRuns ==
  /\ estimate.for \in DOMAIN Images /\ other # slot
  /\ ~Updated => other = estimate.for
  /\ InChroot => ~Updated /\ job.image = estimate.for
  /\ job.mode # "idle" =>
       /\ job.chosen = SelectApexForActivation(job.image, AddDataApex(job.image))
       /\ job.todo \subseteq Compressed(job.image, job.chosen)

(* The decompressed file that the slot runs p from, unless p is on /data.    *)
FromFile(p) == /\ active[p] = Nothing
               /\ HasPreInstalledVersion(slot, p) /\ Images[slot][p].compressed

(* Nothing is to be extracted for p: each boot of the slot activates what    *)
(* there is.                                                                *)
Steady(p) ==
  /\ active[p] # Nothing =>
       /\ Overrides(p)
       /\ CanServe => \E m \in mounted[p] : m.from = "data"
  /\ FromFile(p) =>
       /\ file["decompressed"][p][Images[slot][p].ver] = Images[slot][p].build
       /\ CanServe => \E m \in mounted[p] : m.from = "decompressed"
       /\ IsBoot => p \in job.todo \/ <<p, "decompressed">> \in job.ready

(* What the update brings compressed, and is not among the packages C.       *)
Coming(p) == Images[estimate.for][p]
Uncounted(C) == {p \in Packages \ C : Coming(p).ver > 0 /\ Coming(p).compressed}

(* In the old slot nothing has to be extracted, and what the new slot will   *)
(* not have to extract either can be seen there; in the new slot only what   *)
(* was counted has to.                                                      *)
Settled(C) == IF Updated THEN Uncounted(C) ELSE Packages
SameApex(p) == /\ Images[slot][p].ver = Coming(p).ver /\ Images[slot][p].build = Coming(p).build
               /\ Images[slot][p].compressed
Foreseen(C) ==
  ~Updated => \A p \in Uncounted(C) :
    IF active[p] = Nothing THEN SameApex(p) ELSE active[p] >= Coming(p).ver

(* The files are those of D and one of each package of C: in the new slot    *)
(* a decompressed file takes the place of what the chroot has extracted.     *)
FileIs(D, C, p, v) ==
  /\ file["ota"][p][v] # Nothing =>
       p \in C /\ v = Coming(p).ver /\ file["ota"][p][v] \in {Partial, Coming(p).build}
  /\ file["decompressed"][p][v] # Nothing =>
       \/ <<p, v>> \in D
       \/ Updated /\ p \in C /\ v = Coming(p).ver /\ file["ota"][p][v] \in {Partial, Nothing}
FilesAre(D, C) == \A p \in Packages, v \in PreVersions : FileIs(D, C, p, v)

Extracts(C) == job.at \subseteq C /\ (IsBoot /\ job.at # {} => Updated)

Accounts(D, C) ==
  /\ Cardinality(D) <= estimate.base /\ Cardinality(C) <= estimate.size
  /\ FilesAre(D, C) /\ Extracts(C) /\ Foreseen(C)
  /\ \A p \in Settled(C) : Steady(p)

EstimateInv ==
  estimate.firm =>
    /\ UpdateRuns
    /\ \E D \in SUBSET (Packages \X PreVersions), C \in SUBSET Packages : Accounts(D, C)

(* What SelectApexForActivation takes from /data, and what it leaves to      *)
(* ProcessCompressedApex.                                                   *)
LEMMA Selected ==
  ASSUME Typed, NEW i \in DOMAIN Images, NEW p \in Packages,
         NEW S, S = SelectApexForActivation(i, AddDataApex(i))
  PROVE  /\ S \in SUBSET (Packages \X Froms)
         /\ <<p, "data">> \in S <=>
              Images[i][p].ver > 0 /\ active[p] # Nothing /\ active[p] >= Images[i][p].ver
         /\ p \in Compressed(i, S) <=>
              /\ Images[i][p].ver > 0 /\ Images[i][p].compressed
              /\ active[p] = Nothing \/ Images[i][p].ver > active[p]
<1>1. /\ AddDataApex(i) \in [Packages -> DataVersions \cup {Nothing}]
      /\ \A q \in Packages : /\ Images[i][q].ver \in Nat /\ active[q] \in Nat
                             /\ AddDataApex(i)[q] = IF Images[i][q].ver > 0 THEN active[q] ELSE Nothing
  <2>1. DataVersions \cup {Nothing} \subseteq Nat
    BY BoundsAssumption DEF Nothing
  <2> QED
    BY <2>1, ImagesAre DEF Typed, AddDataApex, HasPreInstalledVersion
<1>2. p \in SharedLibs => ~Images[i][p].compressed
  BY ImagesAssumption
<1> DEFINE store == AddDataApex(i)
<1>3. \A q \in Packages : <<q, "data">> \in S <=>
        Images[i][q].ver > 0 /\ store[q] # Nothing /\ store[q] >= Images[i][q].ver
  BY DEF SelectApexForActivation, HasPreInstalledVersion, HasDataVersion
<1>4. \A q \in Packages : <<q, "system">> \in S <=>
        /\ Images[i][q].ver > 0
        /\ \/ store[q] = Nothing
           \/ Images[i][q].ver > store[q]
           \/ q \in SharedLibs /\ Images[i][q].ver # store[q]
  BY DEF SelectApexForActivation, HasPreInstalledVersion, HasDataVersion
<1>5. S \in SUBSET (Packages \X Froms)
  BY <1>1, ChoiceCovers
<1> QED
  BY <1>1, <1>2, <1>3, <1>4, <1>5 DEF Compressed

LEMMA ChosenNext == SafeInv /\ ChosenInv /\ [Next]_vars => ChosenInv'
<1> SUFFICES ASSUME SafeInv, ChosenInv, [Next]_vars
             PROVE  ChosenInv'
  OBVIOUS
<1> USE DEF SafeInv, disk, memory, history
<1>1. ASSUME UNCHANGED <<slot, active, mounted>>, IsBoot' => IsBoot /\ job'.chosen = job.chosen
      PROVE  ChosenInv'
  BY <1>1 DEF ChosenInv, Overrides, HasPreInstalledVersion
<1>2. CASE UNCHANGED vars \/ UseSpace \/ InitializeDataApex \/ CancelUpdate
           \/ \E i \in DOMAIN Images : ReserveSpace(i) \/ ReserveSpaceFails(i)
  BY <1>1, <1>2 DEF vars, UseSpace, InitializeDataApex, CancelUpdate, ReserveSpace, ReserveSpaceFails,
     IsBoot
<1>3. CASE ProcessCompressedApex
  <2>1. PICK p : Processes(p)
    BY <1>3, StepsProcess DEF ProcessCompressedApex, Steps
  <2>2. SameJob(job')
    BY <2>1, JobOf DEF JobMoves
  <2> QED
    BY <1>1, <2>1, <2>2 DEF Processes, SameJob, IsBoot
<1>4. CASE OnOtaChrootBootstrap \/ LeaveChroot
  <2>1. ~IsBoot'
    BY <1>4, IdleJob DEF OnOtaChrootBootstrap, LeaveChroot, Job, IsBoot
  <2> QED
    BY <1>1, <1>4, <2>1 DEF OnOtaChrootBootstrap, LeaveChroot
<1>5. ASSUME NEW switch \in BOOLEAN, Reboot(switch)
      PROVE  ChosenInv'
  BY <1>5, IdleJob DEF Reboot, ChosenInv, IsBoot
<1>6. CASE \E p \in Packages, v \in DataVersions \cup {Nothing} : ChangeActive(p, v)
  <2>1. mounted' = [p \in Packages |-> {}] /\ ~IsBoot'
    BY <1>6 DEF ChangeActive, JobRuns, IsBoot
  <2> QED
    BY <2>1 DEF ChosenInv
<1>7. CASE OnStart
  <2> DEFINE chosen == SelectApexForActivation(slot, AddDataApex(slot))
  <2>1. /\ mounted' = [p \in Packages |-> {}] /\ UNCHANGED <<slot, active>>
        /\ job' = Job("boot", slot, 1, chosen) /\ slot \in DOMAIN Images
    BY <1>7 DEF OnStart, JobRuns, Typed
  <2>2. job'.chosen = chosen
    BY <2>1 DEF Job
  <2>3. \A p \in Packages : <<p, "data">> \in chosen => Overrides(p)
    BY <2>1, Selected DEF Overrides, HasPreInstalledVersion
  <2> QED
    BY <2>1, <2>2, <2>3 DEF ChosenInv, Overrides, HasPreInstalledVersion
<1>8. CASE RemoveInactiveDataApex
  <2>1. /\ UNCHANGED <<slot, mounted, job>> /\ ~IsBoot
        /\ active' = [p \in Packages |->
             IF \E m \in mounted[p] : m.from = "data" /\ m.ver = active[p] THEN active[p] ELSE Nothing]
    BY <1>8 DEF RemoveInactiveDataApex, JobRuns
  <2>2. ASSUME NEW p \in Packages, NEW m \in mounted[p], m.from = "data"
        PROVE  Overrides(p) /\ active'[p] = active[p]
    BY <2>1, <2>2 DEF ChosenInv, MountsAreValid, MountedFilesStay
  <2> QED
    BY <2>1, <2>2 DEF ChosenInv, Overrides, HasPreInstalledVersion, IsBoot
<1>9. ASSUME NEW bad \in SUBSET ToActivate, Activate(bad)
      PROVE  ChosenInv'
  <2> DEFINE good == ToActivate \ bad
  <2>1. /\ UNCHANGED <<slot, active>> /\ job.mode # "idle"
        /\ mounted' = IF IsBoot THEN With(mounted, good) ELSE mounted
        /\ {x \in ToActivate : Gone(x[1], x[2])} \subseteq bad
        /\ \/ job' = Idle
           \/ job' = [job EXCEPT !.round = 3] /\ ~IsBoot
           \/ \E m : job' = Job(job.mode, job.image, 2, FallBack(bad, m))
    BY <1>9 DEF Activate
  <2>2. ~IsBoot' \/ \A p \in Packages : <<p, "data">> \notin job'.chosen
    <3>1. CASE job' = Idle
      BY <3>1, IdleJob DEF IsBoot
    <3>2. CASE job' = [job EXCEPT !.round = 3] /\ ~IsBoot
      BY <3>2 DEF IsBoot, Typed, JobType
    <3>3. ASSUME NEW m, job' = Job(job.mode, job.image, 2, FallBack(bad, m))
          PROVE  \A p \in Packages : <<p, "data">> \notin job'.chosen
      BY <3>3 DEF Job, FallBack
    <3> QED
      BY <2>1, <3>1, <3>2, <3>3
  <2>3. ASSUME NEW p \in Packages, NEW m \in mounted'[p]
        PROVE  /\ m.from = "data" => Overrides(p)
               /\ m.from = "system" => ~Images[slot][p].compressed
    <3>1. CASE m \in mounted[p]
      BY <3>1 DEF ChosenInv
    <3>2. CASE m \notin mounted[p]
      <4>1. IsBoot /\ job.image = slot
        BY <2>1, <2>3, <3>2 DEF JobRuns
      <4>2. PICK x \in good : x[1] = p /\ m = MountOf(p, x[2])
        <5>1. m \in {MountOf(p, x[2]) : x \in {y \in good : y[1] = p}}
          BY <2>1, <2>3, <3>2, <4>1 DEF With
        <5> QED
          BY <5>1
      <4>3. m.from = x[2]
        BY <2>1, <4>2, MountIs
      <4>4. x[2] \in {"data", "system"} => x \in job.chosen /\ x = <<x[1], x[2]>>
        BY <4>2 DEF ToActivate, Typed, JobType, Kinds
      <4>5. x[2] = "system" => ~Images[job.image][p].compressed
        BY <4>2 DEF ToActivate, Typed, JobType, Kinds
      <4> QED
        BY <4>1, <4>2, <4>3, <4>4, <4>5 DEF ChosenInv
    <3> QED
      BY <3>1, <3>2
  <2> QED
    BY <2>1, <2>2, <2>3 DEF ChosenInv, Overrides, HasPreInstalledVersion
<1> QED
  BY <1>2, <1>3, <1>4, <1>5, <1>6, <1>7, <1>8, <1>9 DEF Next

(* A file that power loss left in part is not among those counted; of the    *)
(* others there is one for each element of D and of C.                      *)
LEMMA CountFiles ==
  ASSUME SafeInv, estimate.firm, UpdateRuns,
         NEW D \in SUBSET (Packages \X PreVersions), NEW C \in SUBSET Packages, Accounts(D, C)
  PROVE  EstimateSuffices
<1> DEFINE CutShort(p, v) == file["ota"][p][v] = Partial /\ ~(InChroot /\ p \in job.at)
           F == {x \in FilesOf(file) : x[1] = "ota" => ~CutShort(x[2], x[3])}
           F1 == {x \in F : x[1] = "decompressed" /\ <<x[2], x[3]>> \in D}
           F2 == F \ F1
           f1 == [x \in F1 |-> <<x[2], x[3]>>]
           f2 == [x \in F2 |-> x[2]]
<1>1. IsFiniteSet(D) /\ IsFiniteSet(C)
  <2>1. IsFiniteSet(Packages) /\ IsFiniteSet(Packages \X PreVersions)
    BY PreVersionsFinite, BoundsAssumption, FS_Product
  <2> QED
    BY <2>1, FS_Subset
<1>2. \A x \in F : /\ x = <<x[1], x[2], x[3]>> /\ x[1] \in Kinds /\ x[2] \in Packages /\ x[3] \in PreVersions
                   /\ file[x[1]][x[2]][x[3]] # Nothing
  BY DEF FilesOf
<1>3. f1 \in Injection(F1, D)
  <2>1. f1 \in [F1 -> D]
    OBVIOUS
  <2>2. ASSUME NEW x \in F1, NEW y \in F1, f1[x] = f1[y]
        PROVE  x = y
    <3>1. x[2] = y[2] /\ x[3] = y[3] /\ x[1] = y[1]
      BY <2>2
    <3> QED
      BY <1>2, <3>1
  <2> QED
    BY <2>1, <2>2 DEF Injection, IsInjective
<1>4. f2 \in Injection(F2, C)
  <2>1. ASSUME NEW x \in F2
        PROVE  /\ x[2] \in C /\ x[3] = Coming(x[2]).ver
               /\ x[1] = "ota" => ~CutShort(x[2], x[3])
               /\ x[1] # "ota" => /\ x[1] = "decompressed" /\ Updated
                                  /\ file["ota"][x[2]][x[3]] \in {Partial, Nothing}
    <3>1. /\ x[1] \in {"decompressed", "ota"} /\ x[2] \in Packages /\ x[3] \in PreVersions
          /\ file[x[1]][x[2]][x[3]] # Nothing /\ FilesAre(D, C)
      BY <1>2 DEF Kinds, Accounts
    <3> QED
      BY <3>1 DEF FilesAre, FileIs
  <2>2. ASSUME NEW x \in F2, NEW y \in F2, x[1] = "ota", y[1] # "ota", x[2] = y[2]
        PROVE  FALSE
    <3>1. Updated /\ file["ota"][x[2]][x[3]] = Partial
      BY <1>2, <2>1, <2>2
    <3>2. ~InChroot
      BY <3>1 DEF UpdateRuns
    <3> QED
      BY <2>1, <2>2, <3>1, <3>2
  <2>3. ASSUME NEW x \in F2, NEW y \in F2, x[2] = y[2]
        PROVE  x = y
    <3>1. x[3] = y[3] /\ x[1] = y[1]
      BY <2>1, <2>2, <2>3
    <3> QED
      BY <1>2, <2>3, <3>1
  <2>4. f2 \in [F2 -> C]
    BY <2>1
  <2> QED
    BY <2>3, <2>4 DEF Injection, IsInjective
<1>5. /\ IsFiniteSet(F1) /\ Cardinality(F1) <= Cardinality(D)
      /\ IsFiniteSet(F2) /\ Cardinality(F2) <= Cardinality(C)
  BY <1>1, <1>3, <1>4, FS_Injection
<1>6. Cardinality(F) = Cardinality(F1) + Cardinality(F2)
  <2>1. F = F1 \cup F2 /\ F1 \cap F2 = {}
    OBVIOUS
  <2>2. Cardinality({}) = 0
    BY FS_EmptySet
  <2>3. Cardinality(F1) \in Nat /\ Cardinality(F2) \in Nat
    BY <1>5, FS_CardinalityType
  <2> HIDE DEF F1, F2, F
  <2>4. Cardinality(F) = Cardinality(F1) + Cardinality(F2) - Cardinality({})
    BY <1>5, <2>1, FS_Union
  <2> QED
    BY <2>2, <2>3, <2>4
<1> HIDE DEF F1, F2
<1>7. Cardinality(F) <= estimate.base + estimate.size
  <2>1. /\ Cardinality(D) \in Nat /\ Cardinality(C) \in Nat
        /\ Cardinality(F1) \in Nat /\ Cardinality(F2) \in Nat
        /\ estimate.base \in Nat /\ estimate.size \in Nat
    BY <1>1, <1>5, FS_CardinalityType DEF SafeInv, Typed, EstimateType
  <2>2. Cardinality(D) <= estimate.base /\ Cardinality(C) <= estimate.size
    BY DEF Accounts
  <2> QED
    BY <1>5, <1>6, <2>1, <2>2
<1> QED
  BY <1>7 DEF EstimateSuffices

-----------------------------------------------------------------------------
(* Steps that keep the files, what is on /data and the slot.                 *)
LEMMA AccountsKept ==
  ASSUME NEW D, NEW C, Accounts(D, C), UNCHANGED <<file, active, slot>>,
         (estimate').for = estimate.for, (estimate').base = estimate.base,
         (estimate').size = estimate.size,
         Extracts(C)', \A p \in Settled(C) : Steady(p)'
  PROVE  Accounts(D, C)'
BY DEF Accounts, FilesAre, FileIs, Foreseen, Settled, Uncounted, Updated, SameApex, Coming

(* The request for an update: what is there is the base, and what is not     *)
(* counted is run from a file or from /data, and will be.                   *)
LEMMA ReserveEstimates ==
  ASSUME SafeInv, ChosenInv, NEW i \in DOMAIN Images, ReserveSpace(i), (estimate').firm
  PROVE  EstimateInv'
<1> USE DEF SafeInv, memory
<1> DEFINE f == WithoutOta(file)
<1>0. PICK D \in SUBSET (Packages \X PreVersions), C \in SUBSET Packages :
        /\ D = {x \in Packages \X PreVersions : file["decompressed"][x[1]][x[2]] # Nothing}
        /\ C = {p \in Packages : /\ Images[i][p].compressed
                                 /\ ShouldAllocateSpaceForDecompression(p, Images[i][p].ver)}
  OBVIOUS
<1>1. /\ CanServe /\ job = Idle /\ i # slot /\ Foreseeable(i)
      /\ file' = f /\ other' = i
      /\ (estimate').for = i /\ (estimate').size = Cardinality(C)
      /\ (estimate').base = Cardinality(FilesOf(f))
      /\ UNCHANGED <<active, slot, phase, mounted, job, data, failed>>
  BY <1>0 DEF ReserveSpace, CalculateSizeForCompressedApex
<1>2. /\ \A p \in Packages, v \in PreVersions :
           /\ f["decompressed"][p][v] = file["decompressed"][p][v] /\ f["ota"][p][v] = Nothing
      /\ slot \in DOMAIN Images /\ ~Updated' /\ ~IsBoot
  BY <1>1, OtaRemoved, IdleJob DEF Typed, Updated, IsBoot
<1>3. Cardinality(D) <= Cardinality(FilesOf(f))
  <2> DEFINE g == [x \in D |-> <<"decompressed", x[1], x[2]>>]
  <2>1. ASSUME NEW x \in D
        PROVE  /\ <<"decompressed", x[1], x[2]>> \in FilesOf(f) /\ x = <<x[1], x[2]>>
    BY <1>0, <1>2 DEF FilesOf, Kinds
  <2>2. g \in [D -> FilesOf(f)]
    BY <2>1
  <2>3. ASSUME NEW x \in D, NEW y \in D, g[x] = g[y]
        PROVE  x = y
    <3>1. x[1] = y[1] /\ x[2] = y[2]
      BY <2>3
    <3> QED
      BY <2>1, <3>1
  <2>4. g \in Injection(D, FilesOf(f))
    BY <2>2, <2>3 DEF Injection, IsInjective
  <2> QED
    BY <2>4, FilesFinite, FS_Injection
<1>5. FilesAre(D, C)'
  <2>1. ASSUME NEW p \in Packages, NEW v \in PreVersions
        PROVE  /\ file'["ota"][p][v] = Nothing
               /\ file'["decompressed"][p][v] # Nothing => <<p, v>> \in D
    BY <1>0, <1>1, <1>2
  <2> QED
    BY <2>1 DEF FilesAre, FileIs
<1>6. \A p \in Packages : /\ Images[slot][p].ver \in Nat /\ Images[i][p].ver \in Nat
                          /\ active[p] \in Nat /\ data[p] = active[p] /\ failed[p] = "no"
                          /\ HasDataVersion(data, p) => \E m \in mounted[p] : m.from = "data"
  <2>1. DataVersions \cup {Nothing} \subseteq Nat
    BY BoundsAssumption DEF Nothing
  <2> QED
    BY <1>1, <1>2, <2>1, ImagesAre DEF Typed, Foreseeable
<1>7. Foreseen(C)'
  <2> SUFFICES ASSUME NEW p \in Packages \ C, Images[i][p].ver > 0, Images[i][p].compressed
               PROVE  IF active[p] = Nothing
                      THEN /\ Images[slot][p].ver = Images[i][p].ver
                           /\ Images[slot][p].build = Images[i][p].build
                           /\ Images[slot][p].compressed
                      ELSE active[p] >= Images[i][p].ver
    BY <1>1 DEF Foreseen, Uncounted, Coming, SameApex
  <2>1. ~ShouldAllocateSpaceForDecompression(p, Images[i][p].ver)
    BY <1>0
  <2>2. Images[i][p].ver = Images[slot][p].ver => Images[i][p].build = Images[slot][p].build
    BY <1>1 DEF Foreseeable
  <2> QED
    BY <1>6, <2>1, <2>2 DEF ShouldAllocateSpaceForDecompression, HasDataVersion
<1>8. ASSUME NEW p \in Packages
      PROVE  Steady(p)'
  <2>1. active[p] # Nothing => Overrides(p) /\ \E m \in mounted[p] : m.from = "data"
    BY <1>6 DEF HasDataVersion, ChosenInv
  <2>2. ASSUME FromFile(p)
        PROVE  /\ file["decompressed"][p][Images[slot][p].ver] = Images[slot][p].build
               /\ \E m \in mounted[p] : m.from = "decompressed"
    <3>1. PICK m \in mounted[p] : TRUE
      BY <1>1, <1>6, <2>2 DEF NoneLeftOut, FromFile
    <3>2. m.from \in {"system", "data"} \cup Kinds
      BY <3>1 DEF Typed, Mounts
    <3>3. m.from # "system"
      BY <2>2, <3>1 DEF ChosenInv, FromFile
    <3>4. m.from # "data"
      <4>1. m.from = "data" => Overrides(p)
        BY <3>1 DEF ChosenInv
      <4>2. ~Overrides(p)
        BY <1>6, <2>2 DEF Overrides, FromFile, HasPreInstalledVersion, Nothing
      <4> QED
        BY <4>1, <4>2
    <3>5. m.from \in Kinds
      BY <3>2, <3>3, <3>4
    <3> QED
      BY <3>1, <3>5 DEF MountsAreValid, MountedFilesStay, ActiveIsValid
  <2>3. Images[slot][p].ver \in PreVersions
    BY <1>2, ImagesAre
  <2>4. file'["decompressed"][p][Images[slot][p].ver] = file["decompressed"][p][Images[slot][p].ver]
    BY <1>1, <1>2, <2>3
  <2> QED
    BY <1>1, <1>2, <2>1, <2>2, <2>4 DEF Steady, FromFile, Overrides, CanServe, HasPreInstalledVersion, IsBoot
<1>9. Accounts(D, C)'
  <2>1. Extracts(C)'
    BY <1>1, IdleJob DEF Extracts
  <2>2. Settled(C)' = Packages
    BY <1>2 DEF Settled
  <2>3. Cardinality(D) <= (estimate').base /\ Cardinality(C) <= (estimate').size
    <3>1. Cardinality(C) \in Nat
      BY BoundsAssumption, FS_Subset, FS_CardinalityType
    <3> QED
      BY <1>1, <1>3, <3>1
  <2> QED
    BY <1>5, <1>7, <1>8, <2>1, <2>2, <2>3 DEF Accounts
<1>10. UpdateRuns'
  BY <1>1, IdleJob DEF UpdateRuns, InChroot, Updated
<1> QED
  BY <1>9, <1>10 DEF EstimateInv

(* Boots, and the chroot.  The first boot of the update's slot is where what  *)
(* was foreseen is settled.                                                 *)
LEMMA BootEstimates ==
  ASSUME SafeInv, ChosenInv, EstimateInv, estimate.firm, (estimate').firm,
         \/ OnOtaChrootBootstrap \/ LeaveChroot \/ OnStart
         \/ \E switch \in BOOLEAN : Reboot(switch)
  PROVE  EstimateInv'
<1> USE DEF SafeInv, disk, memory, history
<1>1. PICK D \in SUBSET (Packages \X PreVersions), C \in SUBSET Packages :
        UpdateRuns /\ Accounts(D, C)
  BY DEF EstimateInv
<1>2. SUFFICES UpdateRuns' /\ Accounts(D, C)'
  BY DEF EstimateInv
<1>3. Settled(C) \subseteq Packages
  BY DEF Settled, Uncounted
<1>4. CASE OnOtaChrootBootstrap
  <2>1. /\ CanServe /\ other \in DOMAIN Images /\ other = estimate.for
        /\ UNCHANGED <<file, active, slot, other, phase, mounted, estimate>>
        /\ job' = Job("chroot", other, 1, SelectApexForActivation(other, AddDataApex(other)))
    BY <1>4 DEF OnOtaChrootBootstrap, Typed
  <2>2. /\ job'.mode = "chroot" /\ job'.image = other /\ job'.at = {}
        /\ job'.chosen = SelectApexForActivation(other, AddDataApex(other))
        /\ job'.todo = Compressed(other, job'.chosen)
    BY <2>1 DEF Job
  <2>3. UpdateRuns'
    BY <1>1, <2>1, <2>2 DEF UpdateRuns, Updated, AddDataApex
  <2>4. \A p \in Settled(C) : Steady(p)'
    BY <1>1, <2>1, <2>2 DEF Accounts, Steady, Overrides, FromFile, CanServe, IsBoot
  <2>5. Extracts(C)'
    BY <2>2 DEF Extracts
  <2> QED
    BY <1>1, <2>1, <2>3, <2>4, <2>5, AccountsKept
<1>5. CASE LeaveChroot
  <2>1. /\ UNCHANGED <<file, active, slot, other, phase, mounted, estimate>> /\ InChroot /\ job' = Idle
    BY <1>5 DEF LeaveChroot
  <2>2. UpdateRuns' /\ Extracts(C)'
    BY <1>1, <2>1, IdleJob DEF UpdateRuns, Updated, InChroot, Extracts
  <2>3. \A p \in Settled(C) : Steady(p)'
    BY <1>1, <2>1, IdleJob DEF Accounts, Steady, Overrides, FromFile, CanServe, IsBoot
  <2> QED
    BY <1>1, <2>1, <2>2, <2>3, AccountsKept
<1>6. CASE OnStart
  <2>1. /\ UNCHANGED <<file, active, slot, other, mounted, estimate>> /\ phase' = "boot"
        /\ job' = Job("boot", slot, 1, SelectApexForActivation(slot, AddDataApex(slot)))
        /\ slot \in DOMAIN Images
    BY <1>6 DEF OnStart, Typed
  <2>2. /\ job'.mode = "boot" /\ job'.image = slot /\ job'.at = {}
        /\ job'.chosen = SelectApexForActivation(slot, AddDataApex(slot))
        /\ job'.todo = Compressed(slot, job'.chosen)
    BY <2>1 DEF Job
  <2>3. UpdateRuns'
    BY <1>1, <2>1, <2>2 DEF UpdateRuns, Updated, AddDataApex, InChroot
  <2>4. ASSUME NEW p \in Settled(C)
        PROVE  Steady(p)'
    <3>1. FromFile(p) => p \in job'.todo
      <4>1. p \in Packages
        BY <1>3
      <4>2. /\ job'.chosen = SelectApexForActivation(slot, AddDataApex(slot))
            /\ job'.todo = Compressed(slot, job'.chosen)
        BY <2>2
      <4>3. Typed /\ slot \in DOMAIN Images
        BY <2>1
      <4>4. p \in Compressed(slot, job'.chosen) <=>
              /\ Images[slot][p].ver > 0 /\ Images[slot][p].compressed
              /\ active[p] = Nothing \/ Images[slot][p].ver > active[p]
        BY ONLY <4>1, <4>2, <4>3, Selected
      <4> QED
        BY <4>2, <4>4 DEF FromFile, HasPreInstalledVersion
    <3> QED
      BY <1>1, <2>1, <3>1 DEF Accounts, Steady, Overrides, FromFile, CanServe, HasPreInstalledVersion
  <2>5. Extracts(C)'
    BY <2>2 DEF Extracts
  <2> QED
    BY <1>1, <2>1, <2>3, <2>4, <2>5, AccountsKept
<1>7. ASSUME NEW switch \in BOOLEAN, Reboot(switch)
      PROVE  UpdateRuns' /\ Accounts(D, C)'
  <2>1. /\ UNCHANGED <<file, active>> /\ phase' = "scan" /\ job' = Idle
        /\ switch => /\ other # NoImage /\ slot' = other
                     /\ other' = IF slot = estimate.for THEN NoImage ELSE slot
        /\ ~switch => UNCHANGED <<slot, other>>
        /\ (estimate').for = estimate.for /\ (estimate').base = estimate.base
        /\ (estimate').size = estimate.size /\ ~(switch /\ Updated)
    BY <1>7 DEF Reboot, Typed, EstimateType, Updated
  <2>2. UpdateRuns'
    BY <1>1, <2>1, IdleJob DEF UpdateRuns, Updated, InChroot
  <2>3. Extracts(C)' /\ ~IsBoot' /\ ~CanServe'
    BY <2>1, IdleJob DEF Extracts, IsBoot, CanServe
  <2>4. CASE ~switch
    <3>1. \A p \in Settled(C) : Steady(p)'
      BY <1>1, <2>1, <2>3, <2>4 DEF Accounts, Steady, Overrides, FromFile, HasPreInstalledVersion
    <3> QED
      BY <1>1, <2>1, <2>2, <2>3, <2>4, <3>1, AccountsKept
  <2>5. CASE switch
    <3>1. /\ ~Updated /\ Updated' /\ slot' = estimate.for /\ \A p : Coming(p)' = Coming(p)
          /\ Settled(C) = Packages /\ Settled(C)' = Uncounted(C)
      BY <1>1, <2>1, <2>5 DEF UpdateRuns, Updated, Settled, Uncounted, Coming
    <3>2. FilesAre(D, C)' /\ Foreseen(C)'
      BY <1>1, <2>1, <3>1 DEF Accounts, FilesAre, FileIs, Foreseen
    <3>3. ASSUME NEW p \in Uncounted(C)
          PROVE  Steady(p)'
      <4>1. /\ p \in Packages /\ Steady(p) /\ Coming(p) = Images[slot'][p]
            /\ IF active[p] = Nothing THEN SameApex(p) ELSE active[p] >= Coming(p).ver
            /\ Coming(p).ver > 0
        BY <1>1, <3>1, <3>3 DEF Accounts, Foreseen, Uncounted, Coming
      <4>2. active[p] # Nothing => Overrides(p)'
        BY <2>1, <4>1 DEF Overrides, HasPreInstalledVersion
      <4>3. active[p] = Nothing =>
              file["decompressed"][p][Coming(p).ver] = Coming(p).build
        BY <4>1 DEF Steady, FromFile, SameApex, HasPreInstalledVersion
      <4> QED
        BY <2>1, <2>3, <4>1, <4>2, <4>3 DEF Steady, FromFile
    <3> QED
      BY <1>1, <2>1, <2>2, <2>3, <3>1, <3>2, <3>3 DEF Accounts
  <2> QED
    BY <2>4, <2>5
<1> QED
  BY <1>4, <1>5, <1>6, <1>7

(* An activation without a failure mounts what it found, and so the clean-up *)
(* leaves it.                                                               *)
LEMMA ActivateEstimates ==
  ASSUME SafeInv, ChosenInv, EstimateInv, estimate.firm, (estimate').firm,
         NEW bad \in SUBSET ToActivate, Activate(bad)
  PROVE  EstimateInv'
<1> USE DEF SafeInv, disk
<1>1. PICK D \in SUBSET (Packages \X PreVersions), C \in SUBSET Packages :
        UpdateRuns /\ Accounts(D, C)
  BY DEF EstimateInv
<1>2. SUFFICES UpdateRuns' /\ Accounts(D, C)'
  BY DEF EstimateInv
<1>3. bad = {}
  BY DEF Activate, Typed, EstimateType
<1>4. /\ job.mode # "idle" /\ job.todo = {} /\ job.at = {}
      /\ UNCHANGED <<file, active, slot, other>>
      /\ (estimate').for = estimate.for /\ (estimate').base = estimate.base
      /\ (estimate').size = estimate.size
      /\ mounted' = IF IsBoot THEN With(mounted, ToActivate) ELSE mounted
      /\ IsBoot => job' = Idle /\ phase' = "up"
      /\ ~IsBoot => job' = [job EXCEPT !.round = 3] /\ phase' = phase
  BY <1>3 DEF Activate, Typed, EstimateType
<1>5. CASE ~IsBoot
  <2>1. /\ job'.mode = job.mode /\ job'.image = job.image /\ job'.todo = job.todo
        /\ job'.at = job.at /\ job'.chosen = job.chosen
    BY <1>4, <1>5 DEF Typed, JobType
  <2>2. UpdateRuns'
    BY <1>1, <1>4, <2>1 DEF UpdateRuns, Updated, AddDataApex, InChroot
  <2>3. Extracts(C)'
    BY <1>4, <2>1 DEF Extracts
  <2>4. \A p \in Settled(C) : Steady(p)'
    BY <1>1, <1>4, <1>5, <2>1 DEF Accounts, Steady, Overrides, FromFile, CanServe, IsBoot
  <2> QED
    BY <1>1, <1>4, <2>2, <2>3, <2>4, AccountsKept
<1>6. CASE IsBoot
  <2>1. UpdateRuns' /\ Extracts(C)'
    BY <1>1, <1>4, <1>6, IdleJob DEF UpdateRuns, Updated, InChroot, Extracts
  <2>2. ASSUME NEW p \in Settled(C)
        PROVE  Steady(p)'
    <3>1. p \in Packages /\ Steady(p) /\ job.image = slot /\ slot \in DOMAIN Images
      BY <1>1, <1>6 DEF Accounts, Settled, Uncounted, JobRuns, Typed
    <3>2. ASSUME active[p] # Nothing
          PROVE  \E m \in mounted'[p] : m.from = "data"
      <4>1. <<p, "data">> \in job.chosen
        <5>1. Images[slot][p].ver > 0 /\ active[p] >= Images[slot][p].ver
          BY <3>1, <3>2 DEF Steady, Overrides, HasPreInstalledVersion
        <5> QED
          BY <1>1, <1>4, <3>1, <3>2, <5>1, Selected DEF UpdateRuns
      <4>2. <<p, "data">> \in ToActivate /\ <<p, "data">>[1] = p /\ <<p, "data">>[2] = "data"
        BY <4>1 DEF ToActivate
      <4>3. MountOf(p, "data") \in mounted'[p]
        BY <1>4, <1>6, <3>1, <4>2 DEF With
      <4>4. MountOf(p, "data").from = "data"
        BY DEF MountOf, Kinds
      <4> QED
        BY <4>3, <4>4
    <3>3. ASSUME FromFile(p)
          PROVE  \E m \in mounted'[p] : m.from = "decompressed"
      <4>1. <<p, "decompressed">> \in job.ready
        BY <1>4, <1>6, <3>1, <3>3 DEF Steady
      <4>2. /\ <<p, "decompressed">> \in ToActivate
            /\ <<p, "decompressed">>[1] = p /\ <<p, "decompressed">>[2] = "decompressed"
        BY <4>1 DEF ToActivate
      <4>3. MountOf(p, "decompressed") \in mounted'[p]
        BY <1>4, <1>6, <3>1, <4>2 DEF With
      <4>4. MountOf(p, "decompressed").from = "decompressed"
        BY DEF MountOf, Kinds
      <4> QED
        BY <4>3, <4>4
    <3>4. ~IsBoot'
      BY <1>4, <1>6, IdleJob DEF IsBoot
    <3> QED
      BY <1>4, <3>1, <3>2, <3>3, <3>4 DEF Steady, Overrides, FromFile, HasPreInstalledVersion
  <2> QED
    BY <1>1, <1>4, <2>1, <2>2, AccountsKept
<1> QED
  BY <1>5, <1>6

LEMMA CleanupEstimates ==
  ASSUME SafeInv, ChosenInv, EstimateInv, estimate.firm, RemoveInactiveDataApex
  PROVE  EstimateInv'
<1> USE DEF SafeInv, history
<1>1. PICK D \in SUBSET (Packages \X PreVersions), C \in SUBSET Packages :
        UpdateRuns /\ Accounts(D, C)
  BY DEF EstimateInv
<1>2. SUFFICES UpdateRuns' /\ Accounts(D, C)'
  BY DEF EstimateInv
<1>3. /\ phase = "up" /\ phase' = "done" /\ ~IsBoot /\ CanServe
      /\ UNCHANGED <<slot, other, mounted, job, estimate>>
      /\ active' = [p \in Packages |->
           IF \E m \in mounted[p] : m.from = "data" /\ m.ver = active[p] THEN active[p] ELSE Nothing]
      /\ file' = [file EXCEPT !["decompressed"] = [p \in Packages |-> [v \in PreVersions |->
           IF \E m \in mounted[p] : m.from = "decompressed" /\ m.ver = v
           THEN file["decompressed"][p][v] ELSE Nothing]]]
  BY DEF RemoveInactiveDataApex, JobRuns, CanServe
<1>4. \A p \in Packages, v \in PreVersions :
        /\ file'["ota"][p][v] = file["ota"][p][v]
        /\ file'["decompressed"][p][v] =
             IF \E m \in mounted[p] : m.from = "decompressed" /\ m.ver = v
             THEN file["decompressed"][p][v] ELSE Nothing
  BY <1>3 DEF Typed, FileType, Kinds
<1>5. ASSUME NEW p \in Settled(C)
      PROVE  p \in Packages /\ active'[p] = active[p] /\ Steady(p)'
  <2>1. p \in Packages /\ Steady(p)
    BY <1>1 DEF Accounts, Settled, Uncounted
  <2>2. active'[p] = active[p]
    BY <1>3, <2>1 DEF Steady, MountsAreValid, MountedFilesStay
  <2>3. ASSUME FromFile(p)
        PROVE  file'["decompressed"][p][Images[slot][p].ver] = Images[slot][p].build
    <3>1. PICK m \in mounted[p] : m.from = "decompressed"
      BY <1>3, <2>1, <2>3 DEF Steady
    <3>2. m.ver = Images[slot][p].ver
      BY <2>1, <3>1 DEF MountsAreValid, ActiveIsValid, Kinds
    <3>3. Images[slot][p].ver \in PreVersions
      BY <2>1, ImagesAre DEF Typed
    <3> QED
      BY <1>4, <2>1, <2>3, <3>1, <3>2, <3>3 DEF Steady
  <2> QED
    BY <1>3, <2>1, <2>2, <2>3 DEF Steady, Overrides, FromFile, CanServe, HasPreInstalledVersion, IsBoot
<1>6. ~Updated => active' = active
  <2>1. ~Updated => \A p \in Packages : active'[p] = active[p]
    BY <1>5 DEF Settled
  <2> QED
    BY <1>3, <2>1 DEF Typed
<1>7. UpdateRuns'
  <2>1. CASE InChroot
    <3>1. active' = active
      BY <1>1, <1>6, <2>1 DEF UpdateRuns
    <3> QED
      BY <1>1, <1>3, <3>1 DEF UpdateRuns, Updated, InChroot, AddDataApex
  <2>2. CASE ~InChroot
    <3>1. job.mode = "idle"
      BY <1>3, <2>2 DEF Typed, JobType, IsBoot, InChroot
    <3> QED
      BY <1>1, <1>3, <3>1 DEF UpdateRuns, Updated, InChroot
  <2> QED
    BY <2>1, <2>2
<1>8. FilesAre(D, C)'
  <2>1. ASSUME NEW p \in Packages, NEW v \in PreVersions
        PROVE  FileIs(D, C, p, v)'
    <3>1. /\ FileIs(D, C, p, v) /\ file'["ota"][p][v] = file["ota"][p][v]
          /\ file'["decompressed"][p][v] \in {file["decompressed"][p][v], Nothing}
      BY <1>1, <1>4 DEF Accounts, FilesAre
    <3> QED
      BY <1>3, <3>1 DEF FileIs, Updated, Coming
  <2> QED
    BY <2>1 DEF FilesAre
<1>9. Foreseen(C)'
  BY <1>1, <1>3, <1>6 DEF Accounts, Foreseen, Updated, Uncounted, Coming, SameApex
<1>10. Extracts(C)' /\ Settled(C)' = Settled(C)
  BY <1>1, <1>3 DEF Accounts, Extracts, IsBoot, Updated, Settled, Uncounted, Coming
<1> QED
  BY <1>1, <1>3, <1>5, <1>7, <1>8, <1>9, <1>10 DEF Accounts

(* ProcessCompressedApex extracts only what was counted.                     *)
LEMMA OnlyCounted ==
  ASSUME SafeInv, UpdateRuns,
         NEW D, NEW C \in SUBSET Packages, Accounts(D, C), NEW p \in Packages,
         Steps(p), ~Reuse(p)
  PROVE  /\ p \in C /\ (IsBoot => Updated)
         /\ job.image = estimate.for /\ Capex(p) = Coming(p)
<1> USE DEF SafeInv
<1>1. p \in job.todo
  BY StepsProcess DEF Processes
<1>2. /\ job.image \in DOMAIN Images /\ job.mode # "idle"
      /\ (IsBoot \/ InChroot) /\ ~(IsBoot /\ InChroot)
      /\ IsBoot => job.image = slot
      /\ InChroot => ~Updated /\ job.image = estimate.for
  BY <1>1, InJob DEF IsBoot, InChroot, JobRuns, UpdateRuns
<1>3. /\ Capex(p).ver > 0 /\ Capex(p).compressed
      /\ active[p] = Nothing \/ Capex(p).ver > active[p]
  <2>1. /\ job.chosen = SelectApexForActivation(job.image, AddDataApex(job.image))
        /\ p \in Compressed(job.image, job.chosen)
    BY <1>1, <1>2 DEF UpdateRuns
  <2> QED
    BY <1>2, <2>1, Selected DEF Capex
<1>4. active[p] \in Nat /\ Capex(p).ver \in Nat
  <2>1. DataVersions \cup {Nothing} \subseteq Nat
    BY BoundsAssumption DEF Nothing
  <2> QED
    BY <1>2, <2>1, ImagesAre DEF Typed, Capex
<1>5. p \in C /\ (IsBoot => Updated)
  <2>1. CASE p \in job.at
    BY <2>1 DEF Accounts, Extracts
  <2>2. CASE p \notin job.at
    <3>1. ~ValidateDecompressedApex("decompressed", p)
      BY <2>2 DEF Steps, ReuseOta, BeginDecompress, RenameFails, RenamedIsInvalid, RenameGoesWrong,
         EndDecompress, FailDecompress, Kinds
    <3>2. CASE IsBoot
      <4>1. p \notin Settled(C)
        <5> SUFFICES ASSUME p \in Settled(C)
                     PROVE  FALSE
          OBVIOUS
        <5>1. Steady(p) /\ Capex(p) = Images[slot][p]
          BY <1>2, <3>2 DEF Accounts, Capex
        <5>2. active[p] = Nothing
          BY <1>3, <1>4, <5>1 DEF Steady, Overrides
        <5>3. FromFile(p)
          BY <1>3, <5>1, <5>2 DEF FromFile, HasPreInstalledVersion
        <5> QED
          BY <3>1, <5>1, <5>3 DEF Steady, ValidateDecompressedApex
      <4>2. Updated /\ Capex(p) = Coming(p)
        BY <1>2, <3>2, <4>1 DEF Settled, Updated, Capex, Coming
      <4> QED
        BY <1>3, <4>1, <4>2 DEF Settled, Uncounted
    <3>3. CASE InChroot
      <4>1. ~Updated /\ Capex(p) = Coming(p) /\ ~IsBoot
        BY <1>2, <3>3 DEF Capex, Coming, IsBoot, InChroot
      <4>2. p \in C
        <5> SUFFICES ASSUME p \notin C
                     PROVE  FALSE
          OBVIOUS
        <5>1. IF active[p] = Nothing THEN SameApex(p) ELSE active[p] >= Coming(p).ver
          BY <1>3, <4>1 DEF Accounts, Foreseen, Uncounted
        <5>2. active[p] = Nothing /\ SameApex(p)
          BY <1>3, <1>4, <4>1, <5>1
        <5>3. FromFile(p) /\ Steady(p)
          BY <1>3, <4>1, <5>2 DEF FromFile, SameApex, HasPreInstalledVersion, Accounts, Settled
        <5> QED
          BY <3>1, <4>1, <5>2, <5>3 DEF Steady, SameApex, ValidateDecompressedApex
      <4> QED
        BY <4>1, <4>2
    <3> QED
      BY <1>2, <3>2, <3>3
  <2> QED
    BY <2>1, <2>2
<1>6. job.image = estimate.for
  BY <1>2, <1>5 DEF Updated
<1> QED
  BY <1>5, <1>6 DEF Capex, Coming

(* In the chroot only the *.ota.apex file of p becomes another one; a boot    *)
(* writes a decompressed file where none was extracted ahead.               *)
LEMMA FilesStayCounted ==
  ASSUME SafeInv, UpdateRuns,
         NEW D, NEW C \in SUBSET Packages, Accounts(D, C), NEW p \in Packages,
         Steps(p), ~Reuse(p), (estimate').firm
  PROVE  FilesAre(D, C)'
<1> USE DEF SafeInv
<1>4. Processes(p) /\ ~RenameFails(p)
  BY StepsProcess DEF RenameFails, Typed, EstimateType
<1>2. p \in job.todo
  BY <1>4 DEF Processes
<1>0. PICK v \in PreVersions : v = Capex(p).ver
  BY <1>2, InJob
<1> DEFINE dec == file["decompressed"][p][v]
           ota == file["ota"][p][v]
           dec1 == file'["decompressed"][p][v]
           ota1 == file'["ota"][p][v]
<1>1. /\ p \in C /\ (IsBoot => Updated) /\ Capex(p) = Coming(p) /\ FilesAre(D, C)
      /\ job.image = estimate.for
  BY OnlyCounted DEF Accounts
<1>3. /\ (IsBoot \/ InChroot) /\ ~(IsBoot /\ InChroot)
      /\ Capex(p).build \in Nat \ {0} /\ file \in FileType
      /\ InChroot => ~Updated
  BY <1>2, InJob DEF IsBoot, InChroot, Typed, UpdateRuns
<1>5. /\ \A k \in Kinds, q \in Packages, w \in PreVersions :
           q # p \/ w # v => file'[k][q][w] = file[k][q][w]
      /\ UNCHANGED slot /\ (estimate').for = estimate.for
      /\ InChroot => dec1 = dec
  BY <1>0, <1>3, <1>4 DEF Processes, FilesOfOthersStay, Kinds, Typed, EstimateType
<1>6. /\ ota \in {Nothing, Partial, Coming(p).build}
      /\ dec # Nothing => <<p, v>> \in D \/ (Updated /\ ota \in {Partial, Nothing})
  <2>1. FileIs(D, C, p, v)
    BY <1>1, <1>3 DEF FilesAre
  <2> QED
    BY <2>1 DEF FileIs
<1>7. SUFFICES FileIs(D, C, p, v)'
  <2>1. ASSUME NEW q \in Packages, NEW w \in PreVersions, q # p \/ w # v
        PROVE  FileIs(D, C, q, w)'
    <3>1. /\ FileIs(D, C, q, w) /\ file'["ota"][q][w] = file["ota"][q][w]
          /\ file'["decompressed"][q][w] = file["decompressed"][q][w]
      BY <1>1, <1>5, <2>1 DEF FilesAre, Kinds
    <3> QED
      BY <1>5, <3>1 DEF FileIs, Updated, Coming
  <2> QED
    BY <2>1 DEF FilesAre
<1>8. CASE InChroot
  <2>1. Target = "ota"
    BY <1>8 DEF Target
  <2>2. ota1 \in {Nothing, Partial, Coming(p).build}
    <3>1. CASE file' = file
      BY <1>6, <3>1
    <3>2. \A b \in {Nothing, Partial, Coming(p).build} :
            [file EXCEPT !["ota"][p][v] = b]["ota"][p][v] = b
      BY <1>3 DEF FileType, Kinds
    <3>3. [[file EXCEPT !["ota"][p][v] = Nothing] EXCEPT !["ota"][p][v] = Partial]["ota"][p][v] = Partial
      BY <1>3 DEF FileType, Kinds
    <3> QED
      BY <1>0, <1>1, <1>3, <1>4, <1>8, <2>1, <3>1, <3>2, <3>3 DEF Steps, ReuseOta, BeginDecompress,
         StartDecompress, RenamedIsInvalid, RenameGoesWrong, EndDecompress, FailDecompress
  <2>3. dec1 # Nothing => <<p, v>> \in D
    BY <1>3, <1>5, <1>6, <1>8
  <2> QED
    BY <1>0, <1>1, <1>5, <2>2, <2>3 DEF FileIs, Updated, Coming
<1>9. CASE IsBoot
  <2>1. Target = "decompressed" /\ Updated /\ ~InChroot
    BY <1>1, <1>3, <1>9 DEF Target
  <2>2. ASSUME ~ReuseOta(p), ~RenamedIsInvalid(p)
        PROVE  ota1 = ota /\ (<<p, v>> \in D \/ ota \in {Partial, Nothing})
    <3>1. file'["ota"] = file["ota"]
      <4>1. \A b : [file EXCEPT !["decompressed"][p][v] = b]["ota"] = file["ota"]
        BY <1>3 DEF FileType, Kinds
      <4>2. ASSUME NEW b
            PROVE  [[file EXCEPT !["decompressed"][p][v] = Nothing] EXCEPT !["decompressed"][p][v] = b]["ota"]
                     = file["ota"]
        BY <1>3 DEF FileType, Kinds
      <4>3. CASE BeginDecompress(p)
        <5>1. \/ file' = [file EXCEPT !["decompressed"][p][v] = Nothing]
              \/ file' = [[file EXCEPT !["decompressed"][p][v] = Nothing]
                           EXCEPT !["decompressed"][p][v] = Partial]
          BY <1>0, <2>1, <4>3 DEF BeginDecompress, StartDecompress
        <5> QED
          BY <4>1, <4>2, <5>1
      <4>4. CASE EndDecompress(p) \/ FailDecompress(p)
        <5>1. file' = file \/ \E b : file' = [file EXCEPT !["decompressed"][p][v] = b]
          BY <1>0, <2>1, <4>4 DEF EndDecompress, FailDecompress
        <5> QED
          BY <4>1, <5>1
      <4> QED
        BY <1>4, <2>2, <4>3, <4>4 DEF Steps
    <3>2. CASE BeginDecompress(p)
      <4>1. ota # Capex(p).build
        BY <1>0, <3>2 DEF BeginDecompress, ValidateDecompressedApex, Kinds
      <4> QED
        BY <1>1, <1>6, <3>1, <4>1
    <3>3. CASE EndDecompress(p) \/ FailDecompress(p)
      <4>1. dec = Partial
        BY <1>0, <1>9, <3>3 DEF BootExtracts, FileOf, EndDecompress, FailDecompress
      <4> QED
        BY <1>6, <3>1, <4>1 DEF Partial, Nothing
    <3> QED
      BY <1>4, <2>2, <3>2, <3>3 DEF Steps
  <2>5. RenamedIsInvalid(p) => ota1 = Nothing
    <3> DEFINE f == [file EXCEPT !["ota"][p][v] = Nothing]
    <3>1. f \in FileType /\ f["ota"][p][v] = Nothing
      BY <1>3 DEF FileType, Kinds
    <3> HIDE DEF f
    <3>2. \A b : [f EXCEPT !["decompressed"][p][v] = b]["ota"][p][v] = Nothing
      BY <3>1 DEF FileType, Kinds
    <3>3. ASSUME NEW b
          PROVE  [[f EXCEPT !["decompressed"][p][v] = Nothing]
                     EXCEPT !["decompressed"][p][v] = b]["ota"][p][v] = Nothing
      BY <3>1 DEF FileType, Kinds
    <3>4. ASSUME RenamedIsInvalid(p)
          PROVE  \/ file' = [f EXCEPT !["decompressed"][p][v] = Nothing]
                 \/ file' = [[f EXCEPT !["decompressed"][p][v] = Nothing]
                              EXCEPT !["decompressed"][p][v] = Partial]
      BY <1>0, <2>1, <3>4 DEF RenamedIsInvalid, StartDecompress, f
    <3> QED
      BY <3>2, <3>3, <3>4
  <2>3. ReuseOta(p) => ota1 = Nothing
    <3>1. ASSUME ReuseOta(p)
          PROVE  file' = [[file EXCEPT !["decompressed"][p][v] = file["ota"][p][v]] EXCEPT !["ota"][p][v] = Nothing]
      BY <1>0, <2>1, <3>1 DEF ReuseOta
    <3>2. [file EXCEPT !["decompressed"][p][v] = file["ota"][p][v]] \in FileType
      BY <1>3 DEF FileType, Kinds
    <3>3. ASSUME NEW f \in FileType
          PROVE  [f EXCEPT !["ota"][p][v] = Nothing]["ota"][p][v] = Nothing
      BY <1>3 DEF FileType, Kinds
    <3> QED
      BY <3>1, <3>2, <3>3
  <2>4. /\ ota1 # Nothing => ota1 \in {Partial, Coming(p).build}
        /\ dec1 # Nothing => <<p, v>> \in D \/ ota1 \in {Partial, Nothing}
    BY <1>6, <2>2, <2>3, <2>5
  <2> QED
    BY <1>0, <1>1, <1>5, <2>1, <2>4 DEF FileIs, Updated, Coming
<1> QED
  BY <1>3, <1>8, <1>9

LEMMA ProcessEstimates ==
  ASSUME SafeInv, EstimateInv, estimate.firm, (estimate').firm, NEW p \in Packages, Steps(p)
  PROVE  EstimateInv'
<1> USE DEF SafeInv
<1>1. PICK D \in SUBSET (Packages \X PreVersions), C \in SUBSET Packages :
        UpdateRuns /\ Accounts(D, C)
  BY DEF EstimateInv
<1>2. SUFFICES UpdateRuns' /\ Accounts(D, C)'
  BY DEF EstimateInv
<1>3. Processes(p) /\ JobMoves(p)
  BY StepsProcess, JobOf
<1>4. /\ UNCHANGED <<active, slot, other, phase, mounted, estimate>>
      /\ job'.mode = job.mode /\ job'.image = job.image /\ job'.chosen = job.chosen
      /\ job'.todo \in {job.todo, job.todo \ {p}} /\ job'.at \subseteq {p}
      /\ job.ready \subseteq job'.ready
  <2>1. estimate' = estimate
    BY <1>3 DEF Processes, Typed, EstimateType
  <2> QED
    BY <1>3, <2>1 DEF Processes, JobMoves, SameJob
<1>5. UpdateRuns'
  BY <1>1, <1>4 DEF UpdateRuns, Updated, InChroot, AddDataApex
<1>6. CASE Reuse(p)
  <2>1. file' = file /\ job' = Ready(p, "decompressed")
    BY <1>6 DEF Reuse, disk
  <2>2. job'.at = {} /\ job'.ready = job.ready \cup {<<p, "decompressed">>}
    BY <2>1, JobReady DEF Typed, Kinds
  <2>3. Extracts(C)'
    BY <2>2 DEF Extracts
  <2>4. \A q \in Settled(C) : Steady(q)'
    BY <1>1, <1>4, <2>1, <2>2 DEF Accounts, Steady, Overrides, FromFile, CanServe, IsBoot
  <2> QED
    BY <1>1, <1>4, <1>5, <2>1, <2>3, <2>4, AccountsKept
<1>7. CASE ~Reuse(p)
  <2>1. p \in C /\ (IsBoot => Updated)
    BY <1>1, <1>7, OnlyCounted
  <2>2. FilesAre(D, C)'
    BY <1>1, <1>7, FilesStayCounted
  <2>3. Extracts(C)'
    BY <1>4, <2>1 DEF Extracts, IsBoot, Updated
  <2>4. Foreseen(C)' /\ Settled(C)' = Settled(C)
    BY <1>1, <1>4 DEF Accounts, Foreseen, Settled, Uncounted, Updated, SameApex, Coming
  <2>5. ASSUME NEW q \in Settled(C)
        PROVE  Steady(q)'
    <3>1. q \in Packages /\ Steady(q) /\ (q # p \/ InChroot)
      <4>1. q = p => ~Updated
        BY <2>1 DEF Settled, Uncounted
      <4>2. IsBoot \/ InChroot
        BY <1>3, InJob DEF Processes
      <4> QED
        BY <1>1, <2>1, <4>1, <4>2 DEF Accounts, Settled, Uncounted
    <3>2. Images[slot][q].ver \in PreVersions
      BY <3>1, ImagesAre DEF Typed
    <3>3. file'["decompressed"][q][Images[slot][q].ver] = file["decompressed"][q][Images[slot][q].ver]
      BY <1>3, <3>1, <3>2 DEF Processes, FilesOfOthersStay, Kinds
    <3>4. IsBoot' = IsBoot /\ ~(IsBoot /\ InChroot)
      BY <1>4 DEF IsBoot, InChroot
    <3> QED
      BY <1>4, <3>1, <3>3, <3>4 DEF Steady, Overrides, FromFile, CanServe, HasPreInstalledVersion
  <2> QED
    BY <1>1, <1>4, <1>5, <2>2, <2>3, <2>4, <2>5 DEF Accounts
<1> QED
  BY <1>6, <1>7

(* A reservation that fails leaves fewer files.                              *)
LEMMA ReservationFails ==
  ASSUME SafeInv, EstimateInv, (estimate').firm, NEW i \in DOMAIN Images, ReserveSpaceFails(i)
  PROVE  EstimateInv'
<1> USE DEF SafeInv, memory
<1>1. /\ UNCHANGED <<active, slot, other, phase, mounted, job, estimate>> /\ job = Idle
      /\ file' = WithoutOta(file) /\ file \in FileType
  BY DEF ReserveSpaceFails, Typed
<1>2. /\ \A p \in Packages, v \in PreVersions :
           /\ file'["decompressed"][p][v] = file["decompressed"][p][v] /\ file'["ota"][p][v] = Nothing
      /\ slot \in DOMAIN Images
  BY <1>1, OtaRemoved DEF Typed
<1>3. PICK D \in SUBSET (Packages \X PreVersions), C \in SUBSET Packages :
        UpdateRuns /\ Accounts(D, C)
  BY <1>1 DEF EstimateInv
<1>4. UpdateRuns'
  BY <1>1, <1>3, IdleJob DEF UpdateRuns, Updated, InChroot
<1>5. FilesAre(D, C)'
  <2>1. ASSUME NEW p \in Packages, NEW v \in PreVersions
        PROVE  FileIs(D, C, p, v)'
    <3>1. FileIs(D, C, p, v)
      BY <1>3 DEF Accounts, FilesAre
    <3> QED
      BY <1>1, <1>2, <3>1 DEF FileIs, Updated, Coming
  <2> QED
    BY <2>1 DEF FilesAre
<1>6. Extracts(C)' /\ Foreseen(C)' /\ Settled(C)' = Settled(C)
  BY <1>1, <1>3, IdleJob DEF Accounts, Extracts, Foreseen, Settled, Uncounted, Updated, SameApex, Coming
<1>7. ASSUME NEW p \in Settled(C)
      PROVE  Steady(p)'
  <2>1. Steady(p) /\ Images[slot][p].ver \in PreVersions /\ p \in Packages
    BY <1>2, <1>3, ImagesAre DEF Accounts, Settled, Uncounted
  <2> QED
    BY <1>1, <1>2, <2>1 DEF Steady, Overrides, FromFile, CanServe, HasPreInstalledVersion, IsBoot
<1> QED
  BY <1>1, <1>3, <1>4, <1>5, <1>6, <1>7 DEF Accounts, EstimateInv

LEMMA EstimateNext == SafeInv /\ ChosenInv /\ EstimateInv /\ [Next]_vars => EstimateInv'
<1> SUFFICES ASSUME SafeInv, ChosenInv, EstimateInv, [Next]_vars, (estimate').firm
             PROVE  EstimateInv'
  BY DEF EstimateInv
<1>1. CASE \E i \in DOMAIN Images : ReserveSpace(i)
  BY <1>1, ReserveEstimates
<1>5. CASE \E i \in DOMAIN Images : ReserveSpaceFails(i)
  BY <1>5, ReservationFails
<1>2. CancelUpdate \/ (\E p \in Packages, v \in DataVersions \cup {Nothing} : ChangeActive(p, v)) => FALSE
  BY DEF CancelUpdate, NoEstimate, ChangeActive, SafeInv, Typed, EstimateType
<1>3. CASE UNCHANGED vars \/ UseSpace \/ InitializeDataApex
  <2>1. UNCHANGED <<file, active, slot, other, phase, mounted, job, estimate>>
    BY <1>3 DEF vars, disk, memory, history, UseSpace, InitializeDataApex
  <2>2. UpdateRuns' = UpdateRuns
    BY <2>1 DEF UpdateRuns, Updated, InChroot, AddDataApex
  <2>3. ASSUME NEW D, NEW C, Accounts(D, C)
        PROVE  Accounts(D, C)'
    <3>1. Extracts(C)' /\ \A p \in Settled(C) : Steady(p)'
      BY <2>1, <2>3 DEF Accounts, Extracts, Updated, IsBoot, Steady, Overrides, FromFile, CanServe
    <3> QED
      BY <2>1, <2>3, <3>1, AccountsKept
  <2> QED
    BY <2>1, <2>2, <2>3 DEF EstimateInv
<1>6. ASSUME NEW p \in Packages, Steps(p)
      PROVE  estimate.firm
  BY <1>6, StepsProcess DEF Processes, SafeInv, Typed, EstimateType
<1>4. ASSUME ~(\E i \in DOMAIN Images : ReserveSpace(i) \/ ReserveSpaceFails(i))
      PROVE  estimate.firm
  <2>1. CASE ProcessCompressedApex
    BY <1>6, <2>1 DEF ProcessCompressedApex, Steps
  <2>2. CASE ~ProcessCompressedApex
    BY <1>2, <1>3, <1>4, <2>2 DEF Next, SafeInv, Typed, EstimateType, Activate, OnOtaChrootBootstrap,
       LeaveChroot, Reboot, OnStart, RemoveInactiveDataApex, UseSpace, InitializeDataApex, vars, history
  <2> QED
    BY <2>1, <2>2
<1> QED
  BY <1>1, <1>2, <1>3, <1>4, <1>5, BootEstimates, ActivateEstimates, CleanupEstimates, ProcessEstimates
     DEF Next, ProcessCompressedApex, Steps

(* What the chroot and the boots of an update extract is no more than was    *)
(* computed for it, for any packages and images, as long as the estimate     *)
(* could be right at all; whatever is interrupted, and however often.        *)
THEOREM SpaceSuffices == Spec => []EstimateSuffices
<1>1. Init => ChosenInv /\ EstimateInv
  BY IdleJob DEF Init, ChosenInv, EstimateInv, NoEstimate, IsBoot
<1>2. SafeInv /\ EstimateInv => EstimateSuffices
  <2>1. ~estimate.firm => EstimateSuffices
    BY DEF EstimateSuffices
  <2> QED
    BY <2>1, CountFiles DEF EstimateInv
<1> QED
  BY <1>1, <1>2, SafeInit, SafeNext, ChosenNext, EstimateNext, PTL DEF Spec
=============================================================================
