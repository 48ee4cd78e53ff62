------------------------- MODULE ParallelActivation -------------------------
(***************************************************************************)
(* ActivateApexPackages, in the bootstrap - while ueventd is at its cold    *)
(* boot - and in OnStart: worker threads take APEXes from a queue, and each *)
(* needs a loop device of its own.  The kernel says which number is free,   *)
(* ueventd creates the device node some time later, and other processes may *)
(* take the device first.  A mutex holds the workers of one process apart   *)
(* while they ask for a number and configure the device.                    *)
(* The main thread waits for the workers one by one and then has the APEXes *)
(* that provide shared libraries contribute to /apex/sharedlibs.            *)
(*                                                                         *)
(* A step is one system call, or one critical section.                      *)
(***************************************************************************)
EXTENDS Integers, Sequences, FiniteSets, SequencesExt

CONSTANTS
  Apexes,             \* the APEXes that OnStart activates
  Bootstrap,          \* the bootstrap APEXes, which are pre-installed
  Version,            \* Version[a]
  Updated,            \* those that are not pre-installed
  ProvidesSharedLibs, \* those that provide shared libraries
  WorkerNum,          \* boot_activation_threads; the default, 0, stands for any number
                      \* that is large enough for a thread for each APEX
  NumToAllocate,      \* loop devices to allocate ahead
  SetupAttempts,      \* kLoopDeviceSetupAttempts
  WaitAttempts,       \* loop_wait_attempts
  Loops,              \* bound: numbers of loop devices
  PreAllocated,       \* those the kernel starts with
  MaxTakes,           \* bound: devices that other processes take
  MaxFaults           \* bound: device nodes given up while waiting and other failures

Workers == 1 .. WorkerNum
NoApex == "none"
Free == "free"
Other == "other"

(* Nothing to wait for with no attempt: the loop of WaitForDevice then never *)
(* looks, and with one attempt it does not outlast the cold boot.           *)
ASSUME ThreadsAssumption ==
  /\ WorkerNum \in Nat \ {0} /\ IsFiniteSet(Apexes)
  /\ SetupAttempts \in Nat \ {0} /\ WaitAttempts \in Nat \ {0, 1}
ASSUME ApexesAssumption ==
  /\ Version \in [Apexes -> Nat] /\ Bootstrap \subseteq Apexes \ Updated
  /\ Updated \subseteq Apexes /\ ProvidesSharedLibs \subseteq Apexes
ASSUME NamesAssumption == {NoApex, Free, Other} \cap Apexes = {}
ASSUME LoopsAssumption ==
  /\ PreAllocated \subseteq Loops /\ Loops \subseteq Nat
  /\ {NumToAllocate, MaxTakes, MaxFaults} \subseteq Nat

VARIABLES
  (* the kernel and ueventd: external *)
  loops,      \* loops[l]: what loop device l is configured for
  known,      \* the loop devices that exist
  nodes,      \* those that have a device node
  coldBoot,   \* ro.cold_boot_done
  (* the process *)
  list,       \* the APEXes to activate
  queue,      \* apex_queue, filled from a hash map
  pc,         \* pc[w]: where worker w is
  apex,       \* apex[w]: the APEX it activates
  num,        \* num[w]: its loop device
  attempts,   \* attempts[w]: attempts to set one up
  polls,      \* polls[w]: i in WaitForDevice
  mutex,      \* who holds the mutex of CreateLoopDevice
  db,         \* gMountedApexes
  bound,      \* APEXes at /apex/<name>
  ret,        \* ret[w]: the results of the worker, a set of <<APEX, ok>>
  main,       \* the main thread: [pc, id, cnt, i]
  links,      \* contributions to sharedlibs
  unlinked,   \* those that failed
  result,
  (* bounds and history *)
  takes, late, faults

kernel == <<loops, known, nodes, coldBoot>>
threads == <<list, queue, pc, apex, num, attempts, polls, mutex, db, bound, ret>>
control == <<main, links, unlinked, result>>
bounds == <<takes, late, faults>>
vars == <<kernel, threads, control, bounds>>

---------------------------------------------------------------------------
(* The kernel, ueventd and the other processes                              *)

CreateNode(l) ==
  /\ l \in known \ nodes /\ nodes' = nodes \cup {l}
  /\ UNCHANGED <<loops, known, coldBoot, threads, control, bounds>>

ColdBootDone ==
  /\ ~coldBoot /\ coldBoot' = TRUE
  /\ UNCHANGED <<loops, known, nodes, threads, control, bounds>>

TakeByOther(l) ==
  /\ takes < MaxTakes /\ l \in known /\ loops[l] = Free
  /\ loops' = [loops EXCEPT ![l] = Other] /\ takes' = takes + 1
  /\ UNCHANGED <<known, nodes, coldBoot, threads, control, late, faults>>

(* LOOP_CTL_GET_FREE: the first device that is unused, or a new one.         *)
Unused == {l \in known : loops[l] = Free}
IsFirst(l, S) == l \in S /\ \A k \in S : l <= k
GetFree(l) == IF Unused # {} THEN IsFirst(l, Unused) ELSE IsFirst(l, Loops \ known)

---------------------------------------------------------------------------
(* A worker                                                                 *)

Fault == late + faults < MaxFaults /\ faults' = faults + 1
Go(w, to) == pc' = [pc EXCEPT ![w] = to]

TakeFromQueue(w) ==
  /\ pc[w] = "next" /\ queue # {}
  /\ \E a \in queue : /\ queue' = queue \ {a}
                      /\ apex' = [apex EXCEPT ![w] = a]
  /\ Go(w, "loop") /\ attempts' = [attempts EXCEPT ![w] = 1]
  /\ UNCHANGED <<kernel, list, num, polls, mutex, db, bound, ret, control, bounds>>

Finish(w) ==
  /\ pc[w] = "next" /\ queue = {} /\ Go(w, "ended")
  /\ UNCHANGED <<kernel, list, queue, apex, num, attempts, polls, mutex, db, bound, ret, control, bounds>>

(* The result of the APEX, and on to the next one.                          *)
Report(w, ok) ==
  /\ ret' = [ret EXCEPT ![w] = @ \cup {<<apex[w], ok>>}]
  /\ apex' = [apex EXCEPT ![w] = NoApex] /\ Go(w, "next")

(* mutant: the number is asked for without the mutex. *)
CreateUnlocked(w) ==
  /\ pc[w] = "loop" /\ mutex' = mutex
  /\ \E l \in Loops : /\ GetFree(l) /\ known' = known \cup {l}
                      /\ num' = [num EXCEPT ![w] = l]
  /\ polls' = [polls EXCEPT ![w] = 0] /\ Go(w, "wait")
  /\ UNCHANGED <<loops, nodes, coldBoot, list, queue, apex, attempts, db, bound, ret, control, bounds>>

(* CreateLoopDevice: the number is asked for under the mutex.               *)
CreateLoopDevice(w) ==
  /\ pc[w] = "loop" /\ mutex = {}
  /\ mutex' = {w}
  /\ \E l \in Loops : /\ GetFree(l) /\ known' = known \cup {l}
                      /\ num' = [num EXCEPT ![w] = l]
  /\ polls' = [polls EXCEPT ![w] = 0] /\ Go(w, "wait")
  /\ UNCHANGED <<loops, nodes, coldBoot, list, queue, apex, attempts, db, bound, ret, control, bounds>>

(* mutant: one attempt more than kLoopDeviceSetupAttempts. *)
RetryOnceMore(w) ==
  IF attempts[w] > SetupAttempts
  THEN Report(w, FALSE) /\ UNCHANGED attempts
  ELSE /\ attempts' = [attempts EXCEPT ![w] = @ + 1]
       /\ Go(w, "loop") /\ UNCHANGED <<apex, ret>>

(* An attempt of MountPackageImpl fails: it is made again, a few times.     *)
Retry(w) ==
  IF attempts[w] >= SetupAttempts
  THEN Report(w, FALSE) /\ UNCHANGED attempts
  ELSE /\ attempts' = [attempts EXCEPT ![w] = @ + 1]
       /\ Go(w, "loop") /\ UNCHANGED <<apex, ret>>

(* /dev/loop-control or LOOP_CTL_GET_FREE fails.                            *)
GetFreeFails(w) ==
  /\ pc[w] = "loop" /\ mutex = {}
  /\ Fault /\ Retry(w)
  /\ UNCHANGED <<kernel, list, queue, num, polls, mutex, db, bound, control, takes, late>>

(* WaitForDevice: i starts over as long as the cold boot is not done.       *)
PollsAfter(w) == IF coldBoot THEN polls[w] + 1 ELSE 1

OpenDevice(w) ==
  /\ pc[w] = "wait" /\ num[w] \in nodes
  /\ Go(w, "configure")
  /\ UNCHANGED <<kernel, list, queue, apex, num, attempts, polls, mutex, db, bound, ret, control, bounds>>

PollDevice(w) ==
  /\ pc[w] = "wait" /\ num[w] \notin nodes /\ PollsAfter(w) # WaitAttempts
  /\ polls' = [polls EXCEPT ![w] = PollsAfter(w)]
  /\ UNCHANGED <<kernel, list, queue, pc, apex, num, attempts, mutex, db, bound, ret, control, bounds>>

GiveUpDevice(w) ==
  /\ pc[w] = "wait" /\ num[w] \notin nodes /\ PollsAfter(w) = WaitAttempts
  /\ late + faults < MaxFaults /\ late' = late + 1
  /\ mutex' = {} /\ Retry(w)
  /\ UNCHANGED <<kernel, list, queue, num, polls, db, bound, control, takes, faults>>

(* ConfigureLoopDevice.                                                     *)
ConfigureLoopDevice(w) ==
  /\ pc[w] = "configure" /\ loops[num[w]] = Free
  /\ loops' = [loops EXCEPT ![num[w]] = apex[w]]
  /\ mutex' = {} /\ Go(w, "mount")
  /\ UNCHANGED <<known, nodes, coldBoot, list, queue, apex, num, attempts, polls, db, bound, ret, control, bounds>>

(* mutant: the mutex is not released when the device was taken. *)
ConfigureFailsLocked(w) ==
  /\ pc[w] = "configure"
  /\ IF loops[num[w]] = Free THEN Fault ELSE UNCHANGED faults
  /\ loops' \in {loops, [loops EXCEPT ![num[w]] = Free]}
  /\ mutex' = mutex /\ Retry(w)
  /\ UNCHANGED <<known, nodes, coldBoot, list, queue, num, polls, db, bound, control, takes, late>>

(* EBUSY, or another error: MaybeCloseBad then clears the device, whoever set*)
(* it up; it goes unless somebody has it open.                              *)
ConfigureFails(w) ==
  /\ pc[w] = "configure"
  /\ IF loops[num[w]] = Free THEN Fault ELSE UNCHANGED faults
  /\ loops' \in {loops, [loops EXCEPT ![num[w]] = Free]}
  /\ mutex' = {} /\ Retry(w)
  /\ UNCHANGED <<known, nodes, coldBoot, list, queue, num, polls, db, bound, control, takes, late>>

(* ConfigureReadAhead fails, without the mutex; the device is given back.    *)
ReadAheadFails(w) ==
  /\ pc[w] = "mount" /\ Fault
  /\ loops' = [loops EXCEPT ![num[w]] = Free]
  /\ Retry(w)
  /\ UNCHANGED <<known, nodes, coldBoot, list, queue, num, polls, mutex, db, bound, control, takes, late>>

(* The rest of MountPackageImpl: dm-verity and the mount, then              *)
(* AddMountedApex.  What fails takes the loop device back.  Only the mount at *)
(* /apex/<name>@<version> counts for shared libraries.                      *)
Mount(w) ==
  /\ pc[w] = "mount"
  /\ db' = db \cup {apex[w]}
  /\ IF apex[w] \in ProvidesSharedLibs THEN Report(w, TRUE)
     ELSE Go(w, "bind") /\ UNCHANGED <<apex, ret>>
  /\ UNCHANGED <<kernel, list, queue, num, attempts, polls, mutex, bound, control, bounds>>

(* mutant: the loop device stays behind. *)
MountFailsKeeping(w) ==
  /\ pc[w] = "mount" /\ Fault
  /\ Report(w, FALSE)
  /\ UNCHANGED <<kernel, list, queue, num, attempts, polls, mutex, db, bound, control, takes, late>>

MountFails(w) ==
  /\ pc[w] = "mount" /\ Fault
  /\ loops' = [loops EXCEPT ![num[w]] = Free]
  /\ Report(w, FALSE)
  /\ UNCHANGED <<known, nodes, coldBoot, list, queue, num, attempts, polls, mutex, db, bound, control, takes, late>>

(* ActivatePackageImpl binds the latest version to /apex/<name>.            *)
BindMount(w) ==
  /\ pc[w] = "bind"
  /\ \/ bound' = bound \cup {apex[w]} /\ Report(w, TRUE) /\ faults' = faults
     \/ bound' = bound /\ Report(w, FALSE) /\ Fault
  /\ UNCHANGED <<kernel, list, queue, num, attempts, polls, mutex, db, control, takes, late>>

Worker(w) ==
  \/ TakeFromQueue(w) \/ Finish(w)
  \/ CreateLoopDevice(w) \/ GetFreeFails(w)
  \/ OpenDevice(w) \/ PollDevice(w) \/ GiveUpDevice(w)
  \/ ConfigureLoopDevice(w) \/ ConfigureFails(w) \/ ReadAheadFails(w)
  \/ Mount(w) \/ MountFails(w) \/ BindMount(w)

---------------------------------------------------------------------------
(* The main thread                                                          *)

Main(from, to) == main.pc = from /\ main' = [main EXCEPT !.pc = to]

(* PreAllocateLoopDevices: a device that is in use does not count.          *)
PreAllocateLoopDevices ==
  /\ main.pc = "allocate" /\ main.cnt < NumToAllocate /\ main.id \in Loops
  /\ known' = known \cup {main.id}
  /\ main' = [main EXCEPT !.id = @ + 1,
       !.cnt = IF main.id \in known /\ loops[main.id] # Free THEN @ ELSE @ + 1]
  /\ UNCHANGED <<loops, nodes, coldBoot, threads, links, unlinked, result, bounds>>

(* OnBootstrap logs it and goes on.  An answer of 0 - for a new device 0 - is *)
(* no success either: errno, whatever it was, decides.                     *)
PreAllocateFails ==
  /\ main.pc = "allocate" /\ main.cnt < NumToAllocate
  /\ \/ main.id \notin known /\ main.id = 0 /\ 0 \in Loops /\ known' = known \cup {0} /\ UNCHANGED faults
     \/ Fault /\ UNCHANGED known
  /\ main' = [main EXCEPT !.cnt = NumToAllocate]
  /\ UNCHANGED <<loops, nodes, coldBoot, threads, links, unlinked, result, takes, late>>

(* No more workers than APEXes: the others are never created.               *)
StartWorkers ==
  /\ main.cnt = NumToAllocate /\ Main("allocate", "collect")
  /\ pc' = [w \in Workers |-> IF w <= Cardinality(list) THEN "next" ELSE "ended"]
  /\ UNCHANGED <<kernel, list, queue, apex, num, attempts, polls, mutex, db, bound, ret, links, unlinked, result, bounds>>

(* futures[i].get(), in order.                                              *)
CollectResults ==
  /\ main.pc = "collect" /\ main.i <= WorkerNum /\ pc[main.i] = "ended"
  /\ main' = [main EXCEPT !.i = @ + 1]
  /\ UNCHANGED <<kernel, threads, links, unlinked, result, bounds>>

Results(i) == UNION {ret[w] : w \in 1 .. i}
Collected == Results(main.i - 1)
ActivatedSharedLibs == {a \in ProvidesSharedLibs : <<a, TRUE>> \in Collected}

(* The comparison std::sort is given.  Two updates of one version each come  *)
(* before the other: then the order is any.                                 *)
Precedes(a, b) ==
  IF Version[a] # Version[b] THEN Version[a] > Version[b] ELSE a \in Updated
Before(a, b) == Precedes(a, b) /\ ~Precedes(b, a)

ContributeToSharedLibs(a) ==
  LET left == ActivatedSharedLibs \ ToSet(links)
  IN /\ main.pc = "collect" /\ main.i > WorkerNum
     /\ a \in left /\ \A b \in left : ~Before(b, a)
     /\ links' = Append(links, a)
     /\ \/ UNCHANGED <<unlinked, faults>>
        \/ Fault /\ unlinked' = unlinked \cup {a}
     /\ UNCHANGED <<kernel, threads, main, result, takes, late>>

Return ==
  /\ main.i > WorkerNum /\ ActivatedSharedLibs \subseteq ToSet(links)
  /\ Main("collect", "returned")
  /\ result' = IF unlinked = {} /\ \A x \in Collected : x[2] THEN "ok" ELSE "error"
  /\ UNCHANGED <<kernel, threads, links, unlinked, bounds>>

MainThread ==
  \/ PreAllocateLoopDevices \/ PreAllocateFails \/ StartWorkers \/ CollectResults
  \/ (\E a \in Apexes : ContributeToSharedLibs(a)) \/ Return

---------------------------------------------------------------------------
Init ==
  /\ loops = [l \in Loops |-> Free] /\ known = PreAllocated
  /\ \/ /\ list = Bootstrap /\ coldBoot \in BOOLEAN /\ nodes \in SUBSET PreAllocated
        /\ main = [pc |-> "allocate", id |-> 0, cnt |-> 0, i |-> 1]
     \/ /\ list = Apexes /\ coldBoot = TRUE /\ nodes = PreAllocated
        /\ main = [pc |-> "allocate", id |-> 0, cnt |-> NumToAllocate, i |-> 1]
  /\ queue = list
  /\ pc = [w \in Workers |-> "created"] /\ apex = [w \in Workers |-> NoApex]
  /\ num = [w \in Workers |-> 0] /\ attempts = [w \in Workers |-> 0]
  /\ polls = [w \in Workers |-> 0] /\ mutex = {}
  /\ db = {} /\ bound = {} /\ ret = [w \in Workers |-> {}]
  /\ links = <<>> /\ unlinked = {} /\ result = "none"
  /\ takes = 0 /\ late = 0 /\ faults = 0

External == ColdBootDone \/ \E l \in Loops : CreateNode(l) \/ TakeByOther(l)

Next == External \/ MainThread \/ \E w \in Workers : Worker(w)

(* Threads are scheduled, and ueventd works through its queue.              *)
Fairness ==
  /\ WF_vars(MainThread) /\ \A w \in Workers : WF_vars(Worker(w))
  /\ WF_vars(ColdBootDone) /\ \A l \in Loops : WF_vars(CreateNode(l))

Spec == Init /\ [][Next]_vars
FairSpec == Spec /\ Fairness

---------------------------------------------------------------------------
(* Properties                                                               *)

(* The variables have their types.                                          *)
TypeOK ==
  /\ loops \in [Loops -> Apexes \cup {Free, Other}]
  /\ nodes \subseteq known /\ known \subseteq Loops /\ coldBoot \in BOOLEAN
  /\ queue \subseteq list /\ list \in {Bootstrap, Apexes} /\ mutex \subseteq Workers
  /\ pc \in [Workers -> {"created", "next", "loop", "wait", "configure", "mount", "bind", "ended"}]
  /\ apex \in [Workers -> Apexes \cup {NoApex}] /\ num \in [Workers -> Nat]
  /\ attempts \in [Workers -> 0 .. SetupAttempts] /\ polls \in [Workers -> 0 .. WaitAttempts - 1]
  /\ bound \subseteq db /\ db \subseteq Apexes
  /\ ret \in [Workers -> SUBSET (Apexes \X BOOLEAN)]
  /\ main \in [pc : {"allocate", "collect", "returned"}, id : Nat,
               cnt : 0 .. NumToAllocate, i : 1 .. WorkerNum + 1]
  /\ links \in Seq(ProvidesSharedLibs) /\ unlinked \subseteq ProvidesSharedLibs /\ result \in {"none", "ok", "error"}

(* An active APEX has a loop device to itself, and a loop device that apexd  *)
(* configured belongs to an active APEX or to one that a worker is at:       *)
(* neither two workers nor a failure on the way share or lose one           *)
(* (CreateLoopDevice, LoopbackDeviceUniqueFd).                              *)
DevicesAreOwned ==
  /\ \A a \in db : \E l \in Loops : \A k \in Loops : loops[k] = a <=> k = l
  /\ \A l \in Loops : loops[l] \in Apexes =>
       \/ loops[l] \in db
       \/ \E w \in Workers : apex[w] = loops[l] /\ num[w] = l /\ pc[w] = "mount"

(* The threads together do what one would: every APEX is settled once,      *)
(* an APEX fails only after kLoopDeviceSetupAttempts devices were lost to     *)
(* others or late, or after another failure, and shared libraries are        *)
(* contributed in their order (ActivateApexPackages, ActivateApexWorker).   *)
OutcomeOf(a) ==
  IF a \notin list THEN "absent"
  ELSE IF a \in unlinked THEN "unlinked"
  ELSE IF <<a, TRUE>> \in Results(WorkerNum) THEN "active"
  ELSE IF <<a, FALSE>> \in Results(WorkerNum) THEN "failed" ELSE "pending"
Sequential == INSTANCE Activation WITH
  Contributors <- ProvidesSharedLibs, Resilience <- SetupAttempts,
  outcome <- [a \in Apexes |-> OutcomeOf(a)],
  trouble <- takes + late + SetupAttempts * faults
ImplementsActivation == Sequential!Spec

(* Activation comes to an end, whatever other processes take and however     *)
(* late ueventd is: the bootstrap waits for it (WaitForDevice, futures).     *)
ActivationEnds == <>(main.pc = "returned")
=============================================================================
