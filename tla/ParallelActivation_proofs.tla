---------------------- MODULE ParallelActivation_proofs ----------------------
(* What holds of ParallelActivation for every value of its constants: any   *)
(* APEXes, threads, loop devices, attempts and failures.                    *)
EXTENDS ParallelActivation, FiniteSetTheorems, TLAPS

Busy == {"loop", "wait", "configure", "mount", "bind"}
Locked == {"wait", "configure"}

(* The workers exist once the main thread has started them; one that is at   *)
(* an APEX has it, and the others have none.                                *)
WorkersInv ==
  /\ main.pc = "allocate" => \A w \in Workers : pc[w] = "created"
  /\ \A w \in Workers : IF pc[w] \in Busy THEN apex[w] \in Apexes ELSE apex[w] = NoApex
  /\ \A w \in Workers : pc[w] = "bind" => apex[w] \in db

TypeInv == TypeOK /\ WorkersInv

(* An APEX is in the queue, at one worker, or done with.                    *)
QueueInv ==
  /\ \A w \in Workers : apex[w] \notin queue
  /\ \A w, v \in Workers : apex[w] = apex[v] => w = v \/ apex[w] = NoApex
  /\ db \cap queue = {}
  /\ \A w \in Workers : apex[w] \in db => pc[w] = "bind"

(* The mutex is held from the request for a number to the configuration.    *)
MutexInv == \A w \in Workers : pc[w] \in Locked <=> mutex = {w}

(* The device a worker has asked for is none of apexd's, and the one it has *)
(* configured is its own; so is the one of an APEX in the database.         *)
DeviceInv ==
  /\ \A w \in Workers : pc[w] \in Locked => num[w] \in known /\ loops[num[w]] \notin Apexes
  /\ \A w \in Workers : pc[w] = "mount" => num[w] \in Loops /\ loops[num[w]] = apex[w]
  /\ \A a \in db : \E l \in Loops : loops[l] = a
  /\ \A k, l \in Loops : loops[k] = loops[l] /\ loops[k] \in Apexes => k = l
  /\ \A l \in Loops : loops[l] \in Apexes =>
       loops[l] \in db \/ \E w \in Workers : pc[w] = "mount" /\ num[w] = l
  /\ \A l \in Loops \ known : loops[l] = Free

Inv == TypeInv /\ QueueInv /\ MutexInv /\ DeviceInv

---------------------------------------------------------------------------
(* Types                                                                    *)

(* There is at least one worker, and finitely many.                         *)
LEMMA WorkerNumType == WorkerNum \in Nat \ {0}
BY ThreadsAssumption

LEMMA NoApexIsNone == NoApex \notin Apexes /\ Free \notin Apexes /\ Other \notin Apexes
BY NamesAssumption

(* The result of an APEX is noted by the worker that is at it.              *)
LEMMA ReportType ==
  ASSUME TypeInv, NEW w \in Workers, NEW ok \in BOOLEAN, pc[w] \in Busy, Report(w, ok), UNCHANGED main,
         db \subseteq db'
  PROVE  /\ ret' \in [Workers -> SUBSET (Apexes \X BOOLEAN)]
         /\ pc' = [pc EXCEPT ![w] = "next"]
         /\ apex' = [apex EXCEPT ![w] = NoApex]
         /\ WorkersInv'
<1>1. apex[w] \in Apexes /\ main.pc # "allocate"
  BY DEF TypeInv, WorkersInv, Busy
<1>2. ret' \in [Workers -> SUBSET (Apexes \X BOOLEAN)]
  BY <1>1 DEF Report, TypeInv, TypeOK
<1> QED
  BY <1>1, <1>2, NoApexIsNone DEF Report, Go, TypeInv, TypeOK, WorkersInv, Busy

(* One that fails to set up a device is reported or tried again.            *)
LEMMA RetryType ==
  ASSUME TypeInv, NEW w \in Workers, pc[w] \in Busy, Retry(w), UNCHANGED main,
         db \subseteq db'
  PROVE  /\ ret' \in [Workers -> SUBSET (Apexes \X BOOLEAN)]
         /\ attempts' \in [Workers -> 0 .. SetupAttempts]
         /\ \/ pc' = [pc EXCEPT ![w] = "next"] /\ apex' = [apex EXCEPT ![w] = NoApex]
            \/ pc' = [pc EXCEPT ![w] = "loop"] /\ apex' = apex
         /\ WorkersInv'
<1>1. CASE attempts[w] >= SetupAttempts
  <2>1. Report(w, FALSE) /\ UNCHANGED attempts
    BY <1>1 DEF Retry
  <2> QED
    BY <2>1, ReportType DEF TypeInv, TypeOK
<1>2. CASE ~(attempts[w] >= SetupAttempts)
  <2>1. /\ attempts' = [attempts EXCEPT ![w] = @ + 1] /\ pc' = [pc EXCEPT ![w] = "loop"]
        /\ UNCHANGED <<apex, ret>>
    BY <1>2 DEF Retry, Go
  <2>2. attempts[w] \in 0 .. SetupAttempts
    BY DEF TypeInv, TypeOK
  <2>3. attempts[w] + 1 \in 0 .. SetupAttempts
    BY <2>2, <1>2, ThreadsAssumption
  <2>4. attempts' \in [Workers -> 0 .. SetupAttempts]
    BY <2>1, <2>3 DEF TypeInv, TypeOK
  <2>5. main.pc # "allocate"
    BY DEF TypeInv, WorkersInv, Busy
  <2>6. WorkersInv'
    BY <2>1, <2>5 DEF TypeInv, TypeOK, WorkersInv, Busy
  <2> QED
    BY <2>1, <2>4, <2>6 DEF TypeInv, TypeOK
<1> QED
  BY <1>1, <1>2

LEMMA WorkerTakesType ==
  ASSUME TypeInv, NEW w \in Workers, TakeFromQueue(w) \/ Finish(w)
  PROVE  TypeInv'
<1> USE DEF kernel, control, bounds, Go
<1>1. CASE TakeFromQueue(w)
  <2>1. PICK a \in queue : queue' = queue \ {a} /\ apex' = [apex EXCEPT ![w] = a]
    BY <1>1 DEF TakeFromQueue
  <2>2. a \in Apexes /\ main.pc # "allocate"
    BY <1>1, ApexesAssumption DEF TakeFromQueue, TypeInv, TypeOK, WorkersInv
  <2>3. pc' = [pc EXCEPT ![w] = "loop"] /\ attempts' = [attempts EXCEPT ![w] = 1]
    BY <1>1 DEF TakeFromQueue
  <2>4. attempts' \in [Workers -> 0 .. SetupAttempts]
    BY <2>3, ThreadsAssumption DEF TypeInv, TypeOK
  <2>5. TypeOK'
    BY <1>1, <2>1, <2>2, <2>3, <2>4 DEF TakeFromQueue, TypeInv, TypeOK
  <2>6. WorkersInv'
    BY <1>1, <2>1, <2>2, <2>3 DEF TakeFromQueue, TypeInv, TypeOK, WorkersInv, Busy
  <2> QED
    BY <2>5, <2>6 DEF TypeInv
<1>2. CASE Finish(w)
  <2>1. main.pc # "allocate"
    BY <1>2 DEF Finish, TypeInv, WorkersInv
  <2> QED
    BY <1>2, <2>1 DEF Finish, TypeInv, TypeOK, WorkersInv, Busy
<1> QED
  BY <1>1, <1>2

LEMMA LoopDeviceType ==
  ASSUME TypeInv, NEW w \in Workers,
         \/ CreateLoopDevice(w) \/ OpenDevice(w) \/ PollDevice(w) \/ GiveUpDevice(w)
         \/ ConfigureLoopDevice(w) \/ ConfigureFails(w) \/ GetFreeFails(w) \/ ReadAheadFails(w)
  PROVE  TypeInv'
<1> USE DEF kernel, control, bounds
<1>1. CASE CreateLoopDevice(w)
  <2>1. PICK l \in Loops : known' = known \cup {l} /\ num' = [num EXCEPT ![w] = l]
    BY <1>1 DEF CreateLoopDevice
  <2>2. main.pc # "allocate" /\ l \in Nat /\ 0 \in 0 .. WaitAttempts - 1
    BY <1>1, LoopsAssumption, ThreadsAssumption DEF CreateLoopDevice, TypeInv, WorkersInv
  <2>3. TypeOK'
    BY <1>1, <2>1, <2>2 DEF CreateLoopDevice, Go, TypeInv, TypeOK
  <2> QED
    BY <1>1, <2>2, <2>3 DEF CreateLoopDevice, Go, TypeInv, TypeOK, WorkersInv, Busy
<1>2. CASE OpenDevice(w)
  <2>1. main.pc # "allocate"
    BY <1>2 DEF OpenDevice, TypeInv, WorkersInv
  <2> QED
    BY <1>2, <2>1 DEF OpenDevice, Go, TypeInv, TypeOK, WorkersInv, Busy
<1>3. CASE PollDevice(w)
  <2>1. polls[w] \in 0 .. WaitAttempts - 1 /\ PollsAfter(w) # WaitAttempts
    BY <1>3 DEF PollDevice, TypeInv, TypeOK
  <2>2. PollsAfter(w) \in 0 .. WaitAttempts - 1
    BY <2>1, ThreadsAssumption DEF PollsAfter
  <2>3. polls' \in [Workers -> 0 .. WaitAttempts - 1]
    BY <1>3, <2>2 DEF PollDevice, TypeInv, TypeOK
  <2> QED
    BY <1>3, <2>3 DEF PollDevice, TypeInv, TypeOK, WorkersInv
<1>4. CASE GiveUpDevice(w)
  <2>1. pc[w] \in Busy /\ Retry(w) /\ UNCHANGED <<main, db>>
    BY <1>4 DEF GiveUpDevice, Busy
  <2>3. pc' \in [Workers -> {"created", "next", "loop", "wait", "configure", "mount", "bind", "ended"}]
        /\ apex' \in [Workers -> Apexes \cup {NoApex}]
    BY <2>1, RetryType DEF TypeInv, TypeOK
  <2> QED
    BY <1>4, <2>1, <2>3, RetryType DEF GiveUpDevice, TypeInv, TypeOK
<1>5. CASE ConfigureLoopDevice(w)
  <2>1. apex[w] \in Apexes /\ main.pc # "allocate"
    BY <1>5 DEF ConfigureLoopDevice, TypeInv, WorkersInv, Busy
  <2>2. TypeOK'
    BY <1>5, <2>1 DEF ConfigureLoopDevice, Go, TypeInv, TypeOK
  <2> QED
    BY <1>5, <2>1, <2>2 DEF ConfigureLoopDevice, Go, TypeInv, TypeOK, WorkersInv, Busy
<1>6. CASE ConfigureFails(w)
  <2>1. pc[w] \in Busy /\ Retry(w) /\ UNCHANGED <<main, db>>
    BY <1>6 DEF ConfigureFails, Busy
  <2>2. loops' \in [Loops -> Apexes \cup {Free, Other}]
    BY <1>6 DEF ConfigureFails, TypeInv, TypeOK
  <2>3. pc' \in [Workers -> {"created", "next", "loop", "wait", "configure", "mount", "bind", "ended"}]
        /\ apex' \in [Workers -> Apexes \cup {NoApex}]
    BY <2>1, RetryType DEF TypeInv, TypeOK
  <2> QED
    BY <1>6, <2>1, <2>2, <2>3, RetryType DEF ConfigureFails, TypeInv, TypeOK
<1>7. CASE GetFreeFails(w) \/ ReadAheadFails(w)
  <2>1. /\ pc[w] \in Busy /\ Retry(w)
        /\ UNCHANGED <<known, nodes, coldBoot, list, queue, num, polls, mutex, db, bound, main, links, unlinked, result>>
    BY <1>7 DEF GetFreeFails, ReadAheadFails, Busy
  <2>2. loops' \in [Loops -> Apexes \cup {Free, Other}]
    BY <1>7 DEF GetFreeFails, ReadAheadFails, TypeInv, TypeOK
  <2>3. pc' \in [Workers -> {"created", "next", "loop", "wait", "configure", "mount", "bind", "ended"}]
        /\ apex' \in [Workers -> Apexes \cup {NoApex}]
    BY <2>1, RetryType DEF TypeInv, TypeOK
  <2> QED
    BY <2>1, <2>2, <2>3, RetryType DEF TypeInv, TypeOK
<1> QED
  BY <1>1, <1>2, <1>3, <1>4, <1>5, <1>6, <1>7

LEMMA MountType ==
  ASSUME TypeInv, NEW w \in Workers, Mount(w) \/ MountFails(w) \/ BindMount(w)
  PROVE  TypeInv'
<1> USE DEF kernel, control, bounds
<1>0. pc[w] \in Busy /\ apex[w] \in Apexes /\ UNCHANGED main /\ db \subseteq db'
  BY DEF Mount, MountFails, BindMount, TypeInv, WorkersInv, Busy
<1>1. CASE Mount(w)
  <2>1. db' \subseteq Apexes /\ bound' \subseteq db'
    BY <1>0, <1>1 DEF Mount, TypeInv, TypeOK
  <2>2. CASE apex[w] \in ProvidesSharedLibs
    <3>1. Report(w, TRUE)
      BY <1>1, <2>2 DEF Mount
    <3>2. pc' \in [Workers -> {"created", "next", "loop", "wait", "configure", "mount", "bind", "ended"}]
          /\ apex' \in [Workers -> Apexes \cup {NoApex}]
      BY <1>0, <3>1, ReportType DEF TypeInv, TypeOK
    <3> QED
      BY <1>0, <1>1, <2>1, <3>1, <3>2, ReportType DEF Mount, TypeInv, TypeOK
  <2>3. CASE apex[w] \notin ProvidesSharedLibs
    <3>1. pc' = [pc EXCEPT ![w] = "bind"] /\ UNCHANGED <<apex, ret>> /\ db' = db \cup {apex[w]}
      BY <1>1, <2>3 DEF Mount, Go
    <3>2. main.pc # "allocate"
      BY <1>0 DEF TypeInv, WorkersInv, Busy
    <3>3. WorkersInv'
      BY <1>0, <3>1, <3>2 DEF TypeInv, TypeOK, WorkersInv, Busy
    <3> QED
      BY <1>0, <1>1, <2>1, <3>1, <3>3 DEF Mount, TypeInv, TypeOK
  <2> QED
    BY <2>2, <2>3
<1>2. CASE MountFails(w)
  <2>1. Report(w, FALSE) /\ loops' \in [Loops -> Apexes \cup {Free, Other}]
    BY <1>2 DEF MountFails, TypeInv, TypeOK
  <2>2. pc' \in [Workers -> {"created", "next", "loop", "wait", "configure", "mount", "bind", "ended"}]
        /\ apex' \in [Workers -> Apexes \cup {NoApex}]
    BY <1>0, <2>1, ReportType DEF TypeInv, TypeOK
  <2> QED
    BY <1>0, <1>2, <2>1, <2>2, ReportType DEF MountFails, TypeInv, TypeOK
<1>3. CASE BindMount(w)
  <2>1. PICK ok \in BOOLEAN : Report(w, ok)
    BY <1>3 DEF BindMount
  <2>2. pc' \in [Workers -> {"created", "next", "loop", "wait", "configure", "mount", "bind", "ended"}]
        /\ apex' \in [Workers -> Apexes \cup {NoApex}]
    BY <1>0, <2>1, ReportType DEF TypeInv, TypeOK
  <2>3. bound' \subseteq db'
    BY <1>3 DEF BindMount, TypeInv, TypeOK, WorkersInv
  <2> QED
    BY <1>0, <1>3, <2>1, <2>2, <2>3, ReportType DEF BindMount, TypeInv, TypeOK
<1> QED
  BY <1>1, <1>2, <1>3

LEMMA MainType ==
  ASSUME TypeInv, MainThread
  PROVE  TypeInv'
<1> USE DEF kernel, threads, bounds
<1>1. CASE PreAllocateLoopDevices
  <2>1. main.cnt \in Nat /\ main.cnt < NumToAllocate /\ NumToAllocate \in Nat
    BY <1>1, LoopsAssumption DEF PreAllocateLoopDevices, TypeInv, TypeOK
  <2> DEFINE c == IF main.id \in known /\ loops[main.id] # Free THEN main.cnt ELSE main.cnt + 1
  <2>2. c \in 0 .. NumToAllocate
    BY <2>1
  <2>3. main' = [main EXCEPT !.id = @ + 1, !.cnt = c]
    BY <1>1 DEF PreAllocateLoopDevices
  <2> HIDE DEF c
  <2>4. main' \in [pc : {"allocate", "collect", "returned"}, id : Nat,
                   cnt : 0 .. NumToAllocate, i : 1 .. WorkerNum + 1]
    <3> DEFINE n == main.id + 1
               T == [pc : {"allocate", "collect", "returned"}, id : Nat,
                     cnt : 0 .. NumToAllocate, i : 1 .. WorkerNum + 1]
    <3>1. main \in T /\ n \in Nat
      BY DEF TypeInv, TypeOK
    <3>2. main' = [[main EXCEPT !.id = n] EXCEPT !.cnt = c]
      BY <2>3
    <3> HIDE DEF n
    <3>3. [main EXCEPT !.id = n] \in T
      BY <3>1
    <3>4. [[main EXCEPT !.id = n] EXCEPT !.cnt = c] \in T
      BY <3>3, <2>2
    <3> QED
      BY <3>2, <3>4
  <2>5. main'.pc = main.pc
    BY <2>3 DEF TypeInv, TypeOK
  <2> QED
    BY <1>1, <2>4, <2>5 DEF PreAllocateLoopDevices, TypeInv, TypeOK, WorkersInv
<1>2. CASE StartWorkers
  <2>1. main'.pc = "collect" /\ pc' \in [Workers -> {"next", "ended"}]
    BY <1>2 DEF StartWorkers, Main, TypeInv, TypeOK
  <2>2. \A w \in Workers : pc[w] \notin Busy
    BY <1>2 DEF StartWorkers, Main, TypeInv, WorkersInv, Busy
  <2>3. TypeOK'
    BY <1>2, <2>1 DEF StartWorkers, Main, TypeInv, TypeOK
  <2> QED
    BY <1>2, <2>1, <2>2, <2>3 DEF StartWorkers, TypeInv, WorkersInv, Busy
<1>3. CASE CollectResults
  <2>1. main.i \in 1 .. WorkerNum + 1 /\ main.i <= WorkerNum
    BY <1>3 DEF CollectResults, TypeInv, TypeOK
  <2>2. main.i + 1 \in 1 .. WorkerNum + 1
    BY <2>1, WorkerNumType
  <2>3. main' \in [pc : {"allocate", "collect", "returned"}, id : Nat,
                   cnt : 0 .. NumToAllocate, i : 1 .. WorkerNum + 1]
        /\ main'.pc = main.pc
    BY <1>3, <2>2 DEF CollectResults, TypeInv, TypeOK
  <2> QED
    BY <1>3, <2>3 DEF CollectResults, TypeInv, TypeOK, WorkersInv
<1>4. CASE \E a \in Apexes : ContributeToSharedLibs(a)
  <2>1. PICK a \in Apexes : ContributeToSharedLibs(a)
    BY <1>4
  <2>2. a \in ProvidesSharedLibs
    BY <2>1 DEF ContributeToSharedLibs, ActivatedSharedLibs
  <2>3. links' \in Seq(ProvidesSharedLibs) /\ unlinked' \subseteq ProvidesSharedLibs
    BY <2>1, <2>2 DEF ContributeToSharedLibs, TypeInv, TypeOK
  <2> QED
    BY <2>1, <2>3 DEF ContributeToSharedLibs, TypeInv, TypeOK, WorkersInv
<1>5. CASE Return
  <2>1. main.pc = "collect" /\ main' = [main EXCEPT !.pc = "returned"] /\ result' \in {"ok", "error"}
    BY <1>5 DEF Return, Main
  <2> QED
    BY <1>5, <2>1 DEF Return, TypeInv, TypeOK, WorkersInv
<1>6. CASE PreAllocateFails
  <2>1. main' = [main EXCEPT !.cnt = NumToAllocate] /\ known' \in {known, known \cup {0}}
        /\ (known' # known => 0 \in Loops)
    BY <1>6 DEF PreAllocateFails
  <2>2. main' \in [pc : {"allocate", "collect", "returned"}, id : Nat,
                   cnt : 0 .. NumToAllocate, i : 1 .. WorkerNum + 1]
        /\ main'.pc = main.pc
    <3>1. NumToAllocate \in 0 .. NumToAllocate
      BY LoopsAssumption
    <3> QED
      BY <2>1, <3>1 DEF TypeInv, TypeOK
  <2> QED
    BY <1>6, <2>1, <2>2 DEF PreAllocateFails, TypeInv, TypeOK, WorkersInv
<1> QED
  BY <1>1, <1>2, <1>3, <1>4, <1>5, <1>6 DEF MainThread

LEMMA ExternalType ==
  ASSUME TypeInv, External
  PROVE  TypeInv'
<1> USE DEF threads, control, bounds
<1>1. CASE ColdBootDone
  BY <1>1 DEF ColdBootDone, TypeInv, TypeOK, WorkersInv
<1>2. ASSUME NEW l \in Loops, CreateNode(l) PROVE TypeInv'
  BY <1>2 DEF CreateNode, TypeInv, TypeOK, WorkersInv
<1>3. ASSUME NEW l \in Loops, TakeByOther(l) PROVE TypeInv'
  BY <1>3 DEF TakeByOther, TypeInv, TypeOK, WorkersInv
<1> QED
  BY <1>1, <1>2, <1>3 DEF External

LEMMA InitType == Init => TypeInv
<1> SUFFICES ASSUME Init PROVE TypeInv
  OBVIOUS
<1>1. main \in [pc : {"allocate"}, id : {0}, cnt : 0 .. NumToAllocate, i : {1}]
  BY LoopsAssumption DEF Init
<1>2. main \in [pc : {"allocate", "collect", "returned"}, id : Nat,
                cnt : 0 .. NumToAllocate, i : 1 .. WorkerNum + 1] /\ main.pc = "allocate"
  BY <1>1, WorkerNumType
<1>3. attempts \in [Workers -> 0 .. SetupAttempts] /\ polls \in [Workers -> 0 .. WaitAttempts - 1]
  BY ThreadsAssumption DEF Init
<1>4. nodes \subseteq known /\ known \subseteq Loops /\ list \in {Bootstrap, Apexes} /\ coldBoot \in BOOLEAN
  BY LoopsAssumption DEF Init
<1> QED
  BY <1>2, <1>3, <1>4 DEF Init, TypeInv, TypeOK, WorkersInv, Busy

(* The inductive step of TypeInv.                                           *)
LEMMA NextType == TypeInv /\ [Next]_vars => TypeInv'
<1> SUFFICES ASSUME TypeInv, [Next]_vars PROVE TypeInv'
  OBVIOUS
<1>1. ASSUME NEW w \in Workers, Worker(w) PROVE TypeInv'
  BY <1>1, WorkerTakesType, LoopDeviceType, MountType DEF Worker
<1>2. CASE UNCHANGED vars
  BY <1>2 DEF vars, kernel, threads, control, bounds, TypeInv, TypeOK, WorkersInv
<1> QED
  BY <1>1, <1>2, MainType, ExternalType DEF Next

(* Every variable keeps its type: attempts and polls stay within their       *)
(* limits, what is bound is in the database, and a worker that is past the  *)
(* queue is at an APEX (ActivateApexWorker, CreateLoopDevice, WaitForDevice).*)
THEOREM TypeCorrect == Spec => []TypeOK
<1>1. Spec => []TypeInv
  BY InitType, NextType, PTL DEF Spec
<1>2. TypeInv => TypeOK
  BY DEF TypeInv
<1> QED
  BY <1>1, <1>2, PTL

---------------------------------------------------------------------------
(* Who is at which APEX                                                     *)

(* A worker that leaves its APEX, or stays at it, disturbs no other.        *)
LEMMA QueueStep ==
  ASSUME TypeInv, QueueInv, NEW w \in Workers, queue' = queue,
         pc' \in [Workers -> {"created", "next", "loop", "wait", "configure", "mount", "bind", "ended"}],
         \A v \in Workers \ {w} : pc'[v] = pc[v] /\ apex'[v] = apex[v],
         \/ apex'[w] = NoApex
         \/ apex'[w] = apex[w] /\ (apex'[w] \in db' => pc'[w] = "bind"),
         db' \in {db, db \cup {apex[w]}}, db' \subseteq Apexes, apex[w] \in Apexes
  PROVE  QueueInv'
<1>1. \A v \in Workers : apex'[v] = apex[v] \/ apex'[v] = NoApex
  OBVIOUS
<1>2. \A v \in Workers : apex'[v] \notin queue'
  BY ZenonT(60), <1>1, NoApexIsNone, ApexesAssumption DEF QueueInv, TypeInv, TypeOK
<1>3. \A u, v \in Workers : apex'[u] = apex'[v] => u = v \/ apex'[u] = NoApex
  BY <1>1 DEF QueueInv
<1>4. db' \cap queue' = {}
  BY DEF QueueInv
<1>5. ASSUME NEW v \in Workers, apex'[v] \in db' PROVE pc'[v] = "bind"
  <2>1. apex'[v] # NoApex
    BY <1>5, NoApexIsNone
  <2>2. CASE v = w
    BY <2>1, <2>2, <1>5
  <2>3. CASE v # w
    <3>1. apex[v] # apex[w]
      BY <2>1, <2>3 DEF QueueInv
    <3> QED
      BY <3>1, <2>3, <1>5 DEF QueueInv
  <2> QED
    BY <2>2, <2>3
<1> QED
  BY <1>2, <1>3, <1>4, <1>5 DEF QueueInv

LEMMA QueueWorker ==
  ASSUME TypeInv, TypeInv', QueueInv, NEW w \in Workers, Worker(w)
  PROVE  QueueInv'
<1> USE DEF kernel, control, bounds, Go
<1>1. CASE TakeFromQueue(w)
  <2>1. PICK a \in queue : queue' = queue \ {a} /\ apex' = [apex EXCEPT ![w] = a]
    BY <1>1 DEF TakeFromQueue
  <2>2. a \in Apexes /\ a # NoApex
    BY NoApexIsNone, ApexesAssumption DEF TypeInv, TypeOK
  <2>3. \A v \in Workers : IF v = w THEN apex'[v] = a ELSE apex'[v] = apex[v] /\ pc'[v] = pc[v]
    BY <1>1, <2>1 DEF TakeFromQueue, TypeInv, TypeOK
  <2>4. a \notin db /\ db' = db
    BY <1>1 DEF TakeFromQueue, QueueInv
  <2>5. \A v \in Workers : apex'[v] \notin queue'
    BY <2>1, <2>3 DEF QueueInv
  <2>6. \A u, v \in Workers : apex'[u] = apex'[v] => u = v \/ apex'[u] = NoApex
    BY <2>3 DEF QueueInv
  <2>7. \A v \in Workers : apex'[v] \in db' => pc'[v] = "bind"
    BY <2>3, <2>4 DEF QueueInv
  <2> QED
    BY <2>1, <2>4, <2>5, <2>6, <2>7 DEF QueueInv
<1>2. CASE Finish(w)
  <2>1. apex[w] = NoApex
    BY <1>2 DEF Finish, TypeInv, WorkersInv, Busy
  <2> QED
    BY <1>2, <2>1, NoApexIsNone DEF Finish, TypeInv, TypeOK, QueueInv
<1>3. CASE \/ CreateLoopDevice(w) \/ OpenDevice(w) \/ PollDevice(w) \/ ConfigureLoopDevice(w)
  <2>1. pc[w] \in Busy \ {"bind"} /\ apex[w] \in Apexes
    BY <1>3 DEF CreateLoopDevice, OpenDevice, PollDevice, ConfigureLoopDevice, TypeInv, WorkersInv, Busy
  <2>2. queue' = queue /\ db' = db /\ apex' = apex
    BY <1>3 DEF CreateLoopDevice, OpenDevice, PollDevice, ConfigureLoopDevice
  <2>3. \A v \in Workers \ {w} : pc'[v] = pc[v]
    BY <1>3 DEF CreateLoopDevice, OpenDevice, PollDevice, ConfigureLoopDevice, TypeInv, TypeOK
  <2>4. apex[w] \notin db
    BY <2>1 DEF QueueInv
  <2> QED
    BY <2>1, <2>2, <2>3, <2>4, QueueStep DEF TypeInv, TypeOK
<1>4. CASE GiveUpDevice(w) \/ ConfigureFails(w) \/ GetFreeFails(w) \/ ReadAheadFails(w)
  <2>1. Retry(w) /\ pc[w] \in Busy \ {"bind"} /\ UNCHANGED <<main, db, queue>>
    BY <1>4 DEF GiveUpDevice, ConfigureFails, GetFreeFails, ReadAheadFails, Busy
  <2>2. \/ pc' = [pc EXCEPT ![w] = "next"] /\ apex' = [apex EXCEPT ![w] = NoApex]
        \/ pc' = [pc EXCEPT ![w] = "loop"] /\ apex' = apex
    BY <2>1, RetryType
  <2>3. apex[w] \in Apexes /\ apex[w] \notin db
    BY <2>1 DEF TypeInv, WorkersInv, QueueInv
  <2>4. \A v \in Workers \ {w} : pc'[v] = pc[v] /\ apex'[v] = apex[v]
    BY <2>2 DEF TypeInv, TypeOK
  <2>5. apex'[w] = NoApex \/ apex'[w] = apex[w]
    BY <2>2 DEF TypeInv, TypeOK
  <2> QED
    BY <2>1, <2>3, <2>4, <2>5, QueueStep DEF TypeInv, TypeOK
<1>5. CASE Mount(w) \/ MountFails(w) \/ BindMount(w)
  <2>1. pc[w] \in Busy /\ apex[w] \in Apexes /\ queue' = queue /\ db' \in {db, db \cup {apex[w]}}
    BY <1>5 DEF Mount, MountFails, BindMount, TypeInv, WorkersInv, Busy
  <2>2. \/ pc' = [pc EXCEPT ![w] = "next"] /\ apex' = [apex EXCEPT ![w] = NoApex]
        \/ pc' = [pc EXCEPT ![w] = "bind"] /\ apex' = apex
    BY <1>5 DEF Mount, MountFails, BindMount, Report
  <2>3. \A v \in Workers \ {w} : pc'[v] = pc[v] /\ apex'[v] = apex[v]
    BY <2>2 DEF TypeInv, TypeOK
  <2>4. apex'[w] = NoApex \/ (apex'[w] = apex[w] /\ pc'[w] = "bind")
    BY <2>2 DEF TypeInv, TypeOK
  <2> QED
    BY <2>1, <2>3, <2>4, QueueStep DEF TypeInv, TypeOK
<1> QED
  BY <1>1, <1>2, <1>3, <1>4, <1>5 DEF Worker

---------------------------------------------------------------------------
(* Who has which device                                                     *)

(* The main thread changes the state of workers only when it starts them.   *)
LEMMA MainFrame ==
  ASSUME TypeInv, MainThread
  PROVE  /\ loops' = loops /\ queue' = queue /\ apex' = apex
         /\ num' = num /\ mutex' = mutex /\ db' = db
         /\ \A w \in Workers : pc'[w] = pc[w] \/ (pc[w] \notin Busy /\ pc'[w] \notin Busy)
         /\ known \subseteq known'
<1>1. CASE StartWorkers
  <2>1. \A w \in Workers : pc[w] = "created" /\ pc'[w] \in {"next", "ended"}
    BY <1>1 DEF StartWorkers, Main, TypeInv, WorkersInv
  <2> QED
    BY <1>1, <2>1 DEF StartWorkers, kernel, Busy
<1>2. CASE PreAllocateLoopDevices \/ PreAllocateFails
  BY <1>2 DEF PreAllocateLoopDevices, PreAllocateFails, threads
<1>3. CASE CollectResults \/ Return \/ \E a \in Apexes : ContributeToSharedLibs(a)
  BY <1>3 DEF CollectResults, Return, ContributeToSharedLibs, kernel, threads
<1> QED
  BY <1>1, <1>2, <1>3 DEF MainThread

LEMMA MainDevices ==
  ASSUME TypeInv, QueueInv, MutexInv, DeviceInv, MainThread
  PROVE  QueueInv' /\ MutexInv' /\ DeviceInv'
<1>0. /\ loops' = loops /\ queue' = queue /\ apex' = apex /\ num' = num /\ mutex' = mutex /\ db' = db
      /\ known \subseteq known'
      /\ \A w \in Workers : pc'[w] = pc[w] \/ (pc[w] \notin Busy /\ pc'[w] \notin Busy)
  BY MainFrame
<1>1. \A w \in Workers :
        /\ pc'[w] = "bind" <=> pc[w] = "bind"
        /\ pc'[w] = "mount" <=> pc[w] = "mount"
        /\ pc'[w] \in Locked <=> pc[w] \in Locked
  BY <1>0 DEF Busy, Locked
<1>2. QueueInv'
  BY <1>0, <1>1 DEF QueueInv
<1>3. MutexInv'
  BY <1>0, <1>1 DEF MutexInv
<1>4. DeviceInv'
  BY <1>0, <1>1 DEF DeviceInv
<1> QED
  BY <1>2, <1>3, <1>4

LEMMA ExternalDevices ==
  ASSUME TypeInv, QueueInv, MutexInv, DeviceInv, External
  PROVE  QueueInv' /\ MutexInv' /\ DeviceInv'
<1>1. UNCHANGED threads
  BY DEF External, ColdBootDone, CreateNode, TakeByOther
<1>2. QueueInv' /\ MutexInv'
  BY <1>1 DEF threads, QueueInv, MutexInv
<1>3. CASE UNCHANGED <<loops, known>>
  BY <1>1, <1>2, <1>3 DEF threads, DeviceInv
<1>4. ASSUME NEW l \in Loops, TakeByOther(l) PROVE DeviceInv'
  <2>1. loops[l] = Free /\ l \in known /\ known' = known
    BY <1>4 DEF TakeByOther
  <2>2. \A k \in Loops : IF k = l THEN loops'[k] = Other ELSE loops'[k] = loops[k]
    BY <1>4 DEF TakeByOther, TypeInv, TypeOK
  <2>3. \A k \in Loops : loops[k] \in Apexes \/ loops'[k] \in Apexes => loops'[k] = loops[k]
    BY <2>1, <2>2, NoApexIsNone
  <2>4. \A a \in db : a \in Apexes
    BY DEF TypeInv, TypeOK
  <2>5. \A a \in db : \E k \in Loops : loops'[k] = a
    BY <2>3, <2>4 DEF DeviceInv
  <2>6. \A w \in Workers : pc[w] \in Locked => num[w] \in known /\ loops'[num[w]] \notin Apexes
    BY <2>3 DEF DeviceInv, TypeInv, TypeOK
  <2>7. \A w \in Workers : pc[w] = "mount" => num[w] \in Loops /\ loops'[num[w]] = apex[w]
    BY <2>3 DEF DeviceInv, TypeInv, WorkersInv, Busy
  <2>8. \A k, j \in Loops : loops'[k] = loops'[j] /\ loops'[k] \in Apexes => k = j
    BY <2>3 DEF DeviceInv
  <2>9. \A k \in Loops : loops'[k] \in Apexes =>
          loops'[k] \in db \/ \E w \in Workers : pc[w] = "mount" /\ num[w] = k
    BY <2>3 DEF DeviceInv
  <2>10. \A k \in Loops \ known : loops'[k] = Free
    BY <2>1, <2>2 DEF DeviceInv
  <2> QED
    BY <1>1, <2>1, <2>5, <2>6, <2>7, <2>8, <2>9, <2>10 DEF threads, DeviceInv
<1> QED
  BY <1>2, <1>3, <1>4 DEF External, ColdBootDone, CreateNode

(* The mutex goes with the steps between the request and the configuration. *)
LEMMA MutexWorker ==
  ASSUME TypeInv, MutexInv, NEW w \in Workers, Worker(w)
  PROVE  MutexInv'
<1> USE DEF kernel, control, bounds, Go, Locked
<1>1. CASE UNCHANGED mutex /\ \A v \in Workers : pc'[v] \in Locked <=> pc[v] \in Locked
  BY <1>1 DEF MutexInv
<1>2. CASE TakeFromQueue(w) \/ Finish(w) \/ OpenDevice(w) \/ PollDevice(w)
  BY <1>1, <1>2 DEF TakeFromQueue, Finish, OpenDevice, PollDevice, TypeInv, TypeOK
<1>3. CASE CreateLoopDevice(w)
  <2>1. mutex = {} /\ mutex' = {w} /\ pc' = [pc EXCEPT ![w] = "wait"]
    BY <1>3 DEF CreateLoopDevice
  <2>2. \A v \in Workers : pc[v] \notin Locked
    BY <2>1 DEF MutexInv
  <2> QED
    BY <2>1, <2>2 DEF MutexInv, TypeInv, TypeOK
<1>4. CASE GiveUpDevice(w) \/ ConfigureLoopDevice(w) \/ ConfigureFails(w)
  <2>1. pc[w] \in Locked /\ mutex' = {}
    BY <1>4 DEF GiveUpDevice, ConfigureLoopDevice, ConfigureFails
  <2>2. \E to \in {"next", "loop", "mount"} : pc' = [pc EXCEPT ![w] = to]
    BY <1>4 DEF GiveUpDevice, ConfigureLoopDevice, ConfigureFails, Retry, Report
  <2>3. mutex = {w} /\ \A v \in Workers \ {w} : pc[v] \notin Locked
    BY <2>1 DEF MutexInv
  <2> QED
    BY <2>1, <2>2, <2>3 DEF MutexInv, TypeInv, TypeOK
<1>5. CASE Mount(w) \/ MountFails(w) \/ BindMount(w) \/ GetFreeFails(w) \/ ReadAheadFails(w)
  <2>1. pc[w] \notin Locked /\ mutex' = mutex
    BY <1>5 DEF Mount, MountFails, BindMount, GetFreeFails, ReadAheadFails
  <2>2. \E to \in {"next", "bind", "loop"} : pc' = [pc EXCEPT ![w] = to]
    BY <1>5 DEF Mount, MountFails, BindMount, GetFreeFails, ReadAheadFails, Retry, Report
  <2> QED
    BY <1>1, <2>1, <2>2 DEF TypeInv, TypeOK
<1> QED
  BY <1>2, <1>3, <1>4, <1>5 DEF Worker

(* No worker that has configured a device is disturbed, and no new device    *)
(* is configured, by steps that leave loops and the database alone.         *)
LEMMA DeviceFrame ==
  ASSUME TypeInv, DeviceInv, NEW w \in Workers, UNCHANGED <<loops, known, db>>,
         pc[w] # "mount", pc'[w] # "mount", pc'[w] \in Locked => pc[w] \in Locked,
         \A v \in Workers \ {w} : pc'[v] = pc[v] /\ apex'[v] = apex[v],
         num' = num
  PROVE  DeviceInv'
<1>1. \A v \in Workers : pc'[v] = "mount" <=> pc[v] = "mount"
  OBVIOUS
<1>2. \A v \in Workers : pc'[v] \in Locked => num'[v] \in known' /\ loops'[num'[v]] \notin Apexes
  BY DEF DeviceInv
<1>3. \A v \in Workers : pc'[v] = "mount" => num'[v] \in Loops /\ loops'[num'[v]] = apex'[v]
  BY <1>1 DEF DeviceInv
<1>4. \A l \in Loops : loops'[l] \in Apexes =>
        loops'[l] \in db' \/ \E v \in Workers : pc'[v] = "mount" /\ num'[v] = l
  BY <1>1 DEF DeviceInv
<1> QED
  BY <1>2, <1>3, <1>4 DEF DeviceInv

LEMMA DeviceSetUp ==
  ASSUME TypeInv, QueueInv, MutexInv, DeviceInv, NEW w \in Workers,
         CreateLoopDevice(w) \/ ConfigureLoopDevice(w) \/ ConfigureFails(w)
  PROVE  DeviceInv'
<1> USE DEF kernel, control, bounds, Go
<1>1. CASE CreateLoopDevice(w)
  <2>1. PICK l \in Loops : GetFree(l) /\ known' = known \cup {l} /\ num' = [num EXCEPT ![w] = l]
    BY <1>1 DEF CreateLoopDevice
  <2>2. loops[l] = Free
    BY <2>1 DEF GetFree, IsFirst, Unused, DeviceInv
  <2>3. loops' = loops /\ db' = db /\ apex' = apex /\ pc' = [pc EXCEPT ![w] = "wait"]
    BY <1>1 DEF CreateLoopDevice
  <2>4. \A v \in Workers : IF v = w THEN pc[v] = "loop" /\ pc'[v] = "wait" /\ num'[v] = l
                            ELSE pc'[v] = pc[v] /\ num'[v] = num[v]
    BY <1>1, <2>1, <2>3 DEF CreateLoopDevice, TypeInv, TypeOK
  <2>5. \A v \in Workers : pc'[v] \in Locked => num'[v] \in known' /\ loops'[num'[v]] \notin Apexes
    BY <2>1, <2>2, <2>3, <2>4, NoApexIsNone DEF DeviceInv
  <2>6. \A v \in Workers : pc'[v] = "mount" => num'[v] \in Loops /\ loops'[num'[v]] = apex'[v]
    BY <2>3, <2>4 DEF DeviceInv
  <2>7. \A k \in Loops : loops'[k] \in Apexes =>
          loops'[k] \in db' \/ \E v \in Workers : pc'[v] = "mount" /\ num'[v] = k
    BY <2>3, <2>4 DEF DeviceInv
  <2> QED
    BY <2>1, <2>3, <2>5, <2>6, <2>7 DEF DeviceInv
<1>2. CASE ConfigureLoopDevice(w)
  <2> DEFINE n == num[w]
             a == apex[w]
  <2>1. pc[w] = "configure" /\ loops[n] = Free /\ loops' = [loops EXCEPT ![n] = a]
        /\ pc' = [pc EXCEPT ![w] = "mount"] /\ UNCHANGED <<known, apex, num, db>>
    BY <1>2 DEF ConfigureLoopDevice
  <2>2. n \in known /\ n \in Loops /\ a \in Apexes /\ a \notin db
    BY <2>1 DEF DeviceInv, Locked, TypeInv, TypeOK, WorkersInv, Busy, QueueInv
  <2>3. \A k \in Loops : IF k = n THEN loops'[k] = a ELSE loops'[k] = loops[k]
    BY <2>1 DEF TypeInv, TypeOK
  <2>4. \A v \in Workers \ {w} : pc[v] \notin Locked /\ pc'[v] = pc[v]
    BY <2>1 DEF MutexInv, Locked, TypeInv, TypeOK
  <2>5. pc'[w] = "mount"
    BY <2>1 DEF TypeInv, TypeOK
  <2>6. \A k \in Loops : loops[k] # a
    <3>1. SUFFICES ASSUME NEW k \in Loops, loops[k] = a PROVE FALSE
      OBVIOUS
    <3>2. PICK v \in Workers : pc[v] = "mount" /\ num[v] = k
      BY <2>2, <3>1 DEF DeviceInv
    <3>3. apex[v] = a
      BY <3>1, <3>2 DEF DeviceInv
    <3>4. v = w
      BY <3>3, <2>2, NoApexIsNone DEF QueueInv
    <3> QED
      BY <3>2, <3>4, <2>1
  <2> HIDE DEF n, a
  <2>7. \A v \in Workers : pc'[v] \in Locked => num'[v] \in known' /\ loops'[num'[v]] \notin Apexes
    BY <2>4, <2>5 DEF Locked
  <2>8. \A v \in Workers : pc'[v] = "mount" => num'[v] \in Loops /\ loops'[num'[v]] = apex'[v]
    <3>1. num'[w] = n /\ apex'[w] = a /\ loops'[n] = a
      BY <2>1, <2>2, <2>3 DEF n, a
    <3>2. ASSUME NEW v \in Workers \ {w}, pc'[v] = "mount"
          PROVE  num'[v] \in Loops /\ loops'[num'[v]] = apex'[v]
      <4>1. num[v] \in Loops /\ loops[num[v]] = apex[v] /\ apex[v] \in Apexes
        BY <2>4, <3>2 DEF DeviceInv, TypeInv, WorkersInv, Busy
      <4>2. num[v] # n
        BY <4>1, <2>1, NoApexIsNone
      <4> QED
        BY <4>1, <4>2, <2>1, <2>3
    <3> QED
      BY <3>1, <3>2, <2>2
  <2>9. \A b \in db' : \E k \in Loops : loops'[k] = b
    <3>1. ASSUME NEW b \in db PROVE \E k \in Loops : loops'[k] = b
      <4>1. PICK k \in Loops : loops[k] = b
        BY DEF DeviceInv
      <4>2. k # n
        BY <4>1, <2>1, NoApexIsNone DEF TypeInv, TypeOK
      <4> QED
        BY <4>1, <4>2, <2>3
    <3> QED
      BY <3>1, <2>1
  <2>10. \A k, j \in Loops : loops'[k] = loops'[j] /\ loops'[k] \in Apexes => k = j
    BY <2>3, <2>6 DEF DeviceInv
  <2>11. \A k \in Loops : loops'[k] \in Apexes =>
           loops'[k] \in db' \/ \E v \in Workers : pc'[v] = "mount" /\ num'[v] = k
    <3>1. ASSUME NEW k \in Loops, loops'[k] \in Apexes, k # n, loops[k] \notin db
          PROVE  \E v \in Workers : pc'[v] = "mount" /\ num'[v] = k
      <4>1. PICK v \in Workers : pc[v] = "mount" /\ num[v] = k
        BY <3>1, <2>3 DEF DeviceInv
      <4> QED
        BY <4>1, <2>1, <2>4
    <3>2. num'[w] = n
      BY <2>1 DEF n
    <3> QED
      BY <3>1, <3>2, <2>1, <2>3, <2>5
  <2>12. \A k \in Loops \ known' : loops'[k] = Free
    BY <2>1, <2>2, <2>3 DEF DeviceInv
  <2> QED
    BY <2>7, <2>8, <2>9, <2>10, <2>11, <2>12 DEF DeviceInv
<1>3. CASE ConfigureFails(w)
  <2>1. pc[w] = "configure" /\ UNCHANGED <<known, num, db, main>> /\ Retry(w)
        /\ (loops' = loops \/ loops' = [loops EXCEPT ![num[w]] = Free])
    BY <1>3 DEF ConfigureFails
  <2>2. loops[num[w]] \notin Apexes
    BY <2>1 DEF DeviceInv, Locked
  <2>3. \A k \in Loops : loops'[k] = loops[k] \/ (loops'[k] = Free /\ loops[k] \notin Apexes)
    BY <2>1, <2>2 DEF TypeInv, TypeOK
  <2>4. \A k \in Loops : loops[k] \in Apexes \/ loops'[k] \in Apexes => loops'[k] = loops[k]
    BY <2>3, NoApexIsNone
  <2>5. \A v \in Workers \ {w} : pc'[v] = pc[v] /\ apex'[v] = apex[v] /\ pc[v] \notin Locked
    <3>1. \/ pc' = [pc EXCEPT ![w] = "next"] /\ apex' = [apex EXCEPT ![w] = NoApex]
          \/ pc' = [pc EXCEPT ![w] = "loop"] /\ apex' = apex
      BY <2>1, RetryType DEF Busy
    <3>2. \A v \in Workers \ {w} : pc[v] \notin Locked
      BY <2>1 DEF MutexInv, Locked
    <3> QED
      BY <3>1, <3>2 DEF TypeInv, TypeOK
  <2>6. pc'[w] \in {"next", "loop"}
    BY <2>1, RetryType DEF Busy, TypeInv, TypeOK
  <2>7. \A v \in Workers : pc'[v] = "mount" <=> pc[v] = "mount"
    BY <2>1, <2>5, <2>6
  <2>8. \A v \in Workers : pc'[v] \notin Locked
    BY <2>5, <2>6 DEF Locked
  <2>9. \A v \in Workers : pc'[v] = "mount" => num'[v] \in Loops /\ loops'[num'[v]] = apex'[v]
    <3>1. ASSUME NEW v \in Workers, pc'[v] = "mount" PROVE num'[v] \in Loops /\ loops'[num'[v]] = apex'[v]
      <4>1. v # w
        BY <3>1, <2>6
      <4>2. num[v] \in Loops /\ loops[num[v]] = apex[v] /\ apex[v] \in Apexes
        BY <2>7, <3>1 DEF DeviceInv, TypeInv, WorkersInv, Busy
      <4> QED
        BY <4>1, <4>2, <2>1, <2>4, <2>5
    <3> QED
      BY <3>1
  <2>10. \A b \in db' : \E k \in Loops : loops'[k] = b
    <3>1. \A b \in db : b \in Apexes /\ \E k \in Loops : loops[k] = b
      BY DEF DeviceInv, TypeInv, TypeOK
    <3> QED
      BY <3>1, <2>1, <2>4
  <2>11. \A k, j \in Loops : loops'[k] = loops'[j] /\ loops'[k] \in Apexes => k = j
    BY <2>4 DEF DeviceInv
  <2>12. \A k \in Loops : loops'[k] \in Apexes =>
           loops'[k] \in db' \/ \E v \in Workers : pc'[v] = "mount" /\ num'[v] = k
    BY <2>1, <2>4, <2>7 DEF DeviceInv
  <2>13. \A k \in Loops \ known' : loops'[k] = Free
    BY <2>1, <2>3 DEF DeviceInv
  <2> QED
    BY <2>8, <2>9, <2>10, <2>11, <2>12, <2>13 DEF DeviceInv
<1> QED
  BY <1>1, <1>2, <1>3

LEMMA DeviceMount ==
  ASSUME TypeInv, QueueInv, DeviceInv, NEW w \in Workers,
         Mount(w) \/ MountFails(w) \/ ReadAheadFails(w) \/ BindMount(w)
  PROVE  DeviceInv'
<1> USE DEF kernel, control, bounds, Go
<1>1. CASE Mount(w)
  <2>1. pc[w] = "mount" /\ db' = db \cup {apex[w]} /\ UNCHANGED <<loops, known, num>>
    BY <1>1 DEF Mount
  <2>2. \/ pc' = [pc EXCEPT ![w] = "next"] /\ apex' = [apex EXCEPT ![w] = NoApex]
        \/ pc' = [pc EXCEPT ![w] = "bind"] /\ apex' = apex
    BY <1>1 DEF Mount, Report
  <2>3. pc'[w] \in {"next", "bind"} /\ \A v \in Workers \ {w} : pc'[v] = pc[v] /\ apex'[v] = apex[v]
    BY <2>2 DEF TypeInv, TypeOK
  <2>4. num[w] \in Loops /\ loops[num[w]] = apex[w]
    BY <2>1 DEF DeviceInv
  <2>5. \A v \in Workers : pc'[v] \in Locked => num'[v] \in known' /\ loops'[num'[v]] \notin Apexes
    BY <2>1, <2>3 DEF DeviceInv, Locked
  <2>6. \A v \in Workers : pc'[v] = "mount" => num'[v] \in Loops /\ loops'[num'[v]] = apex'[v]
    BY <2>1, <2>3 DEF DeviceInv
  <2>7. \A a \in db' : \E l \in Loops : loops'[l] = a
    BY <2>1, <2>4 DEF DeviceInv
  <2>8. \A l \in Loops : loops'[l] \in Apexes =>
          loops'[l] \in db' \/ \E v \in Workers : pc'[v] = "mount" /\ num'[v] = l
    <3>1. ASSUME NEW l \in Loops, loops[l] \in Apexes, loops[l] \notin db, l # num[w]
          PROVE  \E v \in Workers : pc'[v] = "mount" /\ num'[v] = l
      <4>1. PICK v \in Workers : pc[v] = "mount" /\ num[v] = l
        BY <3>1 DEF DeviceInv
      <4> QED
        BY <4>1, <3>1, <2>1, <2>3
    <3> QED
      BY <3>1, <2>1, <2>4
  <2> QED
    BY <2>1, <2>5, <2>6, <2>7, <2>8 DEF DeviceInv
<1>2. CASE MountFails(w) \/ ReadAheadFails(w)
  <2>1. /\ pc[w] = "mount" /\ loops' = [loops EXCEPT ![num[w]] = Free] /\ UNCHANGED <<known, num, db>>
        /\ \/ pc' = [pc EXCEPT ![w] = "next"] /\ apex' = [apex EXCEPT ![w] = NoApex]
           \/ pc' = [pc EXCEPT ![w] = "loop"] /\ apex' = apex
    BY <1>2 DEF MountFails, ReadAheadFails, Retry, Report
  <2>2. pc'[w] \in {"next", "loop"} /\ \A v \in Workers \ {w} : pc'[v] = pc[v] /\ apex'[v] = apex[v]
    BY <2>1 DEF TypeInv, TypeOK
  <2>3. num[w] \in Loops /\ loops[num[w]] = apex[w] /\ apex[w] \notin db /\ apex[w] \in Apexes
    BY <2>1 DEF DeviceInv, QueueInv, TypeInv, WorkersInv, Busy
  <2>4. \A l \in Loops : IF l = num[w] THEN loops'[l] = Free ELSE loops'[l] = loops[l]
    BY <2>1 DEF TypeInv, TypeOK
  <2>5. \A v \in Workers : pc'[v] \in Locked => num'[v] \in known' /\ loops'[num'[v]] \notin Apexes
    <3>1. ASSUME NEW v \in Workers, pc'[v] \in Locked PROVE num[v] \in known /\ loops'[num[v]] \notin Apexes
      <4>1. num[v] \in known /\ loops[num[v]] \notin Apexes /\ num[v] \in Loops
        BY <3>1, <2>2 DEF DeviceInv, Locked, TypeInv, TypeOK
      <4> QED
        BY <4>1, <2>3, <2>4
    <3> QED
      BY <3>1, <2>1
  <2>6. \A v \in Workers : pc'[v] = "mount" => num'[v] \in Loops /\ loops'[num'[v]] = apex'[v]
    <3>1. ASSUME NEW v \in Workers, pc'[v] = "mount" PROVE num[v] \in Loops /\ loops'[num[v]] = apex'[v]
      <4>1. v # w /\ num[v] \in Loops /\ loops[num[v]] = apex[v] /\ apex'[v] = apex[v]
        BY <3>1, <2>2 DEF DeviceInv
      <4>2. apex[v] # apex[w]
        BY <4>1, <2>3, NoApexIsNone DEF QueueInv
      <4>3. num[v] # num[w]
        BY <4>1, <4>2, <2>3
      <4> QED
        BY <4>1, <4>3, <2>4
    <3> QED
      BY <3>1, <2>1
  <2>7. \A a \in db' : \E l \in Loops : loops'[l] = a
    <3>1. ASSUME NEW a \in db PROVE \E l \in Loops : loops'[l] = a
      <4>1. PICK l \in Loops : loops[l] = a
        BY DEF DeviceInv
      <4> QED
        BY <4>1, <2>3, <2>4
    <3> QED
      BY <3>1, <2>1
  <2>8. \A k, l \in Loops : loops'[k] = loops'[l] /\ loops'[k] \in Apexes => k = l
    BY <2>4, NoApexIsNone DEF DeviceInv
  <2>9. \A l \in Loops : loops'[l] \in Apexes =>
          loops'[l] \in db' \/ \E v \in Workers : pc'[v] = "mount" /\ num'[v] = l
    <3>1. ASSUME NEW l \in Loops, loops'[l] \in Apexes, loops[l] \notin db
          PROVE  \E v \in Workers : pc'[v] = "mount" /\ num'[v] = l
      <4>1. l # num[w] /\ loops[l] \in Apexes
        BY <3>1, <2>4, NoApexIsNone
      <4>2. PICK v \in Workers : pc[v] = "mount" /\ num[v] = l
        BY <3>1, <4>1 DEF DeviceInv
      <4> QED
        BY <4>1, <4>2, <2>1, <2>2
    <3> QED
      BY <3>1, <2>1, <2>4, NoApexIsNone
  <2>10. \A l \in Loops \ known' : loops'[l] = Free
    BY <2>1, <2>4 DEF DeviceInv
  <2> QED
    BY <2>5, <2>6, <2>7, <2>8, <2>9, <2>10 DEF DeviceInv
<1>3. CASE BindMount(w)
  <2>1. pc[w] = "bind" /\ UNCHANGED <<loops, known, db, num>>
        /\ pc' = [pc EXCEPT ![w] = "next"] /\ apex' = [apex EXCEPT ![w] = NoApex]
    BY <1>3 DEF BindMount, Report
  <2>2. pc'[w] = "next" /\ \A v \in Workers \ {w} : pc'[v] = pc[v] /\ apex'[v] = apex[v]
    BY <2>1 DEF TypeInv, TypeOK
  <2> QED
    BY <2>1, <2>2, DeviceFrame DEF Locked
<1> QED
  BY <1>1, <1>2, <1>3

LEMMA DeviceWorker ==
  ASSUME TypeInv, QueueInv, MutexInv, DeviceInv, NEW w \in Workers, Worker(w)
  PROVE  DeviceInv'
<1> USE DEF kernel, control, bounds, Go, Locked
<1>1. CASE TakeFromQueue(w) \/ Finish(w) \/ OpenDevice(w) \/ PollDevice(w)
  <2>1. UNCHANGED <<loops, known, db, num>> /\ pc[w] \in {"next", "wait"}
    BY <1>1 DEF TakeFromQueue, Finish, OpenDevice, PollDevice
  <2>2. /\ pc'[w] # "mount" /\ (pc'[w] \in Locked => pc[w] \in Locked)
        /\ \A v \in Workers \ {w} : pc'[v] = pc[v] /\ apex'[v] = apex[v]
    BY <1>1 DEF TakeFromQueue, Finish, OpenDevice, PollDevice, TypeInv, TypeOK
  <2> QED
    BY <2>1, <2>2, DeviceFrame
<1>2. CASE GiveUpDevice(w) \/ GetFreeFails(w)
  <2>1. pc[w] \in {"wait", "loop"} /\ UNCHANGED <<loops, known, db, num, main>> /\ Retry(w)
    BY <1>2 DEF GiveUpDevice, GetFreeFails
  <2>2. \/ pc' = [pc EXCEPT ![w] = "next"] /\ apex' = [apex EXCEPT ![w] = NoApex]
        \/ pc' = [pc EXCEPT ![w] = "loop"] /\ apex' = apex
    BY <2>1, RetryType DEF Busy
  <2>3. pc'[w] \in {"next", "loop"} /\ \A v \in Workers \ {w} : pc'[v] = pc[v] /\ apex'[v] = apex[v]
    BY <2>2 DEF TypeInv, TypeOK
  <2> QED
    BY <2>1, <2>3, DeviceFrame
<1> QED
  BY <1>1, <1>2, DeviceSetUp, DeviceMount DEF Worker

---------------------------------------------------------------------------
LEMMA InitInv == Init => Inv
<1> SUFFICES ASSUME Init PROVE Inv
  OBVIOUS
<1>1. TypeInv
  BY InitType
<1>2. QueueInv
  BY NoApexIsNone, ApexesAssumption DEF Init, QueueInv
<1>3. MutexInv /\ DeviceInv
  BY NoApexIsNone DEF Init, MutexInv, DeviceInv, Locked
<1> QED
  BY <1>1, <1>2, <1>3 DEF Inv

LEMMA NextInv == Inv /\ [Next]_vars => Inv'
<1> SUFFICES ASSUME Inv, [Next]_vars PROVE Inv'
  OBVIOUS
<1> USE DEF Inv
<1>1. TypeInv'
  BY NextType
<1>2. ASSUME NEW w \in Workers, Worker(w) PROVE Inv'
  BY <1>1, <1>2, QueueWorker, MutexWorker, DeviceWorker
<1>3. CASE UNCHANGED vars
  BY <1>1, <1>3 DEF vars, kernel, threads, QueueInv, MutexInv, DeviceInv
<1> QED
  BY <1>1, <1>2, <1>3, MainDevices, ExternalDevices DEF Next

(* Whatever the workers, ueventd and other processes do, and whatever fails,*)
(* an active APEX has one loop device to itself, and none is left behind    *)
(* (CreateLoopDevice with its mutex, LoopbackDeviceUniqueFd).               *)
THEOREM DevicesOwned == Spec => []DevicesAreOwned
<1>1. Spec => []Inv
  BY InitInv, NextInv, PTL DEF Spec
<1>2. Inv => DevicesAreOwned
  <2> SUFFICES ASSUME Inv PROVE DevicesAreOwned
    OBVIOUS
  <2>1. ASSUME NEW a \in db PROVE \E l \in Loops : \A k \in Loops : loops[k] = a <=> k = l
    <3>1. PICK l \in Loops : loops[l] = a
      BY DEF Inv, DeviceInv
    <3>2. a \in Apexes
      BY DEF Inv, TypeInv, TypeOK
    <3>3. \A k \in Loops : loops[k] = a <=> k = l
      BY <3>1, <3>2 DEF Inv, DeviceInv
    <3> QED
      BY <3>3
  <2>2. ASSUME NEW l \in Loops, loops[l] \in Apexes, loops[l] \notin db
        PROVE  \E w \in Workers : apex[w] = loops[l] /\ num[w] = l /\ pc[w] = "mount"
    BY <2>2 DEF Inv, DeviceInv
  <2> QED
    BY <2>1, <2>2 DEF DevicesAreOwned
<1> QED
  BY <1>1, <1>2, PTL

---------------------------------------------------------------------------
(* What the threads do together                                             *)

Noted == Results(WorkerNum)
NotedOnce == \A a \in Apexes : ~(<<a, TRUE>> \in Noted /\ <<a, FALSE>> \in Noted)

(* Each APEX of the list is in the queue, at a worker or noted in a result,  *)
(* and noted once.  The first worker is created if there is any APEX.       *)
SettledInv ==
  /\ \A a \in list : a \in queue \/ (\E w \in Workers : apex[w] = a) \/ \E ok \in BOOLEAN : <<a, ok>> \in Noted
  /\ \A a \in Apexes : \A ok \in BOOLEAN : <<a, ok>> \in Noted =>
       a \in list \ queue /\ \A w \in Workers : apex[w] # a
  /\ NotedOnce
  /\ \A w \in Workers : apex[w] \in list \cup {NoApex}
  /\ pc[1] = "ended" => queue = {}

(* The main thread goes on once every worker has ended, and what has         *)
(* contributed is active.                                                  *)
MainInv ==
  /\ \A w \in Workers : w < main.i => pc[w] = "ended"
  /\ main.pc = "allocate" => main.i = 1
  /\ unlinked \subseteq ToSet(links)
  /\ \A a \in ToSet(links) : <<a, TRUE>> \in Noted
  /\ links # <<>> => main.i > WorkerNum
  /\ main.pc = "returned" => main.i > WorkerNum
  /\ main.pc # "returned" => result = "none"

LEMMA NotedIs == \A x : x \in Noted <=> \E w \in Workers : x \in ret[w]
BY DEF Noted, Results, Workers

LEMMA NotedType == TypeInv => Noted \subseteq Apexes \X BOOLEAN
BY NotedIs DEF TypeInv, TypeOK

(* One result more, and the others stay.                                    *)
LEMMA NotedReport ==
  ASSUME TypeInv, NEW w \in Workers, NEW ok \in BOOLEAN, Report(w, ok)
  PROVE  Noted' = Noted \cup {<<apex[w], ok>>}
<1>1. ret' = [ret EXCEPT ![w] = @ \cup {<<apex[w], ok>>}]
  BY DEF Report
<1>2. \A v \in Workers : ret'[v] = IF v = w THEN ret[v] \cup {<<apex[w], ok>>} ELSE ret[v]
  BY <1>1 DEF TypeInv, TypeOK
<1>3. \A x : x \in Noted' <=> \E v \in Workers : x \in ret'[v]
  BY DEF Noted, Results, Workers
<1> QED
  BY <1>2, <1>3, NotedIs

LEMMA NotedStays == ret' = ret => Noted' = Noted
BY DEF Noted, Results

LEMMA AppendToSet ==
  ASSUME NEW S, NEW s \in Seq(S), NEW a
  PROVE  ToSet(Append(s, a)) = ToSet(s) \cup {a}
<1>1. DOMAIN s = 1 .. Len(s) /\ DOMAIN Append(s, a) = 1 .. Len(s) + 1 /\ Len(s) \in Nat
  OBVIOUS
<1>2. \A i \in 1 .. Len(s) + 1 : Append(s, a)[i] = IF i = Len(s) + 1 THEN a ELSE s[i]
  OBVIOUS
<1>3. ToSet(Append(s, a)) \subseteq ToSet(s) \cup {a}
  BY <1>1, <1>2 DEF ToSet
<1>4. ToSet(s) \subseteq ToSet(Append(s, a))
  <2> SUFFICES ASSUME NEW i \in 1 .. Len(s) PROVE s[i] \in ToSet(Append(s, a))
    BY <1>1 DEF ToSet
  <2>1. i \in 1 .. Len(s) + 1 /\ i # Len(s) + 1
    BY <1>1
  <2> QED
    BY <1>1, <1>2, <2>1 DEF ToSet
<1>5. a \in ToSet(Append(s, a))
  <2>1. Len(s) + 1 \in 1 .. Len(s) + 1
    BY <1>1
  <2> QED
    BY <1>1, <1>2, <2>1 DEF ToSet
<1> QED
  BY <1>3, <1>4, <1>5

(* What a step of a worker is to the others.                                *)
LEMMA WorkerSteps ==
  ASSUME TypeInv, NEW w \in Workers, Worker(w)
  PROVE  /\ UNCHANGED <<list, control>>
         /\ \/ TakeFromQueue(w) \/ Finish(w)
            \/ /\ pc[w] \in Busy /\ queue' = queue
               /\ \/ \E to \in Busy : pc' = [pc EXCEPT ![w] = to] /\ UNCHANGED <<apex, ret>>
                  \/ \E ok \in BOOLEAN : Report(w, ok)
<1> USE DEF kernel, control, bounds, Go, Busy
<1>1. CASE TakeFromQueue(w) \/ Finish(w)
  BY <1>1 DEF TakeFromQueue, Finish
<1>2. CASE CreateLoopDevice(w) \/ OpenDevice(w) \/ ConfigureLoopDevice(w)
  BY <1>2 DEF CreateLoopDevice, OpenDevice, ConfigureLoopDevice
<1>3. CASE PollDevice(w)
  <2>1. pc' = [pc EXCEPT ![w] = "wait"] /\ pc[w] = "wait" /\ UNCHANGED <<apex, ret, queue>>
    BY <1>3 DEF PollDevice, TypeInv, TypeOK
  <2> QED
    BY <1>3, <2>1 DEF PollDevice
<1>4. CASE GiveUpDevice(w) \/ ConfigureFails(w) \/ GetFreeFails(w) \/ ReadAheadFails(w)
  <2>1. Retry(w) /\ pc[w] \in Busy /\ UNCHANGED <<list, control, queue>>
    BY <1>4 DEF GiveUpDevice, ConfigureFails, GetFreeFails, ReadAheadFails
  <2> QED
    BY <2>1 DEF Retry
<1>5. CASE Mount(w) \/ MountFails(w) \/ BindMount(w)
  BY <1>5 DEF Mount, MountFails, BindMount
<1> QED
  BY <1>1, <1>2, <1>3, <1>4, <1>5 DEF Worker

LEMMA SettledWorker ==
  ASSUME TypeInv, QueueInv, SettledInv, NEW w \in Workers, Worker(w)
  PROVE  SettledInv'
<1>0. list' = list /\ list \subseteq Apexes
  BY WorkerSteps, ApexesAssumption DEF TypeInv, TypeOK
<1>1. CASE TakeFromQueue(w)
  <2>1. PICK a \in queue : queue' = queue \ {a} /\ apex' = [apex EXCEPT ![w] = a]
    BY <1>1 DEF TakeFromQueue
  <2>2. ret' = ret /\ pc' = [pc EXCEPT ![w] = "loop"] /\ pc[w] = "next"
    BY <1>1 DEF TakeFromQueue, Go
  <2>3. Noted' = Noted
    BY <2>2, NotedStays
  <2>4. a \in list /\ apex[w] = NoApex
    BY <2>2 DEF TypeInv, TypeOK, WorkersInv, Busy
  <2>5. \A v \in Workers : apex'[v] = IF v = w THEN a ELSE apex[v]
    BY <2>1 DEF TypeInv, TypeOK
  <2>6. \A b \in list : b \in queue' \/ (\E v \in Workers : apex'[v] = b) \/ \E ok \in BOOLEAN : <<b, ok>> \in Noted'
    <3> SUFFICES ASSUME NEW b \in list, b \notin queue', ~\E ok \in BOOLEAN : <<b, ok>> \in Noted
                 PROVE  \E v \in Workers : apex'[v] = b
      BY <2>3
    <3>1. CASE b = a
      BY <3>1, <2>5
    <3>2. CASE b # a
      <4>1. PICK v \in Workers : apex[v] = b
        BY <3>2, <2>1 DEF SettledInv
      <4>2. v # w
        BY <4>1, <2>4, NoApexIsNone, <1>0
      <4> QED
        BY <4>1, <4>2, <2>5
    <3> QED
      BY <3>1, <3>2
  <2>7. \A b \in Apexes : \A ok \in BOOLEAN : <<b, ok>> \in Noted' =>
           b \in list \ queue' /\ \A v \in Workers : apex'[v] # b
    BY <2>1, <2>3, <2>5 DEF SettledInv
  <2>8. NotedOnce'
    BY <2>3 DEF SettledInv, NotedOnce
  <2>9. pc'[1] = "ended" => queue' = {}
    BY <2>1, <2>2, WorkerNumType DEF SettledInv, TypeInv, TypeOK, Workers
  <2>10. \A v \in Workers : apex'[v] \in list \cup {NoApex}
    BY <2>4, <2>5 DEF SettledInv
  <2> QED
    BY <1>0, <2>6, <2>7, <2>8, <2>9, <2>10 DEF SettledInv
<1>2. CASE Finish(w)
  <2>1. UNCHANGED <<queue, apex, ret>> /\ queue = {}
    BY <1>2 DEF Finish
  <2>2. Noted' = Noted
    BY <2>1, NotedStays
  <2> QED
    BY <1>0, <2>1, <2>2 DEF SettledInv, NotedOnce
<1>3. ASSUME pc[w] \in Busy, queue' = queue, NEW to \in Busy,
             pc' = [pc EXCEPT ![w] = to], UNCHANGED <<apex, ret>>
      PROVE  SettledInv'
  <2>1. Noted' = Noted
    BY <1>3, NotedStays
  <2>2. pc'[1] = "ended" => pc[1] = "ended"
    BY <1>3, WorkerNumType DEF TypeInv, TypeOK, Busy, Workers
  <2> QED
    BY <1>0, <1>3, <2>1, <2>2 DEF SettledInv, NotedOnce
<1>4. ASSUME pc[w] \in Busy, queue' = queue, NEW ok \in BOOLEAN, Report(w, ok)
      PROVE  SettledInv'
  <2>1. Noted' = Noted \cup {<<apex[w], ok>>}
    BY <1>4, NotedReport
  <2>2. pc' = [pc EXCEPT ![w] = "next"] /\ apex' = [apex EXCEPT ![w] = NoApex]
    BY <1>4 DEF Report, Go
  <2>3. apex[w] \in list \ queue /\ apex[w] \in Apexes /\ apex[w] # NoApex
    BY <1>0, <1>4, NoApexIsNone DEF SettledInv, TypeInv, WorkersInv, QueueInv
  <2>4. \A v \in Workers : apex'[v] = IF v = w THEN NoApex ELSE apex[v]
    BY <2>2 DEF TypeInv, TypeOK
  <2>5. \A v \in Workers : apex'[v] # apex[w]
    BY <2>3, <2>4 DEF QueueInv
  <2>6. \A o \in BOOLEAN : <<apex[w], o>> \notin Noted
    BY <2>3 DEF SettledInv
  <2>7. \A b \in list : b \in queue' \/ (\E v \in Workers : apex'[v] = b) \/ \E o \in BOOLEAN : <<b, o>> \in Noted'
    <3> SUFFICES ASSUME NEW b \in list, b \notin queue', ~\E o \in BOOLEAN : <<b, o>> \in Noted'
                 PROVE  \E v \in Workers : apex'[v] = b
      OBVIOUS
    <3>1. b # apex[w] /\ ~\E o \in BOOLEAN : <<b, o>> \in Noted
      BY <2>1
    <3>2. PICK v \in Workers : apex[v] = b
      BY <3>1, <1>4 DEF SettledInv
    <3> QED
      BY <3>1, <3>2, <2>4
  <2>8. \A b \in Apexes : \A o \in BOOLEAN : <<b, o>> \in Noted' =>
           b \in list \ queue' /\ \A v \in Workers : apex'[v] # b
    <3> SUFFICES ASSUME NEW b \in Apexes, NEW o \in BOOLEAN, <<b, o>> \in Noted'
                 PROVE  b \in list \ queue' /\ \A v \in Workers : apex'[v] # b
      OBVIOUS
    <3>1. CASE b = apex[w]
      BY <3>1, <2>3, <2>5, <1>4
    <3>2. CASE b # apex[w]
      <4>1. <<b, o>> \in Noted
        BY <3>2, <2>1
      <4>2. b # NoApex
        BY NoApexIsNone
      <4> QED
        BY <4>1, <4>2, <2>4, <1>4 DEF SettledInv
    <3> QED
      BY <3>1, <3>2
  <2>9. NotedOnce'
    BY <2>1, <2>6 DEF SettledInv, NotedOnce
  <2>10. pc'[1] = "ended" => queue' = {}
    BY <1>4, <2>2, WorkerNumType DEF SettledInv, TypeInv, TypeOK, Workers
  <2>11. \A v \in Workers : apex'[v] \in list \cup {NoApex}
    BY <2>4 DEF SettledInv
  <2> QED
    BY <1>0, <2>7, <2>8, <2>9, <2>10, <2>11 DEF SettledInv
<1> QED
  BY <1>1, <1>2, <1>3, <1>4, WorkerSteps

LEMMA MainWorker ==
  ASSUME TypeInv, MainInv, NEW w \in Workers, Worker(w)
  PROVE  MainInv'
<1>1. UNCHANGED <<main, links, unlinked, result>>
  BY WorkerSteps DEF control
<1>2. Noted \subseteq Noted'
  <2>1. CASE UNCHANGED ret
    BY <2>1, NotedStays
  <2>2. ASSUME NEW ok \in BOOLEAN, Report(w, ok) PROVE Noted \subseteq Noted'
    BY <2>2, NotedReport
  <2> QED
    BY <2>1, <2>2, WorkerSteps DEF TakeFromQueue, Finish
<1>3. \A v \in Workers : pc[v] = "ended" => pc'[v] = "ended"
  <2>1. pc[w] # "ended"
    BY WorkerSteps DEF TakeFromQueue, Finish, Busy
  <2>2. \E to \in Busy \cup {"next", "ended"} : pc' = [pc EXCEPT ![w] = to]
    BY WorkerSteps DEF TakeFromQueue, Finish, Report, Go, Busy
  <2> QED
    BY <2>1, <2>2 DEF TypeInv, TypeOK
<1> QED
  BY <1>1, <1>2, <1>3 DEF MainInv

LEMMA CollectedAll == TypeInv /\ main.i > WorkerNum => Collected = Noted
<1> SUFFICES ASSUME TypeInv, main.i > WorkerNum PROVE Collected = Noted
  OBVIOUS
<1>1. main.i \in 1 .. WorkerNum + 1
  BY DEF TypeInv, TypeOK
<1>2. main.i - 1 = WorkerNum
  BY <1>1, WorkerNumType
<1> QED
  BY <1>2 DEF Collected, Noted

(* The main thread settles nothing, and has the rest contribute in turn.    *)
LEMMA SettledMain ==
  ASSUME TypeInv, SettledInv, MainInv, MainThread
  PROVE  SettledInv' /\ MainInv'
<1> USE DEF kernel, threads, bounds
<1>1. UNCHANGED <<list, queue, apex, ret>>
  BY DEF MainThread, PreAllocateLoopDevices, PreAllocateFails, StartWorkers, CollectResults,
     ContributeToSharedLibs, Return
<1>2. Noted' = Noted
  BY <1>1, NotedStays
<1>3. /\ \A w \in Workers : pc[w] = "ended" => pc'[w] = "ended"
      /\ pc'[1] = "ended" => queue = {}
  <2>1. CASE StartWorkers
    <3>1. \A w \in Workers : pc[w] = "created"
      BY <2>1 DEF StartWorkers, Main, TypeInv, WorkersInv
    <3>2. 1 \in Workers
      BY WorkerNumType DEF Workers
    <3>3. pc'[1] = IF 1 <= Cardinality(list) THEN "next" ELSE "ended"
      BY <2>1, <3>2 DEF StartWorkers
    <3>4. ASSUME queue # {} PROVE 1 <= Cardinality(list)
      <4>1. IsFiniteSet(list) /\ list # {}
        BY <3>4, ThreadsAssumption, ApexesAssumption, FS_Subset DEF TypeInv, TypeOK
      <4> QED
        BY <4>1, FS_CardinalityType, FS_EmptySet
    <3> QED
      BY <3>1, <3>3, <3>4
  <2>2. CASE ~StartWorkers
    BY <2>2 DEF MainThread, PreAllocateLoopDevices, PreAllocateFails, CollectResults,
       ContributeToSharedLibs, Return, SettledInv
  <2> QED
    BY <2>1, <2>2
<1>4. SettledInv'
  BY <1>1, <1>2, <1>3 DEF SettledInv, NotedOnce
<1>5. CASE PreAllocateLoopDevices \/ PreAllocateFails
  <2>1. main'.pc = main.pc /\ main'.i = main.i /\ UNCHANGED <<links, unlinked, result>>
    BY <1>5 DEF PreAllocateLoopDevices, PreAllocateFails, TypeInv, TypeOK
  <2> QED
    BY <2>1, <1>2, <1>3, <1>4 DEF MainInv
<1>6. CASE StartWorkers
  <2>1. main.pc = "allocate" /\ main'.pc = "collect" /\ main'.i = main.i /\ UNCHANGED <<links, unlinked, result>>
    BY <1>6 DEF StartWorkers, Main, TypeInv, TypeOK
  <2> QED
    BY <2>1, <1>2, <1>3, <1>4 DEF MainInv
<1>7. CASE CollectResults
  <2>1. /\ main.pc = "collect" /\ main'.pc = "collect" /\ main'.i = main.i + 1
        /\ UNCHANGED <<links, unlinked, result>> /\ pc[main.i] = "ended"
    BY <1>7 DEF CollectResults, TypeInv, TypeOK
  <2>2. main.i \in Nat /\ WorkerNum \in Nat
    BY WorkerNumType DEF TypeInv, TypeOK
  <2>3. \A w \in Workers : w < main.i + 1 => w < main.i \/ w = main.i
    BY <2>2, WorkerNumType DEF Workers
  <2>4. main.i > WorkerNum => main.i + 1 > WorkerNum
    BY <2>2
  <2> QED
    BY <2>1, <2>3, <2>4, <1>2, <1>3, <1>4 DEF MainInv
<1>8. ASSUME NEW a \in Apexes, ContributeToSharedLibs(a) PROVE MainInv'
  <2>1. links' = Append(links, a) /\ main' = main /\ result' = result /\ main.i > WorkerNum
    BY <1>8 DEF ContributeToSharedLibs
  <2>2. ToSet(links') = ToSet(links) \cup {a}
    BY <2>1, AppendToSet DEF TypeInv, TypeOK
  <2>3. a \in ActivatedSharedLibs
    BY <1>8 DEF ContributeToSharedLibs
  <2>4. <<a, TRUE>> \in Noted
    BY <2>1, <2>3, CollectedAll DEF ActivatedSharedLibs
  <2>5. unlinked' \subseteq unlinked \cup {a}
    BY <1>8 DEF ContributeToSharedLibs
  <2> QED
    BY <2>1, <2>2, <2>4, <2>5, <1>2, <1>3, <1>4 DEF MainInv
<1>9. CASE Return
  <2>1. main.i > WorkerNum /\ main'.i = main.i /\ main'.pc = "returned" /\ UNCHANGED <<links, unlinked>>
    BY <1>9 DEF Return, Main, TypeInv, TypeOK
  <2> QED
    BY <2>1, <1>2, <1>3, <1>4 DEF MainInv
<1> QED
  BY <1>4, <1>5, <1>6, <1>7, <1>8, <1>9 DEF MainThread

LEMMA SettledFrame ==
  SettledInv /\ MainInv /\ UNCHANGED <<threads, control>> => SettledInv' /\ MainInv'
<1> SUFFICES ASSUME SettledInv, MainInv, UNCHANGED <<threads, control>> PROVE SettledInv' /\ MainInv'
  OBVIOUS
<1>1. UNCHANGED <<list, queue, apex, pc, ret, main, links, unlinked, result>>
  BY DEF threads, control
<1>2. Noted' = Noted
  BY <1>1, NotedStays
<1> QED
  BY <1>1, <1>2 DEF SettledInv, NotedOnce, MainInv

LEMMA SettledInit == Init => SettledInv /\ MainInv
<1> SUFFICES ASSUME Init PROVE SettledInv /\ MainInv
  OBVIOUS
<1>1. \A x : x \notin Noted
  BY NotedIs DEF Init
<1>2. SettledInv
  <2>1. pc[1] # "ended"
    BY WorkerNumType DEF Init, Workers
  <2> QED
    BY <1>1, <2>1, NoApexIsNone, ApexesAssumption DEF Init, SettledInv, NotedOnce
<1>3. main.pc = "allocate" /\ main.i = 1 /\ links = <<>> /\ unlinked = {} /\ result = "none"
  BY DEF Init
<1>4. \A w \in Workers : ~(w < main.i)
  BY <1>3, WorkerNumType DEF Workers
<1>5. MainInv
  BY <1>3, <1>4 DEF MainInv, ToSet
<1> QED
  BY <1>2, <1>5

---------------------------------------------------------------------------
(* What a failure costs                                                     *)

Failed == {a \in Apexes : a \in unlinked \/ <<a, FALSE>> \in Noted}
Troubles == takes + late + SetupAttempts * faults

(* The attempts made in vain by the workers for the APEXes they are at, and  *)
(* whether the device that the one with the mutex waits for is taken.       *)
InVain == {x \in Workers \X (1 .. SetupAttempts) : pc[x[1]] \in Busy /\ x[2] < attempts[x[1]]}
IsTaken == \E w \in Workers : pc[w] \in Locked /\ loops[num[w]] = Other
Taken == IF IsTaken THEN 1 ELSE 0

(* Each attempt made in vain has had a cause of its own, and each APEX that  *)
(* failed as many as there are attempts, or a failure.                      *)
TroubleInv ==
  /\ {takes, late, faults} \subseteq Nat
  /\ \A w \in Workers : pc[w] \in Busy => attempts[w] >= 1
  /\ Cardinality(InVain) + SetupAttempts * Cardinality(Failed) + Taken <= Troubles

LEMMA Sizes ==
  /\ IsFiniteSet(InVain) /\ Cardinality(InVain) \in Nat
  /\ IsFiniteSet(Failed) /\ Cardinality(Failed) \in Nat
  /\ Taken \in {0, 1} /\ SetupAttempts \in Nat \ {0}
<1>1. IsFiniteSet(Workers) /\ IsFiniteSet(1 .. SetupAttempts)
  BY WorkerNumType, ThreadsAssumption, FS_Interval DEF Workers
<1>2. IsFiniteSet(Workers \X (1 .. SetupAttempts))
  BY <1>1, FS_Product
<1>3. IsFiniteSet(InVain)
  BY <1>2, FS_Subset DEF InVain
<1>4. IsFiniteSet(Failed)
  BY ThreadsAssumption, FS_Subset DEF Failed
<1> QED
  BY <1>3, <1>4, FS_CardinalityType, ThreadsAssumption DEF Taken

LEMMA SizesNext ==
  /\ Cardinality(InVain') \in Nat /\ Cardinality(Failed') \in Nat /\ IsFiniteSet(InVain')
  /\ Taken' \in {0, 1}
<1>1. IsFiniteSet(Workers) /\ IsFiniteSet(1 .. SetupAttempts)
  BY WorkerNumType, ThreadsAssumption, FS_Interval DEF Workers
<1>2. IsFiniteSet(Workers \X (1 .. SetupAttempts))
  BY <1>1, FS_Product
<1>3. InVain' \in SUBSET (Workers \X (1 .. SetupAttempts))
  BY DEF InVain
<1>4. IsFiniteSet(InVain')
  BY <1>2, <1>3, FS_Subset
<1>5. Failed' \in SUBSET Apexes
  BY DEF Failed
<1>6. IsFiniteSet(Failed')
  BY <1>5, ThreadsAssumption, FS_Subset
<1> QED
  BY <1>4, <1>6, FS_CardinalityType DEF Taken

(* A worker that makes another attempt.                                     *)
LEMMA InVainRetry ==
  ASSUME TypeInv, NEW w \in Workers, pc[w] \in Busy, attempts[w] < SetupAttempts, attempts[w] >= 1,
         attempts' = [attempts EXCEPT ![w] = @ + 1], pc' = [pc EXCEPT ![w] = "loop"]
  PROVE  Cardinality(InVain') = Cardinality(InVain) + 1
<1>1. attempts[w] \in 1 .. SetupAttempts /\ \A v \in Workers : attempts[v] \in Nat
  BY ThreadsAssumption DEF TypeInv, TypeOK
<1>2. \A v \in Workers : attempts'[v] = IF v = w THEN attempts[w] + 1 ELSE attempts[v]
  BY DEF TypeInv, TypeOK
<1>3. \A v \in Workers : pc'[v] = IF v = w THEN "loop" ELSE pc[v]
  BY DEF TypeInv, TypeOK
<1>4. \A v \in Workers, k \in 1 .. SetupAttempts :
        <<v, k>> \in InVain' <=> <<v, k>> \in InVain \/ (v = w /\ k = attempts[w])
  <2> SUFFICES ASSUME NEW v \in Workers, NEW k \in 1 .. SetupAttempts
               PROVE  <<v, k>> \in InVain' <=> <<v, k>> \in InVain \/ (v = w /\ k = attempts[w])
    OBVIOUS
  <2>1. <<v, k>> \in InVain <=> pc[v] \in Busy /\ k < attempts[v]
    BY DEF InVain
  <2>2. <<v, k>> \in InVain' <=> pc'[v] \in Busy /\ k < attempts'[v]
    BY DEF InVain
  <2>3. CASE v = w
    <3>1. k < attempts[w] + 1 <=> k < attempts[w] \/ k = attempts[w]
      BY <1>1
    <3> QED
      BY <2>1, <2>2, <2>3, <3>1, <1>2, <1>3 DEF Busy
  <2>4. CASE v # w
    BY <2>1, <2>2, <2>4, <1>2, <1>3
  <2> QED
    BY <2>3, <2>4
<1>5. InVain' = InVain \cup {<<w, attempts[w]>>}
  <2>1. InVain \subseteq Workers \X (1 .. SetupAttempts) /\ InVain' \subseteq Workers \X (1 .. SetupAttempts)
    BY DEF InVain
  <2>2. <<w, attempts[w]>> \in Workers \X (1 .. SetupAttempts)
    BY <1>1
  <2> QED
    BY <2>1, <2>2, <1>4
<1>6. <<w, attempts[w]>> \notin InVain
  BY <1>1 DEF InVain
<1> QED
  BY <1>5, <1>6, Sizes, FS_AddElement

(* A worker that is done with its APEX.                                     *)
LEMMA InVainReport ==
  ASSUME TypeInv, NEW w \in Workers, pc[w] \in Busy, attempts[w] >= 1,
         attempts' = attempts, pc' = [pc EXCEPT ![w] = "next"]
  PROVE  Cardinality(InVain) = Cardinality(InVain') + (attempts[w] - 1)
<1> DEFINE Its == {w} \X (1 .. attempts[w] - 1)
<1>1. attempts[w] \in Nat /\ attempts[w] - 1 \in Nat /\ attempts[w] <= SetupAttempts /\ SetupAttempts \in Nat
  BY ThreadsAssumption DEF TypeInv, TypeOK
<1>2. \A v \in Workers : pc'[v] = IF v = w THEN "next" ELSE pc[v]
  BY DEF TypeInv, TypeOK
<1>3. \A v \in Workers, k \in 1 .. SetupAttempts :
        /\ <<v, k>> \in InVain <=> pc[v] \in Busy /\ k < attempts[v]
        /\ <<v, k>> \in InVain' <=> pc'[v] \in Busy /\ k < attempts[v]
  BY DEF InVain
<1>4. InVain \subseteq Workers \X (1 .. SetupAttempts) /\ InVain' \subseteq Workers \X (1 .. SetupAttempts)
  BY DEF InVain
<1>5. \A v \in Workers, k \in 1 .. SetupAttempts : <<v, k>> \in Its <=> v = w /\ k < attempts[w]
  BY <1>1
<1>6. Its \subseteq Workers \X (1 .. SetupAttempts)
  BY <1>1
<1>7. InVain = InVain' \cup Its /\ InVain' \cap Its = {}
  <2> HIDE DEF Its
  <2>1. \A v \in Workers, k \in 1 .. SetupAttempts :
          /\ <<v, k>> \in InVain <=> <<v, k>> \in InVain' \/ <<v, k>> \in Its
          /\ ~(<<v, k>> \in InVain' /\ <<v, k>> \in Its)
    <3> SUFFICES ASSUME NEW v \in Workers, NEW k \in 1 .. SetupAttempts
                 PROVE  /\ <<v, k>> \in InVain <=> <<v, k>> \in InVain' \/ <<v, k>> \in Its
                        /\ ~(<<v, k>> \in InVain' /\ <<v, k>> \in Its)
      OBVIOUS
    <3>1. CASE v = w
      <4>1. pc'[v] \notin Busy /\ pc[v] \in Busy
        BY <3>1, <1>2 DEF Busy
      <4> QED
        BY <3>1, <4>1, <1>3, <1>5
    <3>2. CASE v # w
      BY <3>2, <1>2, <1>3, <1>5
    <3> QED
      BY <3>1, <3>2
  <2> QED
    BY <2>1, <1>4, <1>6
<1>8. IsFiniteSet(Its) /\ Cardinality(Its) = attempts[w] - 1
  <2>1. IsFiniteSet({w}) /\ Cardinality({w}) = 1
    BY FS_Singleton
  <2>2. IsFiniteSet(1 .. attempts[w] - 1) /\ Cardinality(1 .. attempts[w] - 1) = attempts[w] - 1
    <3>1. PICK n \in Nat : n = attempts[w] - 1
      BY <1>1
    <3>2. IsFiniteSet(1 .. n) /\ Cardinality(1 .. n) = IF 1 > n THEN 0 ELSE n - 1 + 1
      BY FS_Interval
    <3> QED
      BY <3>1, <3>2
  <2>3. IsFiniteSet(Its) /\ Cardinality(Its) = Cardinality({w}) * Cardinality(1 .. attempts[w] - 1)
    BY <2>1, <2>2, FS_Product
  <2> QED
    BY <2>1, <2>2, <2>3, <1>1
<1> HIDE DEF Its
<1>9. IsFiniteSet(InVain') /\ Cardinality(InVain') \in Nat
  BY SizesNext
<1>10. Cardinality(InVain) = Cardinality(InVain') + Cardinality(Its) - Cardinality(InVain' \cap Its)
  BY <1>7, <1>8, <1>9, FS_Union
<1>11. Cardinality(InVain' \cap Its) = 0
  BY <1>7, FS_EmptySet
<1> QED
  BY <1>1, <1>8, <1>9, <1>10, <1>11

LEMMA InVainStays ==
  ASSUME TypeInv, attempts' = attempts, \A v \in Workers : pc'[v] \in Busy <=> pc[v] \in Busy
  PROVE  InVain' = InVain
BY DEF InVain

LEMMA FailedReport ==
  ASSUME TypeInv, SettledInv, MainInv, NEW w \in Workers, pc[w] \in Busy, NEW ok \in BOOLEAN,
         Report(w, ok), unlinked' = unlinked
  PROVE  Cardinality(Failed') = IF ok THEN Cardinality(Failed) ELSE Cardinality(Failed) + 1
<1>1. Noted' = Noted \cup {<<apex[w], ok>>}
  BY NotedReport
<1>2. apex[w] \in Apexes
  BY DEF TypeInv, WorkersInv
<1>3. \A o \in BOOLEAN : <<apex[w], o>> \notin Noted
  BY <1>2 DEF SettledInv
<1>4. apex[w] \notin unlinked
  BY <1>3 DEF MainInv
<1>5. CASE ok
  <2>1. \A a : <<a, FALSE>> \in Noted' <=> <<a, FALSE>> \in Noted
    BY <1>1, <1>5
  <2>2. Failed' = Failed
    BY <2>1 DEF Failed
  <2> QED
    BY <2>2, <1>5
<1>6. CASE ~ok
  <2>1. \A a : <<a, FALSE>> \in Noted' <=> <<a, FALSE>> \in Noted \/ a = apex[w]
    BY <1>1, <1>6
  <2>2. Failed' = Failed \cup {apex[w]} /\ apex[w] \notin Failed
    BY <2>1, <1>2, <1>3, <1>4 DEF Failed
  <2> QED
    BY <2>2, <1>6, Sizes, FS_AddElement
<1> QED
  BY <1>5, <1>6

LEMMA FailedStays == Noted' = Noted /\ unlinked' = unlinked => Failed' = Failed
BY DEF Failed

LEMMA TroublesType == TroubleInv => Troubles \in Nat
<1> SUFFICES ASSUME TroubleInv PROVE Troubles \in Nat
  OBVIOUS
<1>1. takes \in Nat /\ late \in Nat /\ faults \in Nat /\ SetupAttempts \in Nat
  BY ThreadsAssumption DEF TroubleInv
<1> QED
  BY <1>1 DEF Troubles

LEMMA RetryArithmetic ==
  ASSUME NEW v \in Nat, NEW p \in Nat, NEW t \in Nat, NEW t2 \in Nat, NEW tr \in Nat, NEW tr2 \in Nat,
         v + p + t <= tr, tr2 + t >= tr + 1 + t2
  PROVE  /\ v + 1 + p + t2 <= tr2
         /\ \A u \in Nat, s \in Nat : v = u + (s - 1) => u + (p + s) + t2 <= tr2
OBVIOUS

(* Nobody is at fault for an attempt in vain but what took the device, was   *)
(* late, or failed.                                                        *)
LEMMA TroubleRetry ==
  ASSUME TypeInv, SettledInv, MainInv, TroubleInv, NEW w \in Workers, pc[w] \in Busy, Retry(w),
         unlinked' = unlinked, Troubles' \in Nat, Troubles' + Taken >= Troubles + 1 + Taken'
  PROVE  /\ Cardinality(InVain') + SetupAttempts * Cardinality(Failed') + Taken' <= Troubles'
         /\ \A v \in Workers : pc'[v] \in Busy => attempts'[v] >= 1
<1> DEFINE S == SetupAttempts
           V == Cardinality(InVain)
           F == Cardinality(Failed)
<1>0. V \in Nat /\ F \in Nat /\ S \in Nat \ {0} /\ Taken \in {0, 1} /\ Taken' \in {0, 1} /\ Troubles \in Nat
  BY Sizes, SizesNext, TroublesType
<1>1. Cardinality(InVain') \in Nat /\ Cardinality(Failed') \in Nat
  BY SizesNext
<1>2. V + S * F + Taken <= Troubles
  BY DEF TroubleInv
<1>3. attempts[w] >= 1 /\ attempts[w] <= S /\ attempts[w] \in Nat
  BY ThreadsAssumption DEF TroubleInv, TypeInv, TypeOK
<1>4. S * F \in Nat /\ S * (F + 1) = S * F + S
  BY <1>0
<1> HIDE DEF S, V, F
<1>5. CASE attempts[w] >= SetupAttempts
  <2>1. Report(w, FALSE) /\ attempts' = attempts
    BY <1>5 DEF Retry
  <2>2. pc' = [pc EXCEPT ![w] = "next"]
    BY <2>1 DEF Report, Go
  <2>3. V = Cardinality(InVain') + (attempts[w] - 1)
    BY <1>3, <2>1, <2>2, InVainReport DEF V
  <2>4. Cardinality(Failed') = F + 1
    BY <2>1, FailedReport DEF F
  <2>5. attempts[w] = S
    BY <1>0, <1>3, <1>5 DEF S
  <2>6. Cardinality(InVain') + S * (F + 1) + Taken' <= Troubles'
    <3>1. V = Cardinality(InVain') + (S - 1)
      BY <2>3, <2>5
    <3>2. V \in Nat /\ S * F \in Nat /\ Taken \in Nat /\ Taken' \in Nat /\ Troubles \in Nat
      BY <1>0, <1>4
    <3>3. Cardinality(InVain') + (S * F + S) + Taken' <= Troubles'
      BY <1>0, <1>1, <1>2, <3>1, <3>2, RetryArithmetic
    <3> QED
      BY <3>3, <1>0, <1>1, <1>4
  <2>7. Cardinality(InVain') + SetupAttempts * Cardinality(Failed') + Taken' <= Troubles'
    BY <2>4, <2>6 DEF S
  <2>8. \A v \in Workers : pc'[v] \in Busy => attempts'[v] >= 1
    BY <2>1, <2>2 DEF TroubleInv, TypeInv, TypeOK, Busy
  <2> QED
    BY <2>7, <2>8
<1>6. CASE ~(attempts[w] >= SetupAttempts)
  <2>1. attempts' = [attempts EXCEPT ![w] = @ + 1] /\ pc' = [pc EXCEPT ![w] = "loop"] /\ ret' = ret
    BY <1>6 DEF Retry, Go
  <2>2. attempts[w] < SetupAttempts
    BY <1>0, <1>3, <1>6 DEF S
  <2>3. Cardinality(InVain') = V + 1
    BY <1>3, <2>1, <2>2, InVainRetry DEF V
  <2>4. Failed' = Failed
    BY <2>1, NotedStays, FailedStays
  <2>5. Cardinality(InVain') + S * F + Taken' <= Troubles'
    <3>1. V \in Nat /\ S * F \in Nat /\ Taken \in Nat /\ Taken' \in Nat /\ Troubles \in Nat
      BY <1>0, <1>4
    <3>2. V + 1 + S * F + Taken' <= Troubles'
      BY <1>0, <1>1, <1>2, <3>1, RetryArithmetic
    <3> QED
      BY <3>1, <3>2, <1>0, <2>3
  <2>6. \A v \in Workers : attempts'[v] = IF v = w THEN attempts[w] + 1 ELSE attempts[v]
    BY <2>1 DEF TypeInv, TypeOK
  <2>7. \A v \in Workers : pc'[v] \in Busy => attempts'[v] >= 1
    <3> SUFFICES ASSUME NEW v \in Workers, pc'[v] \in Busy PROVE attempts'[v] >= 1
      OBVIOUS
    <3>1. CASE v = w
      BY <3>1, <2>6, <1>3
    <3>2. CASE v # w
      BY <3>2, <2>1, <2>6 DEF TroubleInv, TypeInv, TypeOK
    <3> QED
      BY <3>1, <3>2
  <2> QED
    BY <2>4, <2>5, <2>7 DEF S, F
<1> QED
  BY <1>5, <1>6

LEMMA TroubleReport ==
  ASSUME TypeInv, SettledInv, MainInv, TroubleInv, NEW w \in Workers, pc[w] \in Busy, NEW ok \in BOOLEAN,
         Report(w, ok), attempts' = attempts, unlinked' = unlinked, IsTaken' => IsTaken,
         Troubles' = IF ok THEN Troubles ELSE Troubles + SetupAttempts
  PROVE  /\ Cardinality(InVain') + SetupAttempts * Cardinality(Failed') + Taken' <= Troubles'
         /\ \A v \in Workers : pc'[v] \in Busy => attempts'[v] >= 1
<1> DEFINE S == SetupAttempts
           V == Cardinality(InVain)
           F == Cardinality(Failed)
<1>0. /\ V \in Nat /\ F \in Nat /\ S \in Nat \ {0} /\ Taken \in {0, 1} /\ Taken' \in {0, 1}
      /\ Taken' <= Taken /\ Troubles \in Nat
  BY Sizes, TroublesType DEF Taken
<1>1. Cardinality(InVain') \in Nat /\ Cardinality(Failed') \in Nat
  BY SizesNext
<1>2. V + S * F + Taken <= Troubles
  BY DEF TroubleInv
<1>3. attempts[w] >= 1 /\ attempts[w] \in Nat
  BY ThreadsAssumption DEF TroubleInv, TypeInv, TypeOK
<1>4. S * F \in Nat /\ S * (F + 1) = S * F + S
  BY <1>0
<1>5. pc' = [pc EXCEPT ![w] = "next"]
  BY DEF Report, Go
<1>6. V = Cardinality(InVain') + (attempts[w] - 1)
  BY <1>3, <1>5, InVainReport
<1>7. Cardinality(Failed') = IF ok THEN F ELSE F + 1
  BY FailedReport
<1> HIDE DEF S, V, F
<1>8. Cardinality(InVain') <= V
  BY <1>0, <1>1, <1>3, <1>6
<1>9. CASE ok
  <2>1. Cardinality(InVain') + S * F + Taken' <= Troubles
    BY <1>0, <1>1, <1>2, <1>4, <1>8
  <2> QED
    BY <2>1, <1>5, <1>7, <1>9 DEF S, TroubleInv, TypeInv, TypeOK, Busy
<1>10. CASE ~ok
  <2>1. Cardinality(InVain') + S * (F + 1) + Taken' <= Troubles + S
    BY <1>0, <1>1, <1>2, <1>4, <1>8
  <2> QED
    BY <2>1, <1>5, <1>7, <1>10 DEF S, TroubleInv, TypeInv, TypeOK, Busy
<1> QED
  BY <1>9, <1>10

LEMMA TroubleArithmetic ==
  ASSUME NEW tr \in Nat, NEW tr2 \in Nat, NEW t \in Nat, NEW t2 \in Nat, tr2 >= tr + 1, t2 <= t
  PROVE  tr2 + t >= tr + 1 + t2 /\ tr2 + t >= tr + 1
OBVIOUS

(* A failure counts for all the attempts.                                   *)
LEMMA TroublesFault ==
  ASSUME takes \in Nat, late \in Nat, faults \in Nat, SetupAttempts \in Nat \ {0},
         UNCHANGED <<takes, late>>, faults' = faults + 1
  PROVE  Troubles' \in Nat /\ Troubles' >= Troubles + 1
<1>1. SetupAttempts * faults \in Nat /\ SetupAttempts * (faults + 1) = SetupAttempts * faults + SetupAttempts
  OBVIOUS
<1>2. Troubles' = takes + late + (SetupAttempts * faults + SetupAttempts)
  BY <1>1 DEF Troubles
<1>3. SetupAttempts >= 1
  OBVIOUS
<1> QED
  BY <1>1, <1>2, <1>3 DEF Troubles

(* A step that neither fails nor ends an attempt.                           *)
LEMMA TroubleStays ==
  ASSUME TroubleInv, InVain' = InVain, Failed' = Failed, IsTaken' => IsTaken, Troubles' = Troubles
  PROVE  Cardinality(InVain') + SetupAttempts * Cardinality(Failed') + Taken' <= Troubles'
<1>1. Taken' <= Taken /\ Taken' \in Nat /\ Taken \in Nat
  BY DEF Taken
<1>2. Cardinality(InVain) \in Nat /\ SetupAttempts * Cardinality(Failed) \in Nat /\ Troubles \in Nat
  BY Sizes, TroublesType
<1> QED
  BY <1>1, <1>2 DEF TroubleInv

LEMMA TroubleWorker ==
  ASSUME Inv, SettledInv, MainInv, TroubleInv, NEW w \in Workers, Worker(w)
  PROVE  TroubleInv'
<1> USE DEF kernel, control, bounds, Go
<1>0. /\ TypeInv /\ MutexInv /\ DeviceInv
      /\ takes \in Nat /\ late \in Nat /\ faults \in Nat /\ SetupAttempts \in Nat \ {0} /\ Troubles \in Nat
      /\ unlinked' = unlinked
  BY WorkerSteps, TroublesType, ThreadsAssumption DEF Inv, TroubleInv
<1>1. CASE TakeFromQueue(w)
  <2>1. UNCHANGED <<takes, late, faults, ret, unlinked, loops, num>>
    BY <1>1 DEF TakeFromQueue
  <2>2. pc[w] = "next" /\ pc' = [pc EXCEPT ![w] = "loop"] /\ attempts' = [attempts EXCEPT ![w] = 1]
    BY <1>1 DEF TakeFromQueue
  <2>3. \A v \in Workers : IF v = w THEN pc'[v] = "loop" /\ attempts'[v] = 1
                                    ELSE pc'[v] = pc[v] /\ attempts'[v] = attempts[v]
    BY <1>0, <2>2 DEF TypeInv, TypeOK
  <2>4. InVain' = InVain
    <3>1. \A v \in Workers, k \in 1 .. SetupAttempts : <<v, k>> \in InVain' <=> <<v, k>> \in InVain
      <4> SUFFICES ASSUME NEW v \in Workers, NEW k \in 1 .. SetupAttempts
                   PROVE  <<v, k>> \in InVain' <=> <<v, k>> \in InVain
        OBVIOUS
      <4>1. CASE v = w
        <5>1. ~(k < 1) /\ pc[v] \notin Busy /\ attempts'[v] = 1
          BY <4>1, <2>2, <2>3 DEF Busy
        <5> QED
          BY <5>1 DEF InVain
      <4>2. CASE v # w
        BY <4>2, <2>3 DEF InVain
      <4> QED
        BY <4>1, <4>2
    <3>2. InVain \subseteq Workers \X (1 .. SetupAttempts) /\ InVain' \subseteq Workers \X (1 .. SetupAttempts)
      BY DEF InVain
    <3> QED
      BY <3>1, <3>2
  <2>5. Failed' = Failed
    BY <2>1, NotedStays, FailedStays
  <2>6. IsTaken' => IsTaken
    BY <2>1, <2>3 DEF IsTaken, Locked
  <2>7. Troubles' = Troubles
    BY <2>1 DEF Troubles
  <2>8. \A v \in Workers : pc'[v] \in Busy => attempts'[v] >= 1
    BY <2>3 DEF TroubleInv
  <2> QED
    BY <1>0, <2>1, <2>4, <2>5, <2>6, <2>7, <2>8, TroubleStays DEF TroubleInv
<1>2. CASE Finish(w) \/ OpenDevice(w) \/ PollDevice(w)
  <2>1. UNCHANGED <<takes, late, faults, ret, unlinked, loops, num, attempts>>
    BY <1>2 DEF Finish, OpenDevice, PollDevice
  <2>2. \A v \in Workers : (pc'[v] \in Busy <=> pc[v] \in Busy) /\ (pc'[v] \in Locked <=> pc[v] \in Locked)
    BY <1>0, <1>2 DEF Finish, OpenDevice, PollDevice, TypeInv, TypeOK, Busy, Locked
  <2>3. InVain' = InVain
    BY <1>0, <2>1, <2>2, InVainStays
  <2>4. Failed' = Failed
    BY <2>1, NotedStays, FailedStays
  <2>5. IsTaken' => IsTaken
    BY <2>1, <2>2 DEF IsTaken
  <2>6. Troubles' = Troubles
    BY <2>1 DEF Troubles
  <2>7. \A v \in Workers : pc'[v] \in Busy => attempts'[v] >= 1
    BY <2>1, <2>2 DEF TroubleInv
  <2> QED
    BY <1>0, <2>1, <2>3, <2>4, <2>5, <2>6, <2>7, TroubleStays DEF TroubleInv
<1>3. CASE CreateLoopDevice(w) \/ ConfigureLoopDevice(w)
  <2>1. UNCHANGED <<takes, late, faults, ret, unlinked, attempts>>
    BY <1>3 DEF CreateLoopDevice, ConfigureLoopDevice
  <2>2. \A v \in Workers : pc'[v] \in Busy <=> pc[v] \in Busy
    BY <1>0, <1>3 DEF CreateLoopDevice, ConfigureLoopDevice, TypeInv, TypeOK, Busy
  <2>3. InVain' = InVain
    BY <1>0, <2>1, <2>2, InVainStays
  <2>4. Failed' = Failed
    BY <2>1, NotedStays, FailedStays
  <2>5. ~IsTaken'
    <3>1. CASE CreateLoopDevice(w)
      <4>1. PICK l \in Loops : GetFree(l) /\ known' = known \cup {l} /\ num' = [num EXCEPT ![w] = l]
        BY <3>1 DEF CreateLoopDevice
      <4>2. loops[l] = Free
        BY <1>0, <4>1 DEF GetFree, IsFirst, Unused, DeviceInv
      <4>3. mutex = {} /\ loops' = loops /\ num'[w] = l
        BY <1>0, <3>1, <4>1 DEF CreateLoopDevice, TypeInv, TypeOK
      <4>4. \A v \in Workers : pc[v] \notin Locked
        BY <1>0, <4>3 DEF MutexInv
      <4>5. \A v \in Workers : pc'[v] \in Locked => v = w
        BY <1>0, <3>1, <4>4 DEF CreateLoopDevice, TypeInv, TypeOK
      <4> QED
        BY <4>2, <4>3, <4>5, NamesAssumption DEF IsTaken, Free, Other
    <3>2. CASE ConfigureLoopDevice(w)
      <4>1. pc[w] = "configure" /\ pc' = [pc EXCEPT ![w] = "mount"]
        BY <3>2 DEF ConfigureLoopDevice
      <4>2. \A v \in Workers \ {w} : pc[v] \notin Locked
        BY <1>0, <4>1 DEF MutexInv, Locked
      <4>3. \A v \in Workers : pc'[v] \notin Locked
        BY <1>0, <4>1, <4>2 DEF TypeInv, TypeOK, Locked
      <4> QED
        BY <4>3 DEF IsTaken
    <3> QED
      BY <1>3, <3>1, <3>2
  <2>6. Troubles' = Troubles
    BY <2>1 DEF Troubles
  <2>7. \A v \in Workers : pc'[v] \in Busy => attempts'[v] >= 1
    BY <2>1, <2>2 DEF TroubleInv
  <2> QED
    BY <1>0, <2>1, <2>3, <2>4, <2>5, <2>6, <2>7, TroubleStays DEF TroubleInv
<1>4. CASE GiveUpDevice(w) \/ ConfigureFails(w)
  <2>1. pc[w] \in Locked /\ pc[w] \in Busy /\ Retry(w) /\ UNCHANGED <<takes, num>>
    BY <1>4 DEF GiveUpDevice, ConfigureFails, Locked, Busy
  <2>2. \A v \in Workers \ {w} : pc[v] \notin Locked
    BY <1>0, <2>1 DEF MutexInv
  <2>3. \E to \in {"next", "loop"} : pc' = [pc EXCEPT ![w] = to]
    BY <2>1 DEF Retry, Report
  <2>4. ~IsTaken'
    BY <1>0, <2>2, <2>3 DEF IsTaken, Locked, TypeInv, TypeOK
  <2>5. late' \in Nat /\ faults' \in Nat /\ Troubles' \in Nat /\ Troubles' + Taken >= Troubles + 1
    <3>1. CASE GiveUpDevice(w)
      <4>1. late' = late + 1 /\ faults' = faults
        BY <3>1 DEF GiveUpDevice
      <4>2. Troubles' = Troubles + 1
        BY <1>0, <2>1, <4>1 DEF Troubles
      <4> QED
        BY <1>0, <4>1, <4>2, Sizes
    <3>2. CASE ConfigureFails(w) /\ loops[num[w]] # Free
      <4>1. pc[w] = "configure" /\ loops[num[w]] # Free /\ late' = late /\ faults' = faults
        BY <3>2 DEF ConfigureFails
      <4>2. num[w] \in Loops /\ loops[num[w]] \notin Apexes
        BY <1>0, <4>1 DEF DeviceInv, Locked, TypeInv, TypeOK
      <4>3. loops[num[w]] = Other
        BY <1>0, <4>1, <4>2 DEF TypeInv, TypeOK
      <4>4. Taken = 1
        BY <4>3, <2>1 DEF Taken, IsTaken
      <4>5. Troubles' = Troubles
        BY <2>1, <4>1 DEF Troubles
      <4> QED
        BY <1>0, <4>1, <4>4, <4>5
    <3>3. CASE ConfigureFails(w) /\ loops[num[w]] = Free
      <4>1. faults' = faults + 1 /\ late' = late /\ takes' = takes
        BY <3>3 DEF ConfigureFails, Fault
      <4>2. Troubles' \in Nat /\ Troubles' >= Troubles + 1 /\ faults' \in Nat /\ late' \in Nat
        BY <1>0, <4>1, TroublesFault
      <4>3. Troubles \in Nat /\ Taken \in Nat /\ Taken <= Taken
        BY <1>0 DEF Taken
      <4>4. Troubles' + Taken >= Troubles + 1
        BY <4>2, <4>3, TroubleArithmetic
      <4> QED
        BY <4>2, <4>4
    <3> QED
      BY <1>4, <3>1, <3>2, <3>3
  <2>6. /\ Cardinality(InVain') + SetupAttempts * Cardinality(Failed') + Taken' <= Troubles'
        /\ \A v \in Workers : pc'[v] \in Busy => attempts'[v] >= 1
    <3>1. Taken' = 0
      BY <2>4 DEF Taken
    <3>2. Troubles' + Taken >= Troubles + 1 + Taken'
      BY <1>0, <2>5, <3>1
    <3> QED
      BY <1>0, <2>1, <2>5, <3>2, TroubleRetry
  <2> QED
    BY <1>0, <2>1, <2>5, <2>6 DEF TroubleInv
<1>5. CASE Mount(w) \/ MountFails(w) \/ BindMount(w)
  <2>1. UNCHANGED <<takes, late, attempts, num, unlinked>> /\ pc[w] \in {"mount", "bind"}
    BY <1>5 DEF Mount, MountFails, BindMount
  <2>2. \E to \in {"next", "bind"} : pc' = [pc EXCEPT ![w] = to]
    BY <1>5 DEF Mount, MountFails, BindMount, Report
  <2>3. \A v \in Workers : pc'[v] \in Locked <=> pc[v] \in Locked
    BY <1>0, <2>1, <2>2 DEF TypeInv, TypeOK, Locked
  <2>4. \A l \in Loops : loops'[l] = Other => loops[l] = Other
    BY <1>0, <1>5 DEF Mount, MountFails, BindMount, TypeInv, TypeOK, Free, Other
  <2>5. IsTaken' => IsTaken
    BY <1>0, <2>1, <2>3, <2>4 DEF IsTaken, DeviceInv, TypeInv, TypeOK
  <2>6. \/ faults' = faults /\ UNCHANGED ret /\ pc' = [pc EXCEPT ![w] = "bind"]
        \/ faults' = faults /\ Report(w, TRUE)
        \/ faults' = faults + 1 /\ Report(w, FALSE)
    BY <1>5 DEF Mount, MountFails, BindMount, Fault
  <2>7. CASE faults' = faults /\ UNCHANGED ret /\ pc' = [pc EXCEPT ![w] = "bind"]
    <3>1. \A v \in Workers : pc'[v] \in Busy <=> pc[v] \in Busy
      BY <1>0, <2>1, <2>7 DEF TypeInv, TypeOK, Busy
    <3>2. InVain' = InVain
      BY <1>0, <2>1, <3>1, InVainStays
    <3>3. Failed' = Failed
      BY <2>1, <2>7, NotedStays, FailedStays
    <3>4. Troubles' = Troubles
      BY <2>1, <2>7 DEF Troubles
    <3>5. \A v \in Workers : pc'[v] \in Busy => attempts'[v] >= 1
      BY <2>1, <3>1 DEF TroubleInv
    <3> QED
      BY <1>0, <2>1, <2>5, <2>7, <3>2, <3>3, <3>4, <3>5, TroubleStays DEF TroubleInv
  <2>8. ASSUME NEW ok \in BOOLEAN, Report(w, ok), faults' = IF ok THEN faults ELSE faults + 1
        PROVE  TroubleInv'
    <3>1. Troubles' = IF ok THEN Troubles ELSE Troubles + SetupAttempts
      <4>1. CASE ok
        BY <4>1, <2>1, <2>8 DEF Troubles
      <4>2. CASE ~ok
        <5>1. SetupAttempts * (faults + 1) = SetupAttempts * faults + SetupAttempts
          BY <1>0
        <5>2. SetupAttempts * faults \in Nat
          BY <1>0
        <5> QED
          BY <1>0, <4>2, <5>1, <5>2, <2>1, <2>8 DEF Troubles
      <4> QED
        BY <4>1, <4>2
    <3>2. pc[w] \in Busy
      BY <2>1 DEF Busy
    <3>3. /\ Cardinality(InVain') + SetupAttempts * Cardinality(Failed') + Taken' <= Troubles'
          /\ \A v \in Workers : pc'[v] \in Busy => attempts'[v] >= 1
      BY <1>0, <2>1, <2>5, <2>8, <3>1, <3>2, TroubleReport
    <3>4. takes' \in Nat /\ late' \in Nat /\ faults' \in Nat
      BY <1>0, <2>1, <2>8
    <3> QED
      BY <3>3, <3>4 DEF TroubleInv
  <2>9. CASE faults' = faults /\ Report(w, TRUE)
    BY <2>8, <2>9
  <2>10. CASE faults' = faults + 1 /\ Report(w, FALSE)
    BY <2>8, <2>10
  <2> QED
    BY <2>6, <2>7, <2>9, <2>10
<1>6. CASE GetFreeFails(w) \/ ReadAheadFails(w)
  <2>1. /\ pc[w] \in {"loop", "mount"} /\ Retry(w)
        /\ UNCHANGED <<takes, late, num>> /\ faults' = faults + 1
    BY <1>6 DEF GetFreeFails, ReadAheadFails, Fault
  <2>2. \E to \in {"next", "loop"} : pc' = [pc EXCEPT ![w] = to]
    BY <2>1 DEF Retry, Report
  <2>3. \A v \in Workers : pc'[v] \in Locked <=> pc[v] \in Locked
    BY <1>0, <2>1, <2>2 DEF TypeInv, TypeOK, Locked
  <2>4. \A l \in Loops : loops'[l] = Other => loops[l] = Other
    BY <1>0, <1>6 DEF GetFreeFails, ReadAheadFails, TypeInv, TypeOK, Free, Other
  <2>5. IsTaken' => IsTaken
    BY <1>0, <2>1, <2>3, <2>4 DEF IsTaken, DeviceInv, TypeInv, TypeOK
  <2>6. Troubles' \in Nat /\ Troubles' >= Troubles + 1
    BY <1>0, <2>1, TroublesFault
  <2>7. Troubles' + Taken >= Troubles + 1 + Taken'
    <3>1. Taken' <= Taken /\ Taken \in Nat /\ Taken' \in Nat
      BY <2>5 DEF Taken
    <3>2. Troubles \in Nat
      BY <1>0
    <3> QED
      BY <2>6, <3>1, <3>2, TroubleArithmetic
  <2>8. /\ Cardinality(InVain') + SetupAttempts * Cardinality(Failed') + Taken' <= Troubles'
        /\ \A v \in Workers : pc'[v] \in Busy => attempts'[v] >= 1
    BY <1>0, <2>1, <2>6, <2>7, TroubleRetry DEF Busy
  <2> QED
    BY <1>0, <2>1, <2>8 DEF TroubleInv
<1> QED
  BY <1>1, <1>2, <1>3, <1>4, <1>5, <1>6 DEF Worker

LEMMA TroubleMain ==
  ASSUME Inv, SettledInv, MainInv, TroubleInv, MainThread
  PROVE  TroubleInv'
<1> USE DEF kernel, threads, bounds
<1>0. /\ TypeInv /\ takes \in Nat /\ late \in Nat /\ faults \in Nat /\ SetupAttempts \in Nat /\ Troubles \in Nat
      /\ UNCHANGED <<ret, attempts, takes, late>>
  BY TroublesType, ThreadsAssumption
  DEF Inv, TroubleInv, MainThread, PreAllocateLoopDevices, PreAllocateFails, StartWorkers, CollectResults,
      ContributeToSharedLibs, Return
<1>1. /\ loops' = loops /\ num' = num
      /\ \A v \in Workers : pc'[v] = pc[v] \/ (pc[v] \notin Busy /\ pc'[v] \notin Busy)
  BY <1>0, MainFrame
<1>2. \A v \in Workers : (pc'[v] \in Busy <=> pc[v] \in Busy) /\ (pc'[v] \in Locked <=> pc[v] \in Locked)
  BY <1>1 DEF Busy, Locked
<1>3. InVain' = InVain
  BY <1>0, <1>2, InVainStays
<1>4. IsTaken' <=> IsTaken
  BY <1>1, <1>2 DEF IsTaken
<1>5. \A v \in Workers : pc'[v] \in Busy => attempts'[v] >= 1
  BY <1>0, <1>2 DEF TroubleInv
<1>6. CASE UNCHANGED <<unlinked, faults>>
  <2>1. Failed' = Failed
    BY <1>0, <1>6, NotedStays, FailedStays
  <2>2. Troubles' = Troubles
    BY <1>0, <1>6 DEF Troubles
  <2> QED
    BY <1>0, <1>3, <1>4, <1>5, <1>6, <2>1, <2>2, TroubleStays DEF TroubleInv
<1>7. ASSUME NEW a \in Apexes, faults' = faults + 1, unlinked' = unlinked \cup {a} PROVE TroubleInv'
  <2>1. Noted' = Noted
    BY <1>0, NotedStays
  <2>2. Failed' = Failed \cup {a}
    BY <1>7, <2>1 DEF Failed
  <2>3. Cardinality(Failed') <= Cardinality(Failed) + 1 /\ Cardinality(Failed') \in Nat /\ Cardinality(Failed) \in Nat
    <3>1. Cardinality(Failed \cup {a}) = IF a \in Failed THEN Cardinality(Failed) ELSE Cardinality(Failed) + 1
      BY Sizes, FS_AddElement
    <3>2. Cardinality(Failed') \in Nat /\ Cardinality(Failed) \in Nat
      BY Sizes, SizesNext
    <3> QED
      BY <2>2, <3>1, <3>2
  <2>4. Taken' = Taken /\ Taken \in Nat /\ Cardinality(InVain) \in Nat
    BY <1>4, Sizes DEF Taken
  <2>5. \A m, n \in Nat : m <= n + 1 => SetupAttempts * m <= SetupAttempts * n + SetupAttempts
    <3> SUFFICES ASSUME NEW m \in Nat, NEW n \in Nat, m <= n + 1
                 PROVE  SetupAttempts * m <= SetupAttempts * n + SetupAttempts
      OBVIOUS
    <3>1. SetupAttempts * m <= SetupAttempts * (n + 1)
      BY <1>0
    <3>2. SetupAttempts * (n + 1) = SetupAttempts * n + SetupAttempts
      BY <1>0
    <3> QED
      BY <3>1, <3>2
  <2>6. SetupAttempts * Cardinality(Failed') <= SetupAttempts * Cardinality(Failed) + SetupAttempts
    BY <2>3, <2>5
  <2>7. Troubles' = Troubles + SetupAttempts
    <3>1. SetupAttempts * (faults + 1) = SetupAttempts * faults + SetupAttempts
      BY <1>0
    <3>2. SetupAttempts * faults \in Nat
      BY <1>0
    <3> QED
      BY <1>0, <1>7, <3>1, <3>2 DEF Troubles
  <2>8. SetupAttempts * Cardinality(Failed') \in Nat /\ SetupAttempts * Cardinality(Failed) \in Nat
    BY <1>0, <2>3
  <2>9. Cardinality(InVain') + SetupAttempts * Cardinality(Failed') + Taken' <= Troubles'
    BY <1>0, <1>3, <2>4, <2>6, <2>7, <2>8 DEF TroubleInv
  <2>10. faults' \in Nat
    BY <1>0, <1>7
  <2> QED
    BY <1>0, <1>5, <2>9, <2>10 DEF TroubleInv
<1>8. CASE PreAllocateFails
  <2>1. unlinked' = unlinked /\ (faults' = faults \/ faults' = faults + 1)
    BY <1>8 DEF PreAllocateFails, Fault
  <2>2. CASE faults' = faults
    BY <1>6, <2>1, <2>2
  <2>3. CASE faults' = faults + 1
    <3>1. Failed' = Failed
      BY <1>0, <2>1, NotedStays, FailedStays
    <3>2. SetupAttempts \in Nat \ {0}
      BY ThreadsAssumption
    <3>3. Troubles' \in Nat /\ Troubles' >= Troubles + 1
      BY <1>0, <2>3, <3>2, TroublesFault
    <3>4. Taken' = Taken /\ Taken \in Nat /\ Cardinality(InVain) \in Nat /\ SetupAttempts * Cardinality(Failed) \in Nat
      BY <1>0, <1>4, Sizes DEF Taken
    <3>5. Cardinality(InVain') + SetupAttempts * Cardinality(Failed') + Taken' <= Troubles'
      BY <1>0, <1>3, <3>1, <3>3, <3>4 DEF TroubleInv
    <3> QED
      BY <1>0, <1>5, <2>3, <3>5 DEF TroubleInv
  <2> QED
    BY <2>1, <2>2, <2>3
<1> QED
  BY <1>6, <1>7, <1>8 DEF MainThread, PreAllocateLoopDevices, StartWorkers, CollectResults,
     ContributeToSharedLibs, Return, Fault

LEMMA TroubleExternal ==
  ASSUME Inv, TroubleInv, External
  PROVE  TroubleInv'
<1> USE DEF threads, control, bounds
<1>0. /\ TypeInv /\ takes \in Nat /\ late \in Nat /\ faults \in Nat /\ SetupAttempts \in Nat /\ Troubles \in Nat
      /\ UNCHANGED <<pc, num, ret, attempts, unlinked, late, faults>>
  BY TroublesType, ThreadsAssumption DEF Inv, TroubleInv, External, ColdBootDone, CreateNode, TakeByOther
<1>1. InVain' = InVain
  BY <1>0, InVainStays
<1>2. Failed' = Failed
  BY <1>0, NotedStays, FailedStays
<1>3. \A v \in Workers : pc'[v] \in Busy => attempts'[v] >= 1
  BY <1>0 DEF TroubleInv
<1>4. CASE UNCHANGED <<loops, takes>>
  <2>1. Troubles' = Troubles /\ (IsTaken' => IsTaken)
    BY <1>0, <1>4 DEF Troubles, IsTaken
  <2> QED
    BY <1>0, <1>1, <1>2, <1>3, <1>4, <2>1, TroubleStays DEF TroubleInv
<1>5. CASE takes' = takes + 1
  <2>1. Taken' \in {0, 1} /\ Taken \in Nat /\ Taken' <= Taken + 1
    BY DEF Taken
  <2>2. Troubles' = Troubles + 1
    <3>1. SetupAttempts * faults \in Nat
      BY <1>0
    <3> QED
      BY <1>0, <1>5, <3>1 DEF Troubles
  <2>3. Cardinality(InVain) \in Nat /\ SetupAttempts * Cardinality(Failed) \in Nat
    BY <1>0, Sizes
  <2>4. Cardinality(InVain') + SetupAttempts * Cardinality(Failed') + Taken' <= Troubles'
    BY <1>0, <1>1, <1>2, <2>1, <2>2, <2>3 DEF TroubleInv
  <2>5. takes' \in Nat
    BY <1>0, <1>5
  <2> QED
    BY <1>0, <1>3, <2>4, <2>5 DEF TroubleInv
<1> QED
  BY <1>4, <1>5 DEF External, ColdBootDone, CreateNode, TakeByOther

LEMMA TroubleInit == Init => TroubleInv
<1> SUFFICES ASSUME Init PROVE TroubleInv
  OBVIOUS
<1>1. \A x : x \notin Noted
  BY NotedIs DEF Init
<1>2. Failed = {}
  BY <1>1 DEF Init, Failed
<1>3. \A w \in Workers : pc[w] \notin Busy /\ pc[w] \notin Locked
  BY DEF Init, Busy, Locked
<1>4. InVain = {} /\ Taken = 0
  BY <1>3 DEF InVain, Taken, IsTaken
<1>5. Cardinality(InVain) = 0 /\ Cardinality(Failed) = 0
  BY <1>2, <1>4, FS_EmptySet
<1>6. SetupAttempts \in Nat
  BY ThreadsAssumption
<1>7. takes = 0 /\ late = 0 /\ faults = 0
  BY DEF Init
<1>8. Troubles = 0 /\ SetupAttempts * 0 = 0
  BY <1>6, <1>7 DEF Troubles
<1> QED
  BY <1>3, <1>4, <1>5, <1>7, <1>8 DEF TroubleInv

LEMMA TroubleFrame == TroubleInv /\ UNCHANGED vars => TroubleInv'
<1> SUFFICES ASSUME TroubleInv, UNCHANGED vars PROVE TroubleInv'
  OBVIOUS
<1>1. UNCHANGED <<pc, num, ret, attempts, unlinked, takes, late, faults, loops>>
  BY DEF vars, kernel, threads, control, bounds
<1>2. InVain' = InVain /\ Taken' = Taken /\ Troubles' = Troubles
  BY <1>1 DEF InVain, Taken, IsTaken, Troubles
<1>3. Failed' = Failed
  BY <1>1, NotedStays, FailedStays
<1> QED
  BY <1>1, <1>2, <1>3 DEF TroubleInv

FullInv == Inv /\ SettledInv /\ MainInv /\ TroubleInv

LEMMA InitFull == Init => FullInv
BY InitInv, SettledInit, TroubleInit DEF FullInv

LEMMA NextFull == FullInv /\ [Next]_vars => FullInv'
<1> SUFFICES ASSUME FullInv, [Next]_vars PROVE FullInv'
  OBVIOUS
<1> USE DEF FullInv
<1>1. Inv'
  BY NextInv
<1>2. ASSUME NEW w \in Workers, Worker(w) PROVE FullInv'
  <2>1. SettledInv' /\ MainInv'
    BY <1>2, SettledWorker, MainWorker DEF Inv
  <2> QED
    BY <1>1, <1>2, <2>1, TroubleWorker
<1>3. CASE MainThread
  <2>1. SettledInv' /\ MainInv'
    BY <1>3, SettledMain DEF Inv
  <2> QED
    BY <1>1, <1>3, <2>1, TroubleMain
<1>4. CASE External
  <2>1. UNCHANGED <<threads, control>>
    BY <1>4 DEF External, ColdBootDone, CreateNode, TakeByOther
  <2> QED
    BY <1>1, <1>4, <2>1, SettledFrame, TroubleExternal
<1>5. CASE UNCHANGED vars
  BY <1>1, <1>5, SettledFrame, TroubleFrame DEF vars
<1> QED
  BY <1>2, <1>3, <1>4, <1>5 DEF Next

---------------------------------------------------------------------------
(* The steps of the threads are the steps of one                            *)

Outcomes == [a \in Apexes |-> OutcomeOf(a)]

LEMMA SequentialCardinality == \A S : Sequential!Cardinality(S) = Cardinality(S)
BY DEF Sequential!Cardinality, Cardinality

LEMMA SequentialToSet == \A s : Sequential!ToSet(s) = ToSet(s)
BY DEF Sequential!ToSet, ToSet

LEMMA Costs == \A n \in Nat : SetupAttempts * n \in Nat
<1> SUFFICES ASSUME NEW n \in Nat PROVE SetupAttempts * n \in Nat
  OBVIOUS
<1>1. SetupAttempts \in Nat
  BY ThreadsAssumption
<1> QED
  BY <1>1

LEMMA TroublesTypeNext ==
  ASSUME TroubleInv'
  PROVE  Troubles' \in Nat
<1>1. takes' \in Nat /\ late' \in Nat /\ faults' \in Nat
  BY DEF TroubleInv
<1>2. PICK n \in Nat : n = SetupAttempts * faults'
  BY <1>1, Costs
<1>3. \A k, l, m \in Nat : k + l + m \in Nat
  OBVIOUS
<1>4. takes' + late' + n \in Nat
  BY <1>1, <1>3
<1> QED
  BY <1>2, <1>4 DEF Troubles

LEMMA OutcomeIs ==
  ASSUME TypeInv, SettledInv, MainInv, NEW a \in Apexes
  PROVE  /\ OutcomeOf(a) = "pending" <=> a \in list /\ \A ok \in BOOLEAN : <<a, ok>> \notin Noted
         /\ OutcomeOf(a) = "active" <=> <<a, TRUE>> \in Noted /\ a \notin unlinked
         /\ OutcomeOf(a) \in {"failed", "unlinked"} <=> a \in Failed
<1>1. \A ok \in BOOLEAN : <<a, ok>> \in Noted => a \in list
  BY DEF SettledInv
<1>2. a \in unlinked => <<a, TRUE>> \in Noted
  BY DEF MainInv
<1>3. ~(<<a, TRUE>> \in Noted /\ <<a, FALSE>> \in Noted)
  BY DEF SettledInv, NotedOnce
<1> QED
  BY <1>1, <1>2, <1>3 DEF OutcomeOf, Failed, Noted

LEMMA LostIs ==
  ASSUME TypeInv, SettledInv, MainInv
  PROVE  Sequential!Lost = Failed
<1>1. \A a \in Apexes : OutcomeOf(a) \in {"failed", "unlinked"} <=> a \in Failed
  BY OutcomeIs
<1> QED
  BY <1>1 DEF Sequential!Lost, Sequential!Are, Failed

LEMMA OutcomesStay == UNCHANGED <<list, unlinked, ret>> => Outcomes' = Outcomes
<1> SUFFICES ASSUME UNCHANGED <<list, unlinked, ret>> PROVE Outcomes' = Outcomes
  OBVIOUS
<1>1. \A a : OutcomeOf(a)' = OutcomeOf(a)
  BY DEF OutcomeOf, Results
<1> QED
  BY <1>1 DEF Outcomes

(* Nothing of what the one thread does.                                     *)
LEMMA SufferImplements ==
  ASSUME TroubleInv, TroubleInv', Troubles' >= Troubles, UNCHANGED <<list, unlinked, ret, links, result>>
  PROVE  [Sequential!Next]_Sequential!vars
<1>1. Outcomes' = Outcomes
  BY OutcomesStay
<1>2. Troubles \in Nat /\ Troubles' \in Nat
  BY TroublesType, TroublesTypeNext
<1>3. CASE Troubles' = Troubles
  BY <1>1, <1>3 DEF Sequential!vars, Outcomes, Troubles
<1>4. CASE Troubles' > Troubles
  <2>1. Sequential!Suffer
    BY <1>1, <1>4 DEF Sequential!Suffer, Outcomes, Troubles
  <2> QED
    BY <2>1 DEF Sequential!Next
<1> QED
  BY <1>2, <1>3, <1>4

LEMMA ReportImplements ==
  ASSUME FullInv, FullInv', NEW w \in Workers, pc[w] \in Busy, NEW ok \in BOOLEAN, Report(w, ok),
         Troubles' >= Troubles, UNCHANGED <<list, unlinked, links, result>>
  PROVE  Sequential!Next
<1> USE DEF FullInv, Inv
<1>1. apex[w] \in Apexes /\ apex[w] \in list
  BY NoApexIsNone DEF TypeInv, WorkersInv, SettledInv
<1>2. Noted' = Noted \cup {<<apex[w], ok>>}
  BY NotedReport
<1>3. \A o \in BOOLEAN : <<apex[w], o>> \notin Noted
  BY <1>1 DEF SettledInv
<1>4. OutcomeOf(apex[w]) = "pending" /\ apex[w] \notin unlinked
  BY <1>1, <1>3, OutcomeIs DEF MainInv
<1>5. Outcomes' = [Outcomes EXCEPT ![apex[w]] = IF ok THEN "active" ELSE "failed"]
  <2>1. \A a \in Apexes : OutcomeOf(a)' = IF a = apex[w] THEN IF ok THEN "active" ELSE "failed" ELSE OutcomeOf(a)
    <3> SUFFICES ASSUME NEW a \in Apexes
                 PROVE  OutcomeOf(a)' = IF a = apex[w] THEN IF ok THEN "active" ELSE "failed" ELSE OutcomeOf(a)
      OBVIOUS
    <3>1. CASE a = apex[w]
      <4>1. <<a, TRUE>> \in Noted' <=> ok
        BY <3>1, <1>2, <1>3
      <4>2. <<a, FALSE>> \in Noted' <=> ~ok
        BY <3>1, <1>2, <1>3
      <4> QED
        BY <3>1, <4>1, <4>2, <1>1, <1>4 DEF OutcomeOf, Noted
    <3>2. CASE a # apex[w]
      <4>1. \A o \in BOOLEAN : <<a, o>> \in Noted' <=> <<a, o>> \in Noted
        BY <3>2, <1>2
      <4> QED
        BY <3>2, <4>1 DEF OutcomeOf, Noted
    <3> QED
      BY <3>1, <3>2
  <2> QED
    BY <2>1, <1>1 DEF Outcomes
<1>6. ~ok => Troubles' >= SetupAttempts * (Cardinality(Sequential!Lost) + 1)
  <2> SUFFICES ASSUME ~ok PROVE Troubles' >= SetupAttempts * (Cardinality(Failed) + 1)
    BY LostIs
  <2>1. Cardinality(Failed') = Cardinality(Failed) + 1 /\ Cardinality(Failed) \in Nat
    BY FailedReport, Sizes
  <2>2. Cardinality(InVain') + SetupAttempts * Cardinality(Failed') + Taken' <= Troubles'
    BY DEF TroubleInv
  <2>3. Cardinality(InVain') \in Nat /\ Taken' \in Nat /\ SetupAttempts \in Nat
    BY SizesNext, ThreadsAssumption
  <2>4. SetupAttempts * (Cardinality(Failed) + 1) \in Nat
    BY <2>1, <2>3
  <2>5. Troubles' \in Nat
    BY TroublesTypeNext
  <2> HIDE DEF FullInv, Inv
  <2> QED
    BY <2>1, <2>2, <2>3, <2>4, <2>5
<1>7. Sequential!Settle(apex[w])
  <2>1. Outcomes[apex[w]] = "pending"
    BY <1>1, <1>4 DEF Outcomes
  <2>2. PICK o \in {"active", "failed"} :
          Outcomes' = [Outcomes EXCEPT ![apex[w]] = o] /\ (o = "failed" => ~ok)
    BY <1>5
  <2>3. o = "failed" => Sequential!Fails
    <3> HIDE DEF FullInv, Inv
    <3> SUFFICES ASSUME o = "failed" PROVE Sequential!Fails
      OBVIOUS
    <3>1. Troubles' >= SetupAttempts * (Cardinality(Sequential!Lost) + 1)
      BY <1>6, <2>2
    <3> QED
      BY <3>1, SequentialCardinality DEF Sequential!Fails, Troubles
  <2> QED
    BY <2>1, <2>2, <2>3 DEF Sequential!Settle, Outcomes, Troubles
<1> QED
  BY <1>1, <1>7 DEF Sequential!Next

LEMMA WorkerTroubles ==
  ASSUME Inv, SettledInv, MainInv, TroubleInv, NEW w \in Workers, Worker(w)
  PROVE  Troubles' >= Troubles
<1> USE DEF kernel, control, bounds
<1>0. takes \in Nat /\ late \in Nat /\ faults \in Nat /\ SetupAttempts \in Nat /\ Troubles \in Nat
  BY TroublesType, ThreadsAssumption DEF TroubleInv
<1>1. \/ UNCHANGED <<takes, late, faults>>
      \/ UNCHANGED <<takes, faults>> /\ late' = late + 1
      \/ UNCHANGED <<takes, late>> /\ faults' = faults + 1
  BY DEF Worker, TakeFromQueue, Finish, CreateLoopDevice, GetFreeFails, OpenDevice, PollDevice, GiveUpDevice,
         ConfigureLoopDevice, ConfigureFails, ReadAheadFails, Mount, MountFails, BindMount, Fault
<1>2. CASE UNCHANGED <<takes, late, faults>>
  BY <1>0, <1>2 DEF Troubles
<1>3. CASE UNCHANGED <<takes, faults>> /\ late' = late + 1
  <2>1. SetupAttempts * faults \in Nat
    BY <1>0
  <2> QED
    BY <1>0, <1>3, <2>1 DEF Troubles
<1>4. CASE UNCHANGED <<takes, late>> /\ faults' = faults + 1
  <2>1. SetupAttempts * faults \in Nat /\ SetupAttempts * (faults + 1) = SetupAttempts * faults + SetupAttempts
    BY <1>0
  <2> QED
    BY <1>0, <1>4, <2>1 DEF Troubles
<1> QED
  BY <1>1, <1>2, <1>3, <1>4

LEMMA WorkerImplements ==
  ASSUME FullInv, FullInv', NEW w \in Workers, Worker(w)
  PROVE  [Sequential!Next]_Sequential!vars
<1>0. Troubles' >= Troubles
  BY WorkerTroubles DEF FullInv
<1>1. UNCHANGED <<list, links, unlinked, result>>
  BY WorkerSteps DEF FullInv, Inv, control
<1>2. CASE UNCHANGED ret
  BY <1>0, <1>1, <1>2, SufferImplements DEF FullInv
<1>3. ASSUME pc[w] \in Busy, NEW ok \in BOOLEAN, Report(w, ok) PROVE Sequential!Next
  BY <1>0, <1>1, <1>3, ReportImplements
<1> QED
  BY <1>2, <1>3, WorkerSteps DEF FullInv, Inv, TakeFromQueue, Finish

LEMMA ExternalImplements ==
  ASSUME FullInv, FullInv', External
  PROVE  [Sequential!Next]_Sequential!vars
<1> USE DEF threads, control, bounds
<1>1. UNCHANGED <<list, unlinked, ret, links, result, late, faults>> /\ takes' \in {takes, takes + 1}
  BY DEF External, ColdBootDone, CreateNode, TakeByOther
<1>2. Troubles' >= Troubles
  <2>1. takes \in Nat /\ late \in Nat /\ faults \in Nat /\ Troubles \in Nat
    BY TroublesType DEF FullInv, TroubleInv
  <2>2. SetupAttempts * faults \in Nat
    BY <2>1, Costs
  <2>3. CASE takes' = takes
    BY <1>1, <2>1, <2>3 DEF Troubles
  <2>4. CASE takes' = takes + 1
    BY <1>1, <2>1, <2>2, <2>4 DEF Troubles
  <2> QED
    BY <1>1, <2>3, <2>4
<1> QED
  BY <1>1, <1>2, SufferImplements DEF FullInv

(* When the main thread has collected the results, all are settled.         *)
LEMMA AllSettled ==
  ASSUME TypeInv, SettledInv, MainInv, main.i > WorkerNum, NEW a \in Apexes
  PROVE  OutcomeOf(a) # "pending"
<1>1. \A w \in Workers : w < main.i
  BY WorkerNumType DEF Workers, TypeInv, TypeOK
<1>2. \A w \in Workers : pc[w] = "ended"
  BY <1>1 DEF MainInv
<1>3. 1 \in Workers
  BY WorkerNumType DEF Workers
<1>4. queue = {}
  BY <1>2, <1>3 DEF SettledInv
<1>5. \A w \in Workers : apex[w] = NoApex
  BY <1>2 DEF TypeInv, WorkersInv, Busy
<1>6. a \in list => \E ok \in BOOLEAN : <<a, ok>> \in Noted
  BY <1>4, <1>5, NoApexIsNone DEF SettledInv
<1> QED
  BY <1>6, OutcomeIs

LEMMA WaitingIs ==
  ASSUME TypeInv, SettledInv, MainInv, main.i > WorkerNum
  PROVE  Sequential!Waiting = ActivatedSharedLibs \ ToSet(links)
<1>1. Collected = Noted
  BY CollectedAll
<1>2. \A a \in Apexes : OutcomeOf(a) = "active" <=> <<a, TRUE>> \in Noted /\ a \notin unlinked
  BY OutcomeIs
<1>3. ProvidesSharedLibs \subseteq Apexes /\ unlinked \subseteq ToSet(links)
  BY ApexesAssumption DEF MainInv
<1>4. \A a : a \in ActivatedSharedLibs <=> a \in ProvidesSharedLibs /\ <<a, TRUE>> \in Noted
  BY <1>1 DEF ActivatedSharedLibs
<1>5. \A a : a \in Sequential!Waiting <=>
        a \in Apexes /\ OutcomeOf(a) = "active" /\ a \in ProvidesSharedLibs /\ a \notin ToSet(links)
  BY SequentialToSet DEF Sequential!Waiting, Sequential!Are
<1> QED
  BY <1>2, <1>3, <1>4, <1>5

LEMMA ContributeImplements ==
  ASSUME FullInv, FullInv', NEW a \in Apexes, ContributeToSharedLibs(a)
  PROVE  Sequential!Contribute(a)
<1> USE DEF FullInv, Inv, kernel, threads
<1>1. /\ main.i > WorkerNum /\ a \in ActivatedSharedLibs \ ToSet(links)
      /\ \A b \in ActivatedSharedLibs \ ToSet(links) : ~Before(b, a)
      /\ links' = Append(links, a) /\ result' = result
      /\ UNCHANGED <<list, ret, takes, late>>
  BY DEF ContributeToSharedLibs
<1>2. Sequential!Waiting = ActivatedSharedLibs \ ToSet(links)
  BY <1>1, WaitingIs
<1>3. Sequential!Are("pending") = {}
  BY <1>1, AllSettled DEF Sequential!Are
<1>4. <<a, TRUE>> \in Noted /\ a \in list
  BY <1>1, CollectedAll DEF ActivatedSharedLibs, SettledInv
<1>5. a \notin unlinked
  BY <1>1 DEF MainInv
<1>6. Noted' = Noted
  BY <1>1, NotedStays
<1>7. CASE UNCHANGED <<unlinked, faults>>
  <2>1. Outcomes' = Outcomes
    BY <1>1, <1>7, OutcomesStay
  <2>2. Troubles' = Troubles /\ Troubles \in Nat
    BY <1>1, <1>7, TroublesType DEF Troubles
  <2>3. Troubles' >= Troubles
    BY <2>2
  <2> QED
    BY <1>1, <1>2, <1>3, <2>1, <2>3 DEF Sequential!Contribute, Outcomes, Troubles
<1>8. CASE faults' = faults + 1 /\ unlinked' = unlinked \cup {a}
  <2>1. \A b \in Apexes : OutcomeOf(b)' = IF b = a THEN "unlinked" ELSE OutcomeOf(b)
    BY <1>1, <1>4, <1>6, <1>8 DEF OutcomeOf, Noted
  <2>2. Outcomes' = [Outcomes EXCEPT ![a] = "unlinked"]
    BY <2>1 DEF Outcomes
  <2>3. a \notin Failed
    BY <1>4, <1>5 DEF Failed, SettledInv, NotedOnce
  <2>4. Failed' = Failed \cup {a}
    BY <1>6, <1>8 DEF Failed
  <2>5. Cardinality(Failed') = Cardinality(Failed) + 1 /\ Cardinality(Failed) \in Nat
    BY <2>3, <2>4, Sizes, FS_AddElement
  <2>6. Troubles' >= SetupAttempts * (Cardinality(Failed) + 1)
    <3>1. Cardinality(InVain') + SetupAttempts * Cardinality(Failed') + Taken' <= Troubles'
      BY DEF TroubleInv
    <3>2. Cardinality(InVain') \in Nat /\ Taken' \in Nat /\ Troubles' \in Nat
      BY SizesNext, TroublesTypeNext
    <3>3. SetupAttempts * (Cardinality(Failed) + 1) \in Nat
      BY <2>5, Costs
    <3> HIDE DEF FullInv, Inv
    <3> QED
      BY <2>5, <3>1, <3>2, <3>3
  <2>7. Sequential!Fails
    <3> HIDE DEF FullInv, Inv
    <3>1. Sequential!Lost = Failed
      BY LostIs DEF FullInv, Inv
    <3>2. Troubles' >= SetupAttempts * (Cardinality(Sequential!Lost) + 1)
      BY <2>6, <3>1
    <3> QED
      BY <3>2, SequentialCardinality DEF Sequential!Fails, Troubles
  <2>8. Troubles' >= Troubles
    <3>1. faults \in Nat /\ takes \in Nat /\ late \in Nat /\ SetupAttempts \in Nat
      BY ThreadsAssumption DEF TroubleInv
    <3>2. SetupAttempts * faults \in Nat /\ SetupAttempts * (faults + 1) = SetupAttempts * faults + SetupAttempts
      BY <3>1
    <3> HIDE DEF FullInv, Inv
    <3> QED
      BY <1>1, <1>8, <3>1, <3>2 DEF Troubles
  <2> HIDE DEF FullInv, Inv
  <2> QED
    BY <1>1, <1>2, <1>3, <2>2, <2>7, <2>8 DEF Sequential!Contribute, Outcomes, Troubles
<1> QED
  BY <1>7, <1>8 DEF ContributeToSharedLibs, Fault

LEMMA ReturnImplements ==
  ASSUME FullInv, FullInv', Return
  PROVE  Sequential!Return
<1> USE DEF FullInv, Inv, kernel, threads, bounds
<1>1. /\ main.i > WorkerNum /\ ActivatedSharedLibs \subseteq ToSet(links) /\ main.pc = "collect"
      /\ result' = IF unlinked = {} /\ \A x \in Collected : x[2] THEN "ok" ELSE "error"
      /\ UNCHANGED <<list, ret, unlinked, links, takes, late, faults>>
  BY DEF Return, Main
<1>2. Sequential!Waiting = {} /\ Sequential!Are("pending") = {}
  <2>1. Sequential!Waiting = ActivatedSharedLibs \ ToSet(links)
    BY <1>1, WaitingIs
  <2> QED
    BY <1>1, <2>1, AllSettled DEF Sequential!Are
<1>3. result = "none"
  BY <1>1 DEF MainInv
<1>4. Outcomes' = Outcomes /\ Troubles' = Troubles
  BY <1>1, OutcomesStay DEF Troubles
<1>5. unlinked = {} /\ (\A x \in Collected : x[2]) <=> Failed = {}
  <2>1. Collected = Noted /\ Noted \subseteq Apexes \X BOOLEAN
    BY <1>1, CollectedAll, NotedType
  <2>2. unlinked \subseteq Apexes
    BY ApexesAssumption DEF TypeInv, TypeOK
  <2>3. (\A x \in Noted : x[2]) <=> \A a \in Apexes : <<a, FALSE>> \notin Noted
    <3>1. ASSUME \A x \in Noted : x[2], NEW a \in Apexes PROVE <<a, FALSE>> \notin Noted
      <4>1. <<a, FALSE>>[2] = FALSE
        OBVIOUS
      <4> QED
        BY <3>1, <4>1
    <3>2. ASSUME \A a \in Apexes : <<a, FALSE>> \notin Noted, NEW x \in Noted PROVE x[2]
      <4>1. PICK a \in Apexes, ok \in BOOLEAN : x = <<a, ok>>
        BY <2>1
      <4>2. ok = TRUE
        BY <3>2, <4>1
      <4> QED
        BY <4>1, <4>2
    <3> QED
      BY <3>1, <3>2
  <2> QED
    BY <2>1, <2>2, <2>3 DEF Failed
<1>6. result' = IF Sequential!Lost = {} THEN "ok" ELSE "error"
  BY <1>1, <1>5, LostIs
<1> HIDE DEF FullInv, Inv
<1> QED
  BY <1>1, <1>2, <1>3, <1>4, <1>6 DEF Sequential!Return, Outcomes, Troubles

LEMMA MainImplements ==
  ASSUME FullInv, FullInv', MainThread
  PROVE  [Sequential!Next]_Sequential!vars
<1>1. ASSUME NEW a \in Apexes, ContributeToSharedLibs(a) PROVE Sequential!Next
  BY <1>1, ContributeImplements DEF Sequential!Next
<1>2. CASE Return
  BY <1>2, ReturnImplements DEF Sequential!Next
<1>3. CASE PreAllocateLoopDevices \/ PreAllocateFails \/ StartWorkers \/ CollectResults
  <2>1. UNCHANGED <<list, ret, unlinked, links, result, takes, late>> /\ faults' \in {faults, faults + 1}
    BY <1>3 DEF PreAllocateLoopDevices, PreAllocateFails, StartWorkers, CollectResults, Fault, kernel, threads, bounds
  <2>2. takes \in Nat /\ late \in Nat /\ faults \in Nat /\ SetupAttempts \in Nat \ {0} /\ Troubles \in Nat
    BY TroublesType, ThreadsAssumption DEF FullInv, TroubleInv
  <2>3. Troubles' >= Troubles
    <3>1. CASE faults' = faults
      BY <2>1, <2>2, <3>1 DEF Troubles
    <3>2. CASE faults' = faults + 1
      <4>1. Troubles' \in Nat /\ Troubles' >= Troubles + 1
        BY <2>1, <2>2, <3>2, TroublesFault
      <4> QED
        BY <2>2, <4>1
    <3> QED
      BY <2>1, <3>1, <3>2
  <2> QED
    BY <2>1, <2>3, SufferImplements DEF FullInv
<1> QED
  BY <1>1, <1>2, <1>3 DEF MainThread

LEMMA InitImplements == Init => Sequential!Init
<1> SUFFICES ASSUME Init PROVE Sequential!Init
  OBVIOUS
<1>1. \A x : x \notin Noted
  BY NotedIs DEF Init
<1>2. unlinked = {} /\ links = <<>> /\ result = "none" /\ takes = 0 /\ late = 0 /\ faults = 0
  BY DEF Init
<1>3. list \in SUBSET Apexes
  BY ApexesAssumption DEF Init
<1>4. \A a \in Apexes : OutcomeOf(a) = IF a \in list THEN "pending" ELSE "absent"
  BY <1>1, <1>2 DEF OutcomeOf, Noted
<1>5. Outcomes = [a \in Apexes |-> IF a \in list THEN "pending" ELSE "absent"]
  BY <1>4 DEF Outcomes
<1>6. takes + late + SetupAttempts * faults = 0
  <2>1. SetupAttempts \in Nat
    BY ThreadsAssumption
  <2>2. SetupAttempts * 0 = 0
    BY <2>1
  <2> QED
    BY <1>2, <2>2
<1> QED
  BY <1>2, <1>3, <1>5, <1>6 DEF Sequential!Init, Outcomes

LEMMA NextImplements == FullInv /\ FullInv' /\ [Next]_vars => [Sequential!Next]_Sequential!vars
<1> SUFFICES ASSUME FullInv, FullInv', [Next]_vars PROVE [Sequential!Next]_Sequential!vars
  OBVIOUS
<1>1. CASE UNCHANGED vars
  <2>1. UNCHANGED <<list, ret, unlinked, links, result, takes, late, faults>>
    BY <1>1 DEF vars, kernel, threads, control, bounds
  <2>2. Outcomes' = Outcomes /\ Troubles' = Troubles
    BY <2>1, OutcomesStay DEF Troubles
  <2> QED
    BY <2>1, <2>2 DEF Sequential!vars, Outcomes, Troubles
<1> QED
  BY <1>1, WorkerImplements, MainImplements, ExternalImplements DEF Next

(* However many threads there are, and whatever other processes, ueventd    *)
(* and failures do, what they do together is what one thread would do, step *)
(* by step: an APEX is settled once, none fails before all its attempts were *)
(* made in vain for a cause each, shared libraries are contributed in order, *)
(* and the result is an error exactly if something failed                   *)
(* (ActivateApexPackages, ActivateApexWorker).                              *)
THEOREM ThreadsAreOne == Spec => ImplementsActivation
<1>1. Spec => []FullInv
  BY InitFull, NextFull, PTL DEF Spec
<1>2. Spec => Sequential!Spec
  BY <1>1, InitImplements, NextImplements, PTL DEF Spec, Sequential!Spec
<1> QED
  BY <1>2 DEF ImplementsActivation
=============================================================================
