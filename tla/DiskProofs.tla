----------------------------- MODULE DiskProofs -----------------------------
(***************************************************************************)
(* Proofs about module Disk for any number of threads, any disks with any  *)
(* partition tables, and any width of a sector number.                     *)
(***************************************************************************)
EXTENDS Disk, TLAPS

\* Zenon proves most steps; the others say which prover they need.
USE Zenon

T == Thread \cup {main}

Active == {"select", "issue", "wait", "busy", "release"}

Label == {"idle", "lock"} \cup Active

\* A block device that lies on its disk.
BlockDevice ==
  {b \in [dev : Disk, start : Nat, size : Nat,
          type : {"raw", "filesys", "swap", "foreign"}] :
     b.start + b.size <= Capacity[b.dev]}

Activation ==
  [dev : Disk, sector : 0 .. M - 1, primary : 0 .. M - 1,
   pt : partition_table \cup {NULL}, i : Nat \ {0}]

Types ==
  /\ pc \in [T -> Label]
  /\ request = [t \in T |-> request[t]] /\ buf = [t \in T |-> buf[t]]
  /\ expecting_interrupt \in BOOLEAN /\ completion_wait \in Nat
  /\ busy \in BOOLEAN /\ drq \in BOOLEAN /\ interrupt \in BOOLEAN
  /\ Image(content)
  /\ all_blocks \in Seq(BlockDevice)
  /\ frames \in Seq(Activation)
  /\ kernel \in {"up", "failed"}

\* Threads use the disks when the main thread has left partition_scan.
Booting ==
  /\ ~Booted => \A t \in Thread : pc[t] = "idle"
  /\ pc[main] # "idle" =>
       \/ /\ request[main].op = "identify" /\ pc[main] # "lock"
          /\ frames = <<>> /\ next_dev \in Disk
       \/ request[main].op = "read" /\ frames # <<>>

\* Every call in progress is about a sector of its disk, the one that the
\* partition stands for.
Legal(t) ==
  /\ request[t].op \in {"identify", "read", "write"}
  /\ request[t].op = "identify" => t = main
  /\ request[t].op = "write" => t # main /\ buf[t] \in Value
  /\ request[t].op # "identify" =>
       /\ request[t].dev \in Disk
       /\ request[t].sector \in 0 .. Capacity[request[t].dev] - 1
       /\ request[t].dev = request[t].block.dev
       /\ request[t].sector = request[t].block.start + request[t].at

Requested == \A t \in T : pc[t] # "idle" => Legal(t)

\* The lock of the channel; ide_init identifies without it.
Locked ==
  \A t \in T : pc[t] \in Active /\ request[t].op # "identify" => lock = t

\* The controller is quiet but for the command of a thread that waits.
Quiet == ~busy /\ ~drq /\ ~interrupt /\ completion_wait = 0

OnlyForAWaiter == (\A t \in T : pc[t] \notin {"wait", "busy"}) => Quiet

\* What the controller does for the thread that uses it.
OnDisk(t) == content[request[t].dev][request[t].sector]

Selected ==
  \A t \in T : pc[t] \in {"issue", "wait", "busy"} =>
    device = request[t].dev /\ sector = request[t].sector

\* A thread that sleeps in sema_down: its command, then the interrupt, then
\* the unit of completion_wait, one at a time.
Waiting ==
  \A t \in T : pc[t] = "wait" =>
    /\ busy => ~drq /\ ~interrupt /\ completion_wait = 0
    /\ interrupt => completion_wait = 0
    /\ completion_wait <= 1
    /\ request[t].op = "write" =>
         /\ command = "store" /\ ~drq
         /\ IF busy THEN data = buf[t] ELSE OnDisk(t) = buf[t]
    /\ request[t].op # "write" => command = request[t].op
    /\ request[t].op = "read" /\ ~busy /\ drq => data = OnDisk(t)

\* A thread in wait_while_busy: after the interrupt of a read, or before the
\* data of a write.
Polling ==
  \A t \in T : pc[t] = "busy" =>
    /\ request[t].op = "write" =>
         /\ command = "write"
         /\ busy \/ drq => ~interrupt /\ completion_wait = 0
         /\ ~busy \/ ~drq
         /\ interrupt => completion_wait = 0
    /\ request[t].op # "write" => ~busy /\ ~interrupt /\ completion_wait = 0
    /\ request[t].op = "read" /\ drq => data = OnDisk(t)

Moved ==
  \A t \in T : pc[t] = "release" /\ request[t].op # "identify" => buf[t] = OnDisk(t)

\* What the invariant says of the channel and of its users, as opposed to the
\* scan of the partition tables.
Channel ==
  /\ Requested /\ Locked /\ OnlyForAWaiter
  /\ Selected /\ Waiting /\ Polling /\ Moved

IInv == Types /\ Booting /\ Channel

\* A sector number that has not overflowed.
LEMMA ModSmall ==
  ASSUME NEW m \in Nat \ {0}, NEW a \in 0 .. m - 1
  PROVE  a % m = a
BY SMT

\* One that has overflowed once.
LEMMA ModOver ==
  ASSUME NEW m \in Nat \ {0}, NEW a \in m .. m + m - 1
  PROVE  a % m = a - m
BY SMT

\* Any sum of sector numbers is a sector number.
LEMMA ModRange ==
  ASSUME NEW m \in Nat \ {0}, NEW a \in Nat
  PROVE  a % m \in 0 .. m - 1
BY SMT

\* found_partition: what passes its tests lies on the device, although the sum
\* it computes may have overflowed.
LEMMA FitsInside ==
  ASSUME NEW d \in Disk, NEW start \in 0 .. M - 1, NEW size \in 0 .. M - 1,
         Fits(d, start, size)
  PROVE  start + size <= Capacity[d]
<1> USE DiskAssumption DEF Fits
<1>1. CASE start + size < M
  BY <1>1, ModSmall, SMT
<1>2. CASE start + size >= M
  <2>1. (start + size) % M = start + size - M
    BY <1>2, ModOver, SMT
  <2>2. QED
    BY <2>1, SMT
<1>3. QED
  BY <1>1, <1>2, SMT

\* A call of read_partition_table: the stack of activations grows.
LEMMA PushType ==
  ASSUME NEW S, NEW stack \in Seq(S), NEW f \in S
  PROVE  Push(stack, f) \in Seq(S) /\ Push(stack, f) # <<>>
BY SMT DEF Push

\* Its return, and the activation that runs.
LEMMA TopType ==
  ASSUME NEW S, NEW stack \in Seq(S), stack # <<>>
  PROVE  Head(stack) \in S /\ Tail(stack) \in Seq(S) /\ stack[1] = Head(stack)
BY SMT

\* A block device is added to the list of all.
LEMMA AppendType ==
  ASSUME NEW S, NEW list \in Seq(S), NEW e \in S
  PROVE  Append(list, e) \in Seq(S)
BY SMT

\* The activation that runs changes a variable.
LEMMA ReplaceTop ==
  ASSUME NEW S, NEW stack \in Seq(S), stack # <<>>, NEW f \in S
  PROVE  [stack EXCEPT ![1] = f] \in Seq(S) /\ [stack EXCEPT ![1] = f] # <<>>
BY SMT

\* One thread at a time uses the controller.
LEMMA OneActive ==
  ASSUME Types, Booting, Requested, Locked, NEW t \in T, NEW u \in T,
         pc[t] \in Active, pc[u] \in Active
  PROVE  t = u
<1> USE DiskAssumption DEF T, Active, Booting, Booted, Requested, Legal, Locked
<1>1. CASE t = main \/ u = main
  BY <1>1
<1>2. CASE t # main /\ u # main
  BY <1>2
<1>3. QED
  BY <1>1, <1>2

\* A step of the scan that does not use the disk.
LEMMA SameChannel ==
  ASSUME Channel, UNCHANGED <<channel, controller, content, pc, request, buf>>
  PROVE  Channel'
<1> USE DEF Channel, channel, controller
<1>1. Requested' /\ Locked' /\ OnlyForAWaiter' /\ Selected'
  BY DEF Requested, Legal, Locked, OnlyForAWaiter, Quiet, Selected
<1>2. Waiting' /\ Polling' /\ Moved'
  BY DEF Waiting, Polling, Moved, OnDisk
<1>3. QED
  BY <1>1, <1>2

\* A call of block_read or block_write that check_sector lets pass.
LEMMA CallBegins ==
  ASSUME Types, Channel, NEW t \in T, NEW op \in {"read", "write"}, NEW b, NEW s, NEW v,
         op = "write" => t # main /\ v \in Value,
         b.dev \in Disk, b.start + s \in 0 .. Capacity[b.dev] - 1, s < b.size,
         pc[t] = "idle", buf' = [buf EXCEPT ![t] = v], Access(t, op, b, s)
  PROVE  /\ pc' = [pc EXCEPT ![t] = "lock"]
         /\ request' = [u \in T |-> request'[u]] /\ request'[t].op = op
         /\ UNCHANGED <<channel, controller, content, all_blocks, kernel>>
         /\ Channel'
<1> DEFINE r == [op |-> op, dev |-> b.dev, sector |-> b.start + s, block |-> b, at |-> s]
<1>1. Inside(b, s) /\ SectorOf(b, s) = b.start + s
  <2>1. (b.start + s) % M = b.start + s
    BY ModSmall, DiskAssumption, SMT
  <2>2. QED
    BY <2>1, DiskAssumption, SMT DEF Inside, SectorOf
<1>2. /\ pc' = [pc EXCEPT ![t] = "lock"] /\ request' = [request EXCEPT ![t] = r]
      /\ UNCHANGED <<channel, controller, content, all_blocks, kernel>>
  BY <1>1 DEF Access, Goto
<1>3. /\ r.op = op /\ r.dev = b.dev /\ r.sector = b.start + s /\ r.block = b /\ r.at = s
  OBVIOUS
<1> HIDE DEF r
<1>4. /\ pc'[t] = "lock" /\ buf'[t] = v /\ request'[t] = r
      /\ request' = [u \in T |-> request'[u]]
  BY <1>2 DEF Types
<1>5. \A u \in T : u # t => pc'[u] = pc[u] /\ buf'[u] = buf[u] /\ request'[u] = request[u]
  BY <1>2 DEF Types
<1>6. Requested'
  <2>1. Legal(t)'
    BY <1>3, <1>4 DEF Legal
  <2>2. ASSUME NEW u \in T, u # t, pc'[u] # "idle" PROVE Legal(u)'
    BY <1>5, <2>2 DEF Channel, Requested, Legal
  <2>3. QED
    BY <2>1, <2>2 DEF Requested
<1>7. \A u \in T : pc'[u] \in Active =>
        /\ pc'[u] = pc[u] /\ buf'[u] = buf[u] /\ request'[u] = request[u]
        /\ OnDisk(u)' = OnDisk(u)
  BY <1>2, <1>4, <1>5 DEF OnDisk, Active
<1> USE <1>2, <1>7 DEF Channel, channel, controller, Active
<1>8. Locked' /\ Selected' /\ Moved'
  BY SMT DEF Locked, Selected, Moved
<1>9. OnlyForAWaiter'
  BY <1>4, <1>5 DEF OnlyForAWaiter, Quiet
<1>10. Waiting' /\ Polling'
  BY SMT DEF Waiting, Polling
<1>11. QED
  BY <1>3, <1>4, <1>6, <1>8, <1>9, <1>10

\* The initial state satisfies the invariant.
LEMMA InitIInv == Init => IInv
<1> SUFFICES ASSUME Init PROVE IInv
  OBVIOUS
<1> USE DiskAssumption DEF Init, T
<1>1. Image(content)
  OBVIOUS
<1>2. all_blocks \in Seq(BlockDevice) /\ frames \in Seq(Activation)
  BY SMT
<1>3. Types
  BY <1>1, <1>2 DEF Types, Label
<1>4. Booting /\ Requested /\ Locked
  BY DEF Booting, Requested, Locked, Active
<1>5. OnlyForAWaiter /\ Selected /\ Waiting /\ Polling /\ Moved
  BY DEF OnlyForAWaiter, Quiet, Selected, Waiting, Polling, Moved
<1>6. QED
  BY <1>3, <1>4, <1>5 DEF IInv, Channel

\* The invariant is inductive.
LEMMA StepIInv == IInv /\ [Next]_vars => IInv'
<1> SUFFICES ASSUME IInv, [Next]_vars PROVE IInv'
  OBVIOUS
<1>0. \A t, u \in T : pc[t] \in Active /\ pc[u] \in Active => t = u
  BY OneActive DEF IInv, Channel
<1>a. main \notin Thread /\ NULL \notin Thread /\ NULL # main
  BY DiskAssumption
<1>b. /\ pc \in [T -> Label] /\ request = [t \in T |-> request[t]]
      /\ buf = [t \in T |-> buf[t]] /\ completion_wait \in Nat
  BY DEF IInv, Types
<1> USE <1>0, <1>a, <1>b DEF IInv, Channel, T, Up, At, Goto, Op, Active
<1>1. CASE UNCHANGED vars
  BY <1>1, ZenonT(60)
  DEF vars, channel, controller, scan, Types, Label, Booting, Booted, Requested, Legal, Locked,
      OnlyForAWaiter, Quiet, Selected, Waiting, Polling, OnDisk, Moved
<1>2. ASSUME NEW t \in T, Acquire(t) PROVE IInv'
  <2> USE <1>2 DEF Acquire
  <2>1. Types'
    BY ZenonT(30) DEF Types, Label, channel, controller, scan
  <2>2. Booting'
    BY DEF Booting, Booted, channel, controller, scan
  <2>3. Requested'
    BY DEF Requested, Legal, channel, controller, scan
  <2>4. Locked'
    BY DEF Locked, channel, controller, scan
  <2>5. OnlyForAWaiter'
    BY DEF OnlyForAWaiter, Quiet, channel, controller, scan
  <2>6. Selected'
    BY DEF Selected, channel, controller, scan
  <2>7. Waiting'
    BY DEF Waiting, OnDisk, channel, controller, scan
  <2>8. Polling'
    BY DEF Polling, OnDisk, channel, controller, scan
  <2>9. Moved'
    BY DEF Moved, OnDisk, channel, controller, scan
  <2>10. QED
    BY <2>1, <2>2, <2>3, <2>4, <2>5, <2>6, <2>7, <2>8, <2>9
<1>3. ASSUME NEW t \in T, select_sector(t) PROVE IInv'
  <2> USE <1>3 DEF select_sector
  <2>1. Types'
    BY DEF Types, Label, channel, controller, scan
  <2>2. Booting'
    BY DEF Booting, Booted, channel, controller, scan
  <2>3. Requested'
    BY DEF Requested, Legal, channel, controller, scan
  <2>4. Locked'
    BY DEF Locked, channel, controller, scan
  <2>5. OnlyForAWaiter'
    BY DEF OnlyForAWaiter, Quiet, channel, controller, scan
  <2>6. Selected'
    BY DEF Selected, channel, controller, scan
  <2>7. Waiting'
    BY DEF Waiting, OnDisk, channel, controller, scan
  <2>8. Polling'
    BY DEF Polling, OnDisk, channel, controller, scan
  <2>9. Moved'
    BY DEF Moved, OnDisk, channel, controller, scan
  <2>10. QED
    BY <2>1, <2>2, <2>3, <2>4, <2>5, <2>6, <2>7, <2>8, <2>9
<1>4. ASSUME NEW t \in T, issue_pio_command(t) PROVE IInv'
  <2> USE <1>4 DEF issue_pio_command
  <2> USE DEF AfterCommand, ExpectInterrupt
  <2>1. Types'
    BY DEF Types, Label, channel, controller, scan
  <2>2. Booting'
    BY DEF Booting, Booted, channel, controller, scan
  <2>3. Requested'
    BY DEF Requested, Legal, channel, controller, scan
  <2>4. Locked'
    BY DEF Locked, channel, controller, scan
  <2>5. OnlyForAWaiter'
    BY DEF OnlyForAWaiter, Quiet, channel, controller, scan
  <2>6. Selected'
    BY DEF Selected, channel, controller, scan
  <2>7. Waiting'
    BY SMTT(30) DEF Waiting, OnDisk, OnlyForAWaiter, Quiet, Requested, Legal, channel,
       controller, scan
  <2>8. Polling'
    BY DEF Polling, OnDisk, OnlyForAWaiter, Quiet, Requested, Legal, channel,
       controller, scan
  <2>9. Moved'
    BY DEF Moved, OnDisk, channel, controller, scan
  <2>10. QED
    BY <2>1, <2>2, <2>3, <2>4, <2>5, <2>6, <2>7, <2>8, <2>9
<1>5. ASSUME NEW t \in T, Completed(t) PROVE IInv'
  <2> USE <1>5 DEF Completed
  <2>0. /\ ~busy /\ ~interrupt /\ completion_wait' = 0
        /\ Op(t) = "write" => ~drq /\ buf[t] = OnDisk(t)
        /\ Op(t) = "read" /\ drq => data = OnDisk(t)
    <3>1. /\ busy \/ interrupt => completion_wait = 0
          /\ completion_wait <= 1
      BY DEF Waiting
    <3>2. completion_wait # 0 /\ completion_wait' = 0
      BY <3>1, SMT
    <3>3. QED
      BY <3>1, <3>2 DEF Waiting
  <2>1. Types'
    BY SMT DEF Types, Label, channel, controller, scan
  <2>2. Booting'
    BY DEF Booting, Booted, channel, controller, scan
  <2>3. Requested'
    BY DEF Requested, Legal, channel, controller, scan
  <2>4. Locked'
    BY DEF Locked, channel, controller, scan
  <2>5. OnlyForAWaiter'
    BY <2>0 DEF OnlyForAWaiter, Quiet, Types, controller
  <2>6. Selected'
    BY DEF Selected, channel, controller, scan
  <2>7. Waiting'
    BY DEF Waiting, OnDisk, channel, controller, scan
  <2>8. Polling'
    BY <2>0 DEF Polling, OnDisk, Types, controller
  <2>9. Moved'
    BY <2>0 DEF Moved, OnDisk, Types, Requested, Legal, controller
  <2>10. QED
    BY <2>1, <2>2, <2>3, <2>4, <2>5, <2>6, <2>7, <2>8, <2>9
<1>6. ASSUME NEW t \in T, Transfer(t) PROVE IInv'
  <2> USE <1>6 DEF Transfer
  <2>0. /\ ~interrupt /\ completion_wait = 0
        /\ Op(t) = "read" => data = OnDisk(t)
        /\ Op(t) \in {"identify", "read", "write"}
    BY DEF Types, Polling, Requested, Legal
  <2>1. Types'
    BY DEF Types, Label, channel, controller, scan
  <2>2. Booting'
    BY DEF Booting, Booted, channel, controller, scan
  <2>3. Requested'
    BY DEF Requested, Legal, channel, controller, scan
  <2>4. Locked'
    BY DEF Locked, channel, controller, scan
  <2>5. OnlyForAWaiter'
    BY DEF OnlyForAWaiter, Quiet, Polling, Requested, Legal, channel,
       controller, scan
  <2>6. Selected'
    BY DEF Selected, channel, controller, scan
  <2>7. Waiting'
    BY <2>0, SMTT(30) DEF Waiting, OnDisk, Types, channel
  <2>8. Polling'
    BY DEF Polling, OnDisk, channel, controller, scan
  <2>9. Moved'
    BY <2>0 DEF Moved, OnDisk, Types
  <2>10. QED
    BY <2>1, <2>2, <2>3, <2>4, <2>5, <2>6, <2>7, <2>8, <2>9
<1>7. ASSUME NEW t \in T, TransferFails(t) PROVE IInv'
  <2> USE <1>7 DEF TransferFails
  <2>1. Types'
    BY DEF Types, Label, channel, controller, scan
  <2>2. Booting'
    BY DEF Booting, Booted, Requested, Legal, channel, controller, scan
  <2>3. Requested'
    BY DEF Requested, Legal, channel, controller, scan
  <2>4. Locked'
    BY DEF Locked, channel, controller, scan
  <2>5. OnlyForAWaiter'
    BY DEF OnlyForAWaiter, Quiet, Polling, Requested, Legal, channel,
       controller, scan
  <2>6. Selected'
    BY DEF Selected, channel, controller, scan
  <2>7. Waiting'
    BY DEF Waiting, OnDisk, channel, controller, scan
  <2>8. Polling'
    BY DEF Polling, OnDisk, channel, controller, scan
  <2>9. Moved'
    BY DEF Moved, OnDisk, channel, controller, scan
  <2>10. QED
    BY <2>1, <2>2, <2>3, <2>4, <2>5, <2>6, <2>7, <2>8, <2>9
<1>8. ASSUME NEW t \in T, Release(t) PROVE IInv'
  <2> USE <1>8 DEF Release
  <2>1. Types'
    BY DEF Types, Label, channel, controller, scan
  <2>2. Booting'
    BY DEF Booting, Booted, channel, controller, scan
  <2>3. Requested'
    BY DEF Requested, Legal, channel, controller, scan
  <2>4. Locked'
    BY DEF Locked, channel, controller, scan
  <2>5. OnlyForAWaiter'
    BY DEF OnlyForAWaiter, Quiet, channel, controller, scan
  <2>6. Selected'
    BY DEF Selected, channel, controller, scan
  <2>7. Waiting'
    BY DEF Waiting, OnDisk, channel, controller, scan
  <2>8. Polling'
    BY DEF Polling, OnDisk, channel, controller, scan
  <2>9. Moved'
    BY DEF Moved, OnDisk, channel, controller, scan
  <2>10. QED
    BY <2>1, <2>2, <2>3, <2>4, <2>5, <2>6, <2>7, <2>8, <2>9
<1>9. ASSUME NEW t \in Thread, NEW b \in Blocks, NEW s \in 0 .. b.size - 1,
             block_read(t, b, s) PROVE IInv'
  <2> USE <1>9
  <2>1. b \in BlockDevice
    BY SMT DEF Types, Blocks
  <2>2. b.dev \in Disk /\ b.start + s \in 0 .. Capacity[b.dev] - 1 /\ s < b.size
    BY <2>1, DiskAssumption, SMT DEF BlockDevice
  <2>3. /\ pc[t] = "idle" /\ buf' = [buf EXCEPT ![t] = buf[t]] /\ Access(t, "read", b, s)
        /\ Booted /\ UNCHANGED scan
    BY DEF block_read
  <2>4. /\ pc' = [pc EXCEPT ![t] = "lock"] /\ request' = [u \in T |-> request'[u]]
        /\ UNCHANGED <<channel, controller, content, all_blocks, kernel>> /\ Channel'
    BY <2>2, <2>3, CallBegins
  <2>5. Types'
    BY <2>3, <2>4 DEF Types, Label, scan, channel, controller
  <2>6. Booting'
    BY <2>3, <2>4 DEF Booting, Booted, scan
  <2>7. QED
    BY <2>4, <2>5, <2>6
<1>10. ASSUME NEW t \in Thread, NEW b \in Blocks, NEW s \in 0 .. b.size - 1,
             NEW v \in Value, block_write(t, b, s, v) PROVE IInv'
  <2> USE <1>10
  <2>1. b \in BlockDevice
    BY SMT DEF Types, Blocks
  <2>2. b.dev \in Disk /\ b.start + s \in 0 .. Capacity[b.dev] - 1 /\ s < b.size
    BY <2>1, DiskAssumption, SMT DEF BlockDevice
  <2>3. /\ pc[t] = "idle" /\ buf' = [buf EXCEPT ![t] = v] /\ Access(t, "write", b, s)
        /\ Booted /\ UNCHANGED scan
    BY DEF block_write
  <2>4. /\ pc' = [pc EXCEPT ![t] = "lock"] /\ request' = [u \in T |-> request'[u]]
        /\ UNCHANGED <<channel, controller, content, all_blocks, kernel>> /\ Channel'
    BY <2>2, <2>3, CallBegins
  <2>5. Types'
    BY <2>3, <2>4 DEF Types, Label, scan, channel, controller
  <2>6. Booting'
    BY <2>3, <2>4 DEF Booting, Booted, scan
  <2>7. QED
    BY <2>4, <2>5, <2>6
<1>11. ASSUME identify_ata_device PROVE IInv'
  <2> USE <1>11 DEF identify_ata_device, Idle
  <2>1. Types'
    <3>1. pc' \in [T -> Label]
      BY DEF Types, Label
    <3>2. request' = [t \in T |-> request'[t]]
      <4> DEFINE r == [op |-> "identify", dev |-> next_dev, sector |-> 0,
                       block |-> NULL, at |-> 0]
      <4>1. request' = [request EXCEPT ![main] = r]
        OBVIOUS
      <4> HIDE DEF r
      <4>2. QED
        BY <4>1 DEF Types
    <3>3. QED
      BY <3>1, <3>2 DEF Types, scan, channel, controller
  <2>2. Booting'
    BY DEF Booting, Booted, channel, controller, scan
  <2>3. Requested'
    BY DEF Requested, Legal, channel, controller, scan
  <2>4. Locked'
    BY DEF Locked, channel, controller, scan
  <2>5. OnlyForAWaiter'
    BY DEF OnlyForAWaiter, Quiet, Types, channel, controller
  <2>6. Selected'
    BY DEF Selected, channel, controller, scan
  <2>7. Waiting'
    BY DEF Waiting, OnDisk, channel, controller, scan
  <2>8. Polling'
    BY DEF Polling, OnDisk, channel, controller, scan
  <2>9. Moved'
    BY DEF Moved, OnDisk, channel, controller, scan
  <2>10. QED
    BY <2>1, <2>2, <2>3, <2>4, <2>5, <2>6, <2>7, <2>8, <2>9
<1>12. ASSUME Identified PROVE IInv'
  <2> USE <1>12 DEF Identified
  <2>0. pc[main] # "idle" /\ frames = <<>> /\ next_dev \in Disk
    BY DEF Booting
  <2>1. Types'
    <3>1. Raw(next_dev) \in BlockDevice
      BY <2>0, DiskAssumption, SMT DEF Raw, BlockDevice
    <3>2. Frame(next_dev, 0, 0) \in Activation
      BY <2>0, DiskAssumption, SMT DEF Frame, Activation
    <3>3. Push(frames, Frame(next_dev, 0, 0)) \in Seq(Activation)
      BY <3>2, PushType DEF Types
    <3>4. all_blocks' \in Seq(BlockDevice) /\ frames' \in Seq(Activation)
      <4>1. Append(all_blocks, Raw(next_dev)) \in Seq(BlockDevice)
        BY <3>1, AppendType DEF Types
      <4>2. QED
        BY <4>1, <3>3 DEF Types
    <3>5. QED
      BY <3>4 DEF Types, Label, channel, controller
  <2>2. Booting'
    BY DEF Booting, Booted, channel, controller, scan
  <2>3. Requested'
    BY DEF Requested, Legal, channel, controller, scan
  <2>4. Locked'
    BY DEF Locked, channel, controller, scan
  <2>5. OnlyForAWaiter'
    BY DEF OnlyForAWaiter, Quiet, channel, controller, scan
  <2>6. Selected'
    BY DEF Selected, channel, controller, scan
  <2>7. Waiting'
    BY DEF Waiting, OnDisk, channel, controller, scan
  <2>8. Polling'
    BY DEF Polling, OnDisk, channel, controller, scan
  <2>9. Moved'
    BY DEF Moved, OnDisk, channel, controller, scan
  <2>10. QED
    BY <2>1, <2>2, <2>3, <2>4, <2>5, <2>6, <2>7, <2>8, <2>9
<1>13. ASSUME ReadTable PROVE IInv'
  <2> USE <1>13 DEF ReadTable, Idle
  <2>1. frames # <<>> /\ Top \in Activation /\ Tail(frames) \in Seq(Activation)
    BY TopType DEF Types, Top
  <2>2. CASE Top.sector >= Capacity[Top.dev]
    <3>1. /\ frames' = Tail(frames)
          /\ UNCHANGED <<channel, controller, content, all_blocks, pc, request, kernel>>
          /\ UNCHANGED <<buf, next_dev>>
      BY <2>2
    <3>2. Types' /\ Booting'
      BY <2>1, <3>1 DEF Types, Booting, Booted, channel, controller
    <3>3. Channel'
      BY <3>1, SameChannel
    <3>4. QED
      BY <3>2, <3>3
  <2>3. CASE Top.sector < Capacity[Top.dev]
    <3>1. /\ Raw(Top.dev).start + 0 \in 0 .. Capacity[Raw(Top.dev).dev] - 1
          /\ Raw(Top.dev).dev \in Disk /\ 0 < Raw(Top.dev).size
      BY <2>1, <2>3, DiskAssumption, SMT DEF Activation, Raw
    <3>2. Access(main, "read", Raw(Top.dev), 0) /\ UNCHANGED <<frames, buf, next_dev>>
      <4>1. Top.dev \in Disk /\ Capacity[Top.dev] \in Nat /\ Top.sector \in Nat
        BY <2>1, DiskAssumption, SMT DEF Activation
      <4>2. QED
        BY <2>3, <4>1, SMT
    <3>3. /\ pc' = [pc EXCEPT ![main] = "lock"] /\ request' = [u \in T |-> request'[u]]
          /\ request'[main].op = "read"
          /\ UNCHANGED <<channel, controller, content, all_blocks, kernel>> /\ Channel'
      <4>1. buf' = [buf EXCEPT ![main] = buf[main]] /\ pc[main] = "idle"
        BY <3>2
      <4>2. QED
        BY <3>1, <3>2, <4>1, CallBegins
    <3>4. Types'
      BY <3>2, <3>3 DEF Types, Label, channel, controller
    <3>5. Booting'
      BY <2>1, <3>2, <3>3 DEF Booting, Booted
    <3>6. QED
      BY <3>3, <3>4, <3>5
  <2>4. QED
    BY <2>1, <2>2, <2>3, DiskAssumption, SMT DEF Activation
<1>14. ASSUME TableRead PROVE IInv'
  <2> USE <1>14 DEF TableRead
  <2>1. Types'
    <3>1. frames # <<>> /\ frames[1] \in Activation /\ Tail(frames) \in Seq(Activation)
      BY TopType, SMT DEF Booting, Types
    <3>2. buf[main] \in Value \cup partition_table
      <4>1. /\ buf[main] = OnDisk(main) /\ request[main].dev \in Disk
            /\ request[main].sector \in 0 .. Capacity[request[main].dev] - 1
        BY DEF Moved, Requested, Legal
      <4>2. QED
        BY <4>1 DEF OnDisk, Types, Image
    <3>3. ASSUME buf[main] \notin Value
          PROVE  [frames EXCEPT ![1].pt = buf[main]] \in Seq(Activation)
      <4>1. [frames[1] EXCEPT !.pt = buf[main]] \in Activation
        BY <3>1, <3>2, <3>3 DEF Activation
      <4>2. QED
        BY <3>1, <4>1, ReplaceTop DEF Types
    <3>4. frames' \in Seq(Activation)
      BY <3>1, <3>3
    <3>5. pc' \in [T -> Label]
      BY DEF Types, Label
    <3>6. QED
      BY <3>4, <3>5 DEF Types, controller
  <2>2. Booting'
    BY DEF Booting, Booted, channel, controller, scan
  <2>3. Requested'
    BY DEF Requested, Legal, channel, controller, scan
  <2>4. Locked'
    BY DEF Locked, channel, controller, scan
  <2>5. OnlyForAWaiter'
    BY DEF OnlyForAWaiter, Quiet, channel, controller, scan
  <2>6. Selected'
    BY DEF Selected, channel, controller, scan
  <2>7. Waiting'
    BY DEF Waiting, OnDisk, channel, controller, scan
  <2>8. Polling'
    BY DEF Polling, OnDisk, channel, controller, scan
  <2>9. Moved'
    BY DEF Moved, OnDisk, channel, controller, scan
  <2>10. QED
    BY <2>1, <2>2, <2>3, <2>4, <2>5, <2>6, <2>7, <2>8, <2>9
<1>15. ASSUME ParseEntry PROVE IInv'
  <2> USE <1>15 DEF ParseEntry, Idle, InTable
  <2>1. Types'
    <3> DEFINE e == Top.pt[Top.i]
    <3>1. /\ frames # <<>> /\ Top \in Activation /\ frames[1] = Top
          /\ Parsed \in Seq(Activation)
      <4>1. frames # <<>> /\ Top \in Activation /\ frames[1] = Top
        BY TopType DEF Top, Types
      <4>2. [frames[1] EXCEPT !.i = @ + 1] \in Activation
        BY <4>1, SMT DEF Activation
      <4>3. QED
        BY <4>1, <4>2, ReplaceTop DEF Parsed, Types
    <3>2. e \in partition_table_entry
      BY <3>1, SMT DEF Activation, partition_table
    <3>3. /\ e.offset \in 0 .. M - 1 /\ e.size \in 0 .. M - 1
          /\ Top.dev \in Disk /\ Top.sector \in 0 .. M - 1 /\ Top.primary \in 0 .. M - 1
          /\ e.type \in {"empty", "extended", "filesys", "swap", "foreign"}
      BY <3>1, <3>2 DEF Activation, partition_table_entry
    <3> HIDE DEF e
    <3>4. frames' \in Seq(Activation)
      <4> DEFINE f == IF Top.sector = 0 THEN Frame(Top.dev, e.offset, e.offset)
                      ELSE Frame(Top.dev, (e.offset + Top.primary) % M, Top.primary)
      <4>1. f \in Activation
        BY <3>3, ModRange, DiskAssumption, SMT DEF Frame, Activation
      <4>2. Push(Parsed, f) \in Seq(Activation)
        BY <3>1, <4>1, PushType
      <4>3. frames' \in {Parsed, Push(Parsed, f)}
        BY DEF e, found_partition
      <4>4. QED
        BY <3>1, <4>2, <4>3
    <3>5. all_blocks' \in Seq(BlockDevice)
      <4> DEFINE start == (e.offset + Top.sector) % M
                 b == [dev |-> Top.dev, start |-> start, size |-> e.size, type |-> e.type]
      <4>1. start \in 0 .. M - 1
        <5>1. e.offset + Top.sector \in Nat
          BY <3>3, SMT
        <5>2. QED
          BY <5>1, ModRange, DiskAssumption
      <4>2. \/ all_blocks' = all_blocks
            \/ /\ Fits(Top.dev, start, e.size) /\ all_blocks' = Append(all_blocks, b)
               /\ e.type \in {"filesys", "swap", "foreign"}
        BY <3>3 DEF e, found_partition
      <4>3. ASSUME Fits(Top.dev, start, e.size), e.type \in {"filesys", "swap", "foreign"}
            PROVE  Append(all_blocks, b) \in Seq(BlockDevice)
        <5>1. start + e.size <= Capacity[Top.dev]
          BY <3>3, <4>1, <4>3, FitsInside
        <5>2. b \in BlockDevice
          BY <3>3, <4>1, <4>3, <5>1, SMTT(30) DEF BlockDevice
        <5>3. QED
          BY <5>2, AppendType DEF Types
      <4>4. QED
        BY <4>2, <4>3 DEF Types
    <3>6. QED
      BY <3>4, <3>5 DEF Types, channel, controller
  <2>2. Booting'
    BY DEF Booting, Booted, channel, controller, scan
  <2>3. Channel'
    BY SameChannel
  <2>4. QED
    BY <2>1, <2>2, <2>3
<1>16. ASSUME TableDone PROVE IInv'
  <2> USE <1>16 DEF TableDone, Idle, InTable
  <2>1. Types'
    <3>1. frames' \in Seq(Activation)
      BY TopType DEF Types
    <3>2. QED
      BY <3>1 DEF Types, channel, controller
  <2>2. Booting'
    BY DEF Booting, Booted
  <2>3. Channel'
    BY SameChannel
  <2>4. QED
    BY <2>1, <2>2, <2>3
<1>17. ASSUME interrupt_handler PROVE IInv'
  <2> USE <1>17 DEF interrupt_handler
  <2>0. completion_wait' \in Nat /\ completion_wait' <= completion_wait + 1
    BY SMT DEF Types
  <2>1. Types'
    BY <2>0 DEF Types, scan
  <2>2. Booting'
    BY DEF Booting, Booted, channel, controller, scan
  <2>3. Requested'
    BY DEF Requested, Legal, channel, controller, scan
  <2>4. Locked'
    BY DEF Locked, channel, controller, scan
  <2>5. OnlyForAWaiter'
    BY DEF OnlyForAWaiter, Quiet, channel, controller, scan
  <2>6. Selected'
    BY DEF Selected, channel, controller, scan
  <2>7. Waiting'
    <3>1. \A t \in T : pc[t] = "wait" => ~busy /\ completion_wait = 0
      BY DEF Waiting
    <3>2. \A t \in T : pc[t] = "wait" => completion_wait' <= 1
      BY <2>0, <3>1, SMT
    <3>3. QED
      BY <3>1, <3>2 DEF Waiting, OnDisk, Types
  <2>8. Polling'
    BY DEF Polling, OnDisk, channel, controller, scan
  <2>9. Moved'
    BY DEF Moved, OnDisk, channel, controller, scan
  <2>10. QED
    BY <2>1, <2>2, <2>3, <2>4, <2>5, <2>6, <2>7, <2>8, <2>9
<1>18. ASSUME Ready PROVE IInv'
  <2> USE <1>18 DEF Ready
  <2>0. PICK t \in T : pc[t] \in {"wait", "busy"}
    BY DEF OnlyForAWaiter, Quiet
  <2>a. /\ command = "store" => /\ pc[t] = "wait" /\ Op(t) = "write" /\ data = buf[t]
                                /\ device \in Disk /\ sector \in 0 .. Capacity[device] - 1
                                /\ data \in Value
        /\ device = request[t].dev /\ sector = request[t].sector
        /\ pc[t] = "wait" => command = IF Op(t) = "write" THEN "store" ELSE Op(t)
        /\ ~interrupt /\ completion_wait = 0 /\ ~drq
        /\ \A u \in T : u # t => pc[u] \notin Active
    BY <2>0 DEF Waiting, Polling, Selected, Requested, Legal
  <2>1. Types'
    <3>1. Image(content')
      BY <2>a DEF Types, Image
    <3>2. QED
      BY <3>1 DEF Types, channel, scan
  <2>2. Booting'
    BY DEF Booting, Booted, channel, controller, scan
  <2>3. Requested'
    BY DEF Requested, Legal, channel, controller, scan
  <2>4. Locked'
    BY DEF Locked, channel, controller, scan
  <2>5. OnlyForAWaiter'
    BY DEF OnlyForAWaiter, Quiet, channel, controller, scan
  <2>6. Selected'
    BY DEF Selected, channel, controller, scan
  <2>7. Waiting'
    <3> SUFFICES ASSUME pc[t] = "wait"
                 PROVE  /\ completion_wait' = 0 /\ ~busy'
                        /\ Op(t) = "write" => ~drq' /\ content'[device][sector] = buf[t]
                        /\ Op(t) = "read" => data' = content'[device][sector]
      BY <2>a DEF Waiting, OnDisk, channel
    <3>1. CASE Op(t) = "write"
      BY <2>a, <3>1 DEF Types, Image, channel
    <3>2. CASE Op(t) # "write"
      BY <2>a, <3>2, <2>0 DEF Types, Requested, Legal, channel
    <3>3. QED
      BY <3>1, <3>2
  <2>8. Polling'
    BY <2>a DEF Polling, OnDisk, Types, Requested, Legal, channel
  <2>9. Moved'
    BY DEF Moved, OnDisk, OnlyForAWaiter, Quiet, Waiting, Polling,
       channel, controller, scan
  <2>10. QED
    BY <2>1, <2>2, <2>3, <2>4, <2>5, <2>6, <2>7, <2>8, <2>9
<1>19. ASSUME Fault PROVE IInv'
  <2> USE <1>19 DEF Fault
  <2>1. Types'
    BY DEF Types, Label, channel, controller, scan
  <2>2. Booting'
    BY DEF Booting, Booted, channel, controller, scan
  <2>3. Requested'
    BY DEF Requested, Legal, channel, controller, scan
  <2>4. Locked'
    BY DEF Locked, channel, controller, scan
  <2>5. OnlyForAWaiter'
    BY DEF OnlyForAWaiter, Quiet, channel, controller, scan
  <2>6. Selected'
    BY DEF Selected, channel, controller, scan
  <2>7. Waiting'
    BY DEF Waiting, OnDisk, channel, controller, scan
  <2>8. Polling'
    BY DEF Polling, OnDisk, channel, controller, scan
  <2>9. Moved'
    BY DEF Moved, OnDisk, channel, controller, scan
  <2>10. QED
    BY <2>1, <2>2, <2>3, <2>4, <2>5, <2>6, <2>7, <2>8, <2>9
<1>20. QED
  BY <1>1, <1>2, <1>3, <1>4, <1>5, <1>6, <1>7, <1>8, <1>9, <1>10, <1>11, <1>12,
     <1>13, <1>14, <1>15, <1>16, <1>17, <1>18, <1>19 DEF Next, IdeStep, Boot

\* Every block device lies on its disk, whatever the partition tables hold.
THEOREM PartitionsLieInside == Spec => []PartitionsInside
<1>1. IInv => PartitionsInside
  BY SMT DEF IInv, Types, PartitionsInside, Blocks, BlockDevice
<1>2. QED
  BY <1>1, InitIInv, StepIInv, PTL DEF Spec

\* ide_read and ide_write move the sector that was asked for, and leave no
\* interrupt behind, with any number of threads.
THEOREM TransfersAreExact == Spec => []TransferExact
<1>1. IInv => TransferExact
  <2> SUFFICES ASSUME IInv, NEW t \in Thread, pc[t] = "release"
               PROVE  /\ buf[t] = content[request[t].block.dev]
                                         [request[t].block.start + request[t].at]
                      /\ Quiet
    BY DEF TransferExact, Quiet
  <2> USE DiskAssumption DEF IInv, Channel, T, Active
  <2>1. \A u \in T : pc[u] \notin {"wait", "busy"}
    BY OneActive
  <2>2. Quiet
    BY <2>1 DEF OnlyForAWaiter
  <2>3. request[t].op # "identify"
    BY DEF Requested, Legal
  <2>4. QED
    BY <2>2, <2>3 DEF Requested, Legal, Moved, OnDisk
<1>2. QED
  BY <1>1, InitIInv, StepIInv, PTL DEF Spec
=============================================================================
