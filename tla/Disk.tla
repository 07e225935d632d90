-------------------------------- MODULE Disk --------------------------------
(***************************************************************************)
(* Block devices: one ATA channel with its disks (src/devices/ide.c), the  *)
(* block layer (src/devices/block.c) and partitions                        *)
(* (src/devices/partition.c).  At boot the main thread identifies each     *)
(* disk and scans its partition tables; then threads read and write        *)
(* sectors of the block devices that were registered.                      *)
(*                                                                         *)
(* The controller is external: it is busy with a command, wants data or    *)
(* has some, and raises its interrupt.  A thread is preempted, or sleeps,  *)
(* between any two of the steps of ide_read and ide_write.                 *)
(***************************************************************************)
EXTENDS Integers, Sequences

CONSTANTS
  Thread, main, NULL,
  Capacity,       \* sectors of each disk, by position on the channel
  Limit,          \* capacity from which a disk is ignored
  M,              \* sector numbers are computed modulo M
  Images,         \* the contents the disks may have at boot
  Value,          \* what threads write
  MaxOps,         \* bound: sectors read or written after boot
  MaxFrames       \* bound: nesting of read_partition_table

Disk == DOMAIN Capacity

partition_table_entry ==
  [type : {"empty", "extended", "filesys", "swap", "foreign"},
   offset : 0 .. M - 1, size : 0 .. M - 1]

partition_table == Seq(partition_table_entry)

\* What the disks hold: in every sector a value or a partition table.
Image(c) ==
  /\ c = [d \in Disk |-> c[d]]
  /\ \A d \in Disk :
       /\ c[d] = [s \in 0 .. Capacity[d] - 1 |-> c[d][s]]
       /\ \A s \in 0 .. Capacity[d] - 1 : c[d][s] \in Value \cup partition_table

ASSUME DiskAssumption ==
  /\ M \in Nat \ {0}
  /\ main \notin Thread /\ NULL \notin Thread \cup {main}
  /\ \A d \in Disk : Capacity[d] \in 0 .. M - 1
  /\ \A c \in Images : Image(c)

VARIABLES
  lock, expecting_interrupt, completion_wait,  \* struct channel
  device, sector, command,                     \* registers of the controller
  busy, drq, interrupt, data,
  content,        \* of each disk, by sector
  all_blocks,
  pc,             \* idle, lock, select, issue, wait, busy, release
  request,        \* [op, dev, sector, block, at] of the call in progress
  buf,
  next_dev,       \* the disk ide_init identifies next
  frames,         \* activations of read_partition_table
  ops,
  kernel          \* up, failed (PANIC on a disk error), past_end (check_sector)

channel == <<lock, expecting_interrupt, completion_wait>>
controller == <<device, sector, command, busy, drq, interrupt, data>>
scan == <<next_dev, frames>>
vars == <<channel, controller, content, all_blocks, pc, request, buf, scan, ops, kernel>>

Up == kernel = "up"
At(t, label) == Up /\ pc[t] = label
Goto(t, label) == pc' = [pc EXCEPT ![t] = label]
Booted == next_dev \notin Disk /\ frames = <<>>

(***************************************************************************)
(* block.c and the operations of partition.c: where a sector of a block    *)
(* device is, or that check_sector panics.                                 *)
(***************************************************************************)
Inside(b, s) == s < b.size /\ (b.start + s) % M < Capacity[b.dev]

SectorOf(b, s) == (b.start + s) % M

Access(t, op, b, s) ==
  /\ IF Inside(b, s)
     THEN /\ Goto(t, "lock")
          /\ request' = [request EXCEPT ![t] =
               [op |-> op, dev |-> b.dev, sector |-> SectorOf(b, s),
                block |-> b, at |-> s]]
          /\ UNCHANGED kernel
     ELSE kernel' = "past_end" /\ UNCHANGED <<pc, request>>
  /\ UNCHANGED <<channel, controller, content, all_blocks>>

\* The kernel uses the partitions of its own types; block_write asserts that
\* the type is not BLOCK_FOREIGN.
block_read(t, b, s) ==
  /\ At(t, "idle") /\ Booted /\ ops < MaxOps
  /\ ops' = ops + 1
  /\ Access(t, "read", b, s)
  /\ UNCHANGED <<buf, scan>>

block_write(t, b, s, v) ==
  /\ At(t, "idle") /\ Booted /\ ops < MaxOps
  /\ b.type \notin {"raw", "foreign"}
  /\ ops' = ops + 1
  /\ buf' = [buf EXCEPT ![t] = v]
  /\ Access(t, "write", b, s)
  /\ UNCHANGED scan

(***************************************************************************)
(* ide.c.                                                                  *)
(***************************************************************************)
Op(t) == request[t].op

Acquire(t) ==
  /\ At(t, "lock") /\ lock = NULL
  /\ lock' = t
  /\ Goto(t, "select")
  /\ UNCHANGED <<expecting_interrupt, completion_wait, controller, content, all_blocks,
                 request, buf, scan, ops, kernel>>

\* select_sector, or select_device_wait to identify: reading the status
\* register clears a pending interrupt.
select_sector(t) ==
  /\ At(t, "select") /\ ~busy /\ ~drq
  /\ interrupt' = FALSE
  /\ device' = request[t].dev
  /\ sector' = request[t].sector
  /\ Goto(t, "issue")
  /\ UNCHANGED <<channel, command, busy, drq, data, content, all_blocks, request, buf,
                 scan, ops, kernel>>

\* Mutation: a read polls the status and does not wait for the interrupt.
AfterCommand_Poll(op) == "busy"

\* A read waits for the interrupt and then until the disk is not busy; a write
\* sends its data first.
AfterCommand(op) == IF op = "write" THEN "busy" ELSE "wait"

\* Mutation: the handler is not told to expect an interrupt.
ExpectInterrupt_Not == UNCHANGED expecting_interrupt

ExpectInterrupt == expecting_interrupt' = TRUE

issue_pio_command(t) ==
  /\ At(t, "issue")
  /\ ExpectInterrupt
  /\ command' = Op(t)
  /\ busy' = TRUE
  /\ Goto(t, AfterCommand(Op(t)))
  /\ UNCHANGED <<lock, completion_wait, device, sector, drq, interrupt, data, content,
                 all_blocks, request, buf, scan, ops, kernel>>

\* sema_down (&c->completion_wait).
Completed(t) ==
  /\ At(t, "wait") /\ completion_wait > 0
  /\ completion_wait' = completion_wait - 1
  /\ Goto(t, IF Op(t) = "write" THEN "release" ELSE "busy")
  /\ UNCHANGED <<lock, expecting_interrupt, controller, content, all_blocks, request, buf,
                 scan, ops, kernel>>

\* wait_while_busy returns true, and a sector is transferred.
Transfer(t) ==
  /\ At(t, "busy") /\ ~busy /\ drq
  /\ drq' = FALSE
  /\ IF Op(t) = "write"
     THEN /\ data' = buf[t] /\ busy' = TRUE /\ command' = "store"
          /\ Goto(t, "wait") /\ UNCHANGED buf
     ELSE /\ buf' = [buf EXCEPT ![t] = data]
          /\ Goto(t, "release") /\ UNCHANGED <<data, busy, command>>
  /\ UNCHANGED <<channel, device, sector, interrupt, content, all_blocks, request, scan,
                 ops, kernel>>

\* It returns false: the disk has no data, or has been busy for 30 seconds.
\* A disk that does not answer to IDENTIFY is not used.
TransferFails(t) ==
  /\ At(t, "busy") /\ (busy \/ ~drq)
  /\ IF Op(t) = "identify"
     THEN /\ next_dev' = next_dev + 1
          /\ Goto(t, "idle") /\ UNCHANGED kernel
     ELSE kernel' = "failed" /\ UNCHANGED <<pc, next_dev>>
  /\ UNCHANGED <<channel, controller, content, all_blocks, request, buf, frames, ops>>

\* The call returns; its request is dead, and the buffer the caller's.
Release(t) ==
  /\ t # main /\ At(t, "release")
  /\ lock' = NULL
  /\ Goto(t, "idle")
  /\ request' = [request EXCEPT ![t] = NULL]
  /\ buf' = [buf EXCEPT ![t] = NULL]
  /\ UNCHANGED <<expecting_interrupt, completion_wait, controller, content, all_blocks,
                 scan, ops, kernel>>

interrupt_handler ==
  /\ Up /\ interrupt
  /\ interrupt' = FALSE
  /\ completion_wait' = completion_wait + IF expecting_interrupt THEN 1 ELSE 0
  /\ UNCHANGED <<lock, expecting_interrupt, device, sector, command, busy, drq, data,
                 content, all_blocks, pc, request, buf, scan, ops, kernel>>

(***************************************************************************)
(* The controller ends a command, well or with an error; a write asks for  *)
(* its data without an interrupt and interrupts once it has stored it.     *)
(***************************************************************************)
Ready ==
  /\ Up /\ busy
  /\ busy' = FALSE
  /\ drq' = (command # "store")
  /\ interrupt' = (command # "write")
  /\ data' = IF command = "read" THEN content[device][sector] ELSE data
  /\ content' = IF command = "store" THEN [content EXCEPT ![device][sector] = data]
                ELSE content
  /\ UNCHANGED <<channel, device, sector, command, all_blocks, pc, request, buf, scan,
                 ops, kernel>>

Fault ==
  /\ Up /\ busy /\ command # "store"
  /\ busy' = FALSE /\ interrupt' = TRUE
  /\ UNCHANGED <<channel, device, sector, command, drq, data, content, all_blocks, pc,
                 request, buf, scan, ops, kernel>>

(***************************************************************************)
(* ide_init and partition_scan, in the main thread.                        *)
(***************************************************************************)
Raw(d) == [dev |-> d, start |-> 0, size |-> Capacity[d], type |-> "raw"]

Idle == At(main, "idle")

identify_ata_device ==
  /\ Idle /\ frames = <<>> /\ next_dev \in Disk
  /\ request' = [request EXCEPT ![main] =
       [op |-> "identify", dev |-> next_dev, sector |-> 0, block |-> NULL, at |-> 0]]
  /\ Goto(main, "select")
  /\ UNCHANGED <<channel, controller, content, all_blocks, buf, scan, ops, kernel>>

\* A call of read_partition_table; pt is NULL until the table is read.
Frame(d, s, primary) ==
  [dev |-> d, sector |-> s, primary |-> primary, pt |-> NULL, i |-> 1]

Push(stack, f) == <<f>> \o stack

\* The disk has told its capacity; one that is too big is ignored.
Identified ==
  /\ At(main, "release") /\ Op(main) = "identify"
  /\ next_dev' = next_dev + 1
  /\ IF Capacity[next_dev] >= Limit
     THEN UNCHANGED <<all_blocks, frames>>
     ELSE /\ all_blocks' = Append(all_blocks, Raw(next_dev))
          /\ frames' = Push(frames, Frame(next_dev, 0, 0))
  /\ Goto(main, "idle")
  /\ UNCHANGED <<channel, controller, content, request, buf, ops, kernel>>

Top == Head(frames)

\* read_partition_table: the check of the sector, and block_read (block, 0, pt).
ReadTable ==
  /\ Idle /\ frames # <<>> /\ Top.pt = NULL
  /\ IF Top.sector >= Capacity[Top.dev]
     THEN /\ frames' = Tail(frames)
          /\ UNCHANGED <<channel, controller, content, all_blocks, pc, request, kernel>>
     ELSE Access(main, "read", Raw(Top.dev), 0) /\ UNCHANGED frames
  /\ UNCHANGED <<buf, next_dev, ops>>

\* The table has been read: it is left when it has no signature.
TableRead ==
  /\ At(main, "release") /\ Op(main) = "read"
  /\ lock' = NULL
  /\ frames' = IF buf[main] \in Value THEN Tail(frames)
               ELSE [frames EXCEPT ![1].pt = buf[main]]
  /\ Goto(main, "idle")
  /\ UNCHANGED <<expecting_interrupt, completion_wait, controller, content, all_blocks,
                 request, buf, next_dev, ops, kernel>>

\* Mutation: the end of the partition is not checked for overflow.
Fits_NoOverflow(d, start, size) ==
  start < Capacity[d] /\ (start + size) % M <= Capacity[d]

\* found_partition: the partition starts and ends on the device.
Fits(d, start, size) ==
  /\ start < Capacity[d]
  /\ (start + size) % M >= start /\ (start + size) % M <= Capacity[d]

found_partition(d, type, start, size) ==
  all_blocks' = IF Fits(d, start, size)
                THEN Append(all_blocks,
                            [dev |-> d, start |-> start, size |-> size, type |-> type])
                ELSE all_blocks

InTable == Idle /\ frames # <<>> /\ Top.pt # NULL

Parsed == [frames EXCEPT ![1].i = @ + 1]

ParseEntry ==
  LET e == Top.pt[Top.i] IN
  /\ InTable /\ Top.i <= Len(Top.pt)
  /\ CASE e.size = 0 \/ e.type = "empty" ->
            frames' = Parsed /\ UNCHANGED all_blocks
       [] e.size # 0 /\ e.type = "extended" ->
            /\ Len(frames) < MaxFrames
            /\ frames' = Push(Parsed,
                 IF Top.sector = 0 THEN Frame(Top.dev, e.offset, e.offset)
                 ELSE Frame(Top.dev, (e.offset + Top.primary) % M, Top.primary))
            /\ UNCHANGED all_blocks
       [] OTHER ->
            /\ frames' = Parsed
            /\ found_partition(Top.dev, e.type, (e.offset + Top.sector) % M, e.size)
  /\ UNCHANGED <<channel, controller, content, pc, request, buf, next_dev, ops, kernel>>

TableDone ==
  /\ InTable /\ Top.i > Len(Top.pt)
  /\ frames' = Tail(frames)
  /\ UNCHANGED <<channel, controller, content, all_blocks, pc, request, buf, next_dev, ops,
                 kernel>>

-----------------------------------------------------------------------------
Init ==
  /\ lock = NULL /\ expecting_interrupt = FALSE /\ completion_wait = 0
  /\ device = 1 /\ sector = 0 /\ command = NULL
  /\ busy = FALSE /\ drq = FALSE /\ interrupt = FALSE /\ data = NULL
  /\ content \in Images
  /\ all_blocks = <<>>
  /\ pc = [t \in Thread \cup {main} |-> "idle"]
  /\ request = [t \in Thread \cup {main} |-> NULL]
  /\ buf = [t \in Thread \cup {main} |-> NULL]
  /\ next_dev = 1 /\ frames = <<>>
  /\ ops = 0
  /\ kernel = "up"

IdeStep(t) ==
  \/ Acquire(t) \/ select_sector(t) \/ issue_pio_command(t) \/ Completed(t)
  \/ Transfer(t) \/ TransferFails(t) \/ Release(t)

Boot == identify_ata_device \/ Identified \/ ReadTable \/ TableRead \/ ParseEntry \/ TableDone

Blocks == {all_blocks[i] : i \in DOMAIN all_blocks}

Next ==
  \/ \E t \in Thread \cup {main} : IdeStep(t)
  \/ \E t \in Thread, b \in Blocks : \E s \in 0 .. b.size - 1 :
       block_read(t, b, s) \/ \E v \in Value : block_write(t, b, s, v)
  \/ Boot \/ interrupt_handler \/ Ready \/ Fault

Spec == Init /\ [][Next]_vars

\* Threads run when they can, the disk answers and its interrupt is taken.
Fairness ==
  /\ \A t \in Thread \cup {main} : WF_vars(IdeStep(t))
  /\ WF_vars(Boot) /\ WF_vars(interrupt_handler) /\ WF_vars(Ready \/ Fault)

FairSpec == Spec /\ Fairness

(***************************************************************************)
(* Properties.                                                             *)
(***************************************************************************)
\* Every block device found_partition registers lies on its disk, whatever the
\* tables say and although the sum of start and size may overflow; so no
\* access that the partition allows panics in check_sector of the disk.
PartitionsInside ==
  /\ kernel # "past_end"
  /\ \A b \in Blocks : b.start + b.size <= Capacity[b.dev]

\* "Internally synchronizes accesses to disks, so external per-disk locking is
\* unneeded" (ide.c): when ide_read or ide_write is about to return, the
\* caller's buffer and the sector of the partition it asked for are the same,
\* the disk is idle and the interrupt of the command has been consumed, so it
\* cannot complete somebody else's.
TransferExact ==
  \A t \in Thread : Up /\ pc[t] = "release" =>
    LET r == request[t] IN
    /\ buf[t] = content[r.block.dev][r.block.start + r.at]
    /\ ~busy /\ ~drq /\ ~interrupt /\ completion_wait = 0

\* The disks are identified and scanned, and every block_read and block_write
\* returns, or the kernel panics because the disk failed: no thread misses the
\* interrupt of its command.
IoReturns ==
  /\ <>(Booted \/ kernel # "up")
  /\ \A t \in Thread : pc[t] = "lock" ~> pc[t] = "idle" \/ kernel # "up"
=============================================================================
