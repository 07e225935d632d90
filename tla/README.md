# A TLA+ model of the Pintos kernel in this repository

The repository is a Pintos kernel (a teaching kernel for one 80x86 CPU) with
user programs and demand paging. This directory holds TLA+ modules translated
from its source, TLC configurations that check them on small instances, and
TLAPS proofs of theorems about them that hold for every instance. Paths below
are relative to `src/src/`.

## Inventory

| Part | State | Operations | Modelled in |
|---|---|---|---|
| Scheduler, `threads/thread.c` | status of each thread, `ready_list`, `idle_thread`, `thread_ticks` | create, block, unblock, yield, exit, tick, schedule, idle | `Sched`, `Synch` |
| Synchronisation, `threads/synch.c` | value and waiters of semaphores, lock holders, condition waiters | every function | `Synch`, abstract lock in `Mutex` |
| Interrupts, `threads/interrupt.c` | interrupt level | handler, yield on return | `Synch` (levels, timer, device handlers) |
| Processes, `userprog/process.c` | children lists, `load_sema`, `wait_sema`, exit statuses, the argument stack and the segments of an executable | execute, load, wait, exit | `Process` (handshakes), `Load` (memory) |
| System calls, `userprog/syscall.c` | `file_descriptors`, `filesys_sema` | the twelve calls | `Syscalls` (files), `Process` (exec, wait, exit, halt) |
| Virtual memory, `vm/`, `userprog/exception.c` | frame table with its hand, supplemental page tables, swap table, page directories | page fault, get_user_page, evict_page, swap in and out, stack growth, exit | `VM` |
| File system, `filesys/` | free map, inodes, root directory, on disk and in memory | create, open, write, remove, close, deny and allow write, start | `Filesys` |
| Allocators, `threads/palloc.c`, `threads/malloc.c` | bitmap of a pool, descriptors, arenas | malloc, free, palloc get and free | `Memory`; their failures are choices of the callers' modules |
| Console, `lib/kernel/console.c`, `devices/serial.c`, `intq.c`, `input.c`, `kbd.c` | console lock, interrupt queues, UART registers | print, interrupt handlers, flush, getc | `Console` |
| Disks, `devices/ide.c`, `block.c`, `partition.c` | channel lock, completion semaphore, block devices | identify, scan, read, write, interrupt handler | `Disk` |
| Timer, `devices/timer.c` | ticks | interrupt, sleep | `Synch` (interrupt), `Timer` (sleep) |
| Kernel library, `lib/kernel/` | links of lists, buckets of hash tables, bitmaps | every function of `list.c`, those of `hash.c` that change or walk a table | `List`, `Hash`; `bitmap_scan` in `Filesys` and `Memory` |
| C library, `lib/string.c`, `stdlib.c`, `arithmetic.c`, `stdio.c` | none | copying, searching, sorting, division, formatting | `Strings`, `Stdlib`, `Stdio`, called by `Library` |

How the parts interact: a user program enters the kernel by a system call or a
page fault. A file system call downs `filesys_sema` around the file system; a
page fault and `load` use the file system without it. `exec` and `wait` use
semaphores that live in the parent's `struct thread`. All of it runs on threads
that the timer preempts wherever interrupts are on.

What is hard about it: the switch between any two instructions, early returns
and kills with a semaphore down, structures freed while others point to them,
three descriptions of each page that change one after the other, and disk
writes between which the machine may stop. `PROJECT.json` lists these hazards
one by one, at their lines, with the property that would notice, or why there
is none.

## Modules

**Sched** is the run queue: `NextThreadToRun`, `Schedule`, `ThreadBlock`,
`ThreadUnblock`, `ThreadYield`, `ThreadExit` and `ThreadTick`. They are
operators; the step that calls them is in Synch.

**Synch** lets threads execute. `code[t]` is what thread `t` has still to do of
its current call: a sequence of instructions such as `down`, `set_holder`,
`up`. One instruction is a stretch of code that runs with interrupts off, or a
single assignment; a timer or device interrupt can come between any two. Only
the re-test in `sema_down` follows the switch back to a thread with interrupts
still off. `sema_up` in an interrupt handler is `DeviceInterrupt`. A
`thread_create` without memory for the child's record leaves the new thread
blocked and on no list (`CreateFails`).

**Mutex** is the abstract lock: who owns it, and which thread acts. `Synch`
implements it (property `ImplementsMutex`) with the running thread as the actor;
the owner is the thread that took the semaphore, also while `holder` does not
name it yet or any more.

**Process** has one label per process for the point of the code it is at. The
handshakes of exec and wait are there step by step. A struct thread whose page
has been freed is a dead process; an up through such a pointer makes the
kernel `"wild"` and the behaviour ends there.

**VM** has the frame table, the clock hand, page directories with their
accessed and dirty bits, supplemental page tables, swap and page contents. The
handler's steps of different processes interleave, as they do in the code,
which holds nothing: every line of `get_user_page` and `evict_page` that reads
or moves the shared hand is a step of its own, and so is every slot that
`add_swap_entry` looks at. Assertions that fail make the kernel `"panic"`, an
index outside the frame table makes it `"wild"`.

**Filesys** keeps what is on disk and what is in memory apart; `Crash` keeps
the first. A step ends where the code waits for the disk. Each disk write is
one step, so a crash can fall between any two. A read or write of part of a
sector may fail for want of a bounce buffer: then `lookup` misses a name,
`dir_add` stops at a slot in use, an entry is not erased, or a part of the free
map is not written. `missed` records the names that a create has missed so.

**Syscalls** is the table of descriptors with the semaphore around the calls.
What happens inside a call is Filesys's matter.

**Console** has printing threads, readers of the keyboard, interrupt handlers
that print, and the UART. Its two queues are records with the fields of `struct
intq`. A thread that finds the transmit queue full blocks in `not_full` and goes
round the loop of `intq_putc` when it is woken. A second thread that waits for
one queue sleeps for the queue's lock first, and `wait` asserts when it gets
it. `Teams` says which of the threads may be running together.

**Disk** has one ATA channel. A call goes through the labels lock, select,
issue, wait, busy and release of `ide_read` and `ide_write`; the controller,
the interrupt and other threads move in between. At boot the main thread
identifies the disks and scans their tables with the same reads; `frames` is
the stack of `read_partition_table`. Sector numbers wrap around at `M`.

**Memory** has one pool and the descriptors of `malloc.c`. `bitmap_scan` tests
one bit in a step, and a free, which does not take the pool's lock, clears one
bit in a step. The bits that a successful scan sets are set in one: nobody else
has these pages, and whoever scans waits for the lock.

**Timer** adds `timer_sleep` to Synch: a sleeping thread stays on the run queue
and goes round its loop of reading the clock and yielding.

**List** has the `prev` and `next` fields of the elements, heads and tails,
with one operator per function of `list.c` and an action that applies it.
`content` records the sequences the lists should stand for. **Hash** has the
buckets with their sizes, the rehashing in insert and delete and its failing
allocation, and the iterator.

**Strings**, **Stdlib** and **Stdio** are operators that follow the loops of
the C library: characters are small numbers, machine words have `W` bits,
memory is a function from addresses. **Load** does the same for `setup_stack`,
`load_segment` and `validate_segment`, with small pages and a small address
space. A behaviour of **Library** is one call with chosen arguments; the
properties compare its result with a definition that does not follow the code.
Where a function does not do what its comment says, the property states what
it does, its comment names the difference, and `PROJECT.json` has a finding.

**MCSynch**, **MCTimer**, **MCVM**, **MCDisk** and **MCLibrary** give the
constants values for TLC; **MCLibrary** also joins List, Hash, Library and
Memory in one specification. **SynchProofs**, **SyscallsProofs**,
**ProcessProofs**, **VMProofs**, **FilesysProofs**, **DiskProofs**,
**ConsoleProofs** and **MemoryProofs** have the theorems.

In the higher modules a semaphore is only its value: that waiters are woken is
what Synch shows. Operators with names such as `Up_NoWake` are mutations, used
to confirm that a property notices the bug they describe; nothing else uses
them.

## Runs

| Run | Instance | States | Shows |
|---|---|---|---|
| `synch` | main, idle, two threads, a semaphore that a device ups, a lock with a condition variable, `tid_lock`; a switch at any tick | 1.2 M | no wakeup and no signal is lost or doubled (`NoLostWakeup`, `NoLostSignal`); lists and statuses agree (`ElemOnOneList`); locks exclude and implement `Mutex` |
| `timer` | main, idle, two threads, time slices of two ticks, sleeps of 0 and 2 ticks | 33 k | schedule always finds a thread (`NextIsThread`), a ready thread runs (`ReadyRuns`), `timer_sleep` returns and not before its time (`SleepEnds`) |
| `process` | main and three processes | 0.11 M | exec's handshake (`ExecSeesItsOwnLoad`), wait's accounting (`WaitAccounting`), exec and wait come back and executables become writable again, unless memory runs out in exec (`CallsReturn`) |
| `vm` | one process, a text, a data, a stack and a grown page, 2 or 5 frames, 2 swap slots; and two processes, two pages each, 2 frames, 1 slot | 0.26 M | the three tables agree (`TablesAgree`), writes are not undone by a reload (`NoStaleReload`), with enough frames paging is invisible (`Transparent`), a fault ends, wherever other faults have put the unprotected hand, once they leave it alone (`FaultEnds`) |
| `fs` | a caller, two loaders, two names, two directory slots, four sectors, lengths 1 and 2 | 2.9 M | the disk is consistent at every crash point, but for names that a short read hid (`DiskConsistent`); open files keep their sectors (`OpenKeepsSectors`); executables do not change (`TextStable`) |
| `syscalls` | two processes, two descriptors | 40 k | one process inside (`OneInside`), calls work on files (`UsesFile`), descriptors keep theirs (`FdKept`), a call that is inside comes out, and one that waits comes back unless others barge in for ever (`CallReturns`) |
| `console` | two writers of two bytes and a reader, or a writer and two readers, a queue of one place, a handler that prints, two keys | 0.51 M | bytes keep their order on every way out (`InOrder`), messages are not mixed and `intq.c` asserts only for a second reader (`NotMixed`), printing ends (`PrintEnds`) |
| `disk` | two disks of 4 and 3 sectors, 20 images, two threads, two transfers | 0.19 M | partitions lie on their disk (`PartitionsInside`), a transfer is the one asked for (`TransferExact`), boot ends and calls come back (`IoReturns`) |
| `library` | four list elements in two lists; five table elements, two with one key, hashes that collide in one or two bits; words of 4 bits, pages of 32 bytes, a number buffer of 16 characters; three threads in the allocators, three pages, two descriptors of two blocks, big blocks of two pages | 0.21 M | lists are sequences (`ListsAreSequences`), hash tables are sets through growing, shrinking and failed allocations (`TableIsSet`) and walks are complete (`WalkIsComplete`); strings, sorting, searching and division give what their definitions say (`StringsExact`, `StdlibExact`), formatted output too (`FormatsExact`); `main` finds its arguments (`ArgumentsReachMain`), and the pages of an executable have the right bytes and are writable where the header says so (`SegmentsExact`); pages have one owner (`PagesOwnedOnce`), blocks too, arena counts are right and no assertion fails (`BlocksExact`) |

The bounds are the smallest at which the cases exist. Two threads besides main
give a third contender for a unit that a woken thread has not taken yet. Three
processes let a parent have two children or a child a child. Two frames for
four pages force evictions; five are one more than the pages. Four sectors hold
two files of length 1 or one of length 2 and leave an allocation to fail. Two
descriptors let the table fill up. A queue of one place is full after every
byte. The images of the first disk have a second partition that fits, is empty,
starts at or past the end, ends past it or wraps around, extended entries, an
empty table and none. Three pages let two arenas live next to a free page, or
one arena next to a big block. Four elements give `list_sort` runs of one and
two elements to merge and a run that is left over. With words of four bits the
division of double words is checked for every dividend and divisor, signed and
unsigned. Headers have addresses and sizes at, before and after the ends of
pages; command lines are all those of eight characters in two letters and the
space.

Runs that end in a violation, where a comment or a test of the repository says
something that the code does not do:

| Run | The comment | What happens |
|---|---|---|
| `v_WaitReturnsStatus` | `userprog/process.c:181` "Waits for thread TID to die and returns its exit status." | any child's exit releases the wait, which returns -666 of a child that still runs |
| `v_SameInode` | `filesys/inode.c:56` "opening a single inode twice returns the same `struct inode'" | two loads of one file make two objects |
| `v_ExecReturns` | `tests/userprog/no-vm/multi-oom.c:5` "if a process doesn't actually get to start, exec() must return -1, not a valid PID" | without memory for the thread the caller dies in exec (`userprog/process.c:93`, a null pointer); without a swap slot for the stack the child exits inside `load` and the caller waits for ever |

Others are in the models without a run of their own, and limit what the
properties can say:

- `filesize` of descriptor 0 or 1 returns at `userprog/syscall.c:420` with
  `filesys_sema` down; the properties of Syscalls speak of careful programs.
- `evict_page` leaves the frame it reuses FT_EMPTY, "frame is empty and can be
  allocated" (`vm/frame.h:9`); `Transparent` speaks of memory that suffices.
- `paging_sema`, "semaphore for atomic access" (`vm/frame.h:21`), is never
  downed, and two faults can take one frame; most properties of VM are checked
  for one process.
- `read_partition_table`, "Reads the partition table in the given SECTOR of
  BLOCK" (`devices/partition.c:36`), reads sector 0 at line 91. Logical
  partitions are not found, and an extended partition that starts in the first
  half of the disk makes the recursion endless; the images of `disk` have
  none of these.
- `thread_exit` ups the parent before it closes the executable, so a parent may
  come back from wait and still be refused a write to it.
- `setup_stack` maps "a zeroed page" (`userprog/process.c:600`), but frames are
  not zeroed, and it skips the four bytes of `argv[argc]` (line 663) without
  writing them. So `argv[argc]` is what the frame held before, null only if it
  is new, where `tests/userprog/args-none.ck:9` wants null;
  `ArgumentsReachMain` states this. It also leaves the page when many short
  arguments need more room for pointers than the page has.
- `dir_add` relies on a short read only "at end of file"
  (`filesys/directory.c:163`), but `inode_read_at` returns one also without
  memory for its bounce buffer. A name can get two entries, against
  `filesys/filesys.c:55` "Fails if a file named NAME already exists", and an
  entry in use can be overwritten; `DiskConsistent` excepts the names in
  `missed`. The file whose entry was overwritten keeps its sectors and has no
  name.
- The address checks of system calls (`is_paged`) look at the page directory
  only, so a page that was evicted or not yet loaded counts as bad; the
  refusal is a choice of `Syscalls` (`Refused`).
- `memmove` "Returns DST" (`lib/string.c:22`), but a pointer behind the copy when
  it copies upwards (line 45). `strlcat` writes a terminator "always ... unless
  SIZE is 0" (line 346), but none when DST is at least SIZE long (line 365).
  `StringsExact` states what they do.
- `__umoddi3`, "Unsigned 64-bit remainder" (`lib/arithmetic.c:184`), and
  `__moddi3` go through functions that return 32 bits; `StdlibExact` states that
  they return the low word, of the signed one as a signed number.
- `printf` with the flag 0 and a negative width from an argument pads on both
  sides (`lib/stdio.c:390`); `FormatsExact` leaves this out. Where the flag for
  grouping is given, separators count towards the precision, although line 515
  says "Append enough zeros to match precision": digits and separators together
  are at least as many as the precision asks for, and this is what
  `FormatsExact` states.

### Restrictions of the environment

- `fs` has `Overlap = FALSE`: an operation that does not take `filesys_sema`
  (load, the close in thread_exit) starts only when no other file operation is
  in progress. Without this restriction the properties fail, as `v_SameInode`
  shows for one of them.
- In Syscalls `CallReturns` and parts of `OneInside` and `UsesFile` are about
  careful programs, for which `careful` holds: buffers and names are in memory,
  descriptors were returned by open, and memory suffices. The other programs
  are in the model too and their calls can keep the semaphore.
- In `vm` the tables are compared for one process; of two processes only
  `FaultEnds` is claimed, and only for a fault that the others leave alone in
  the end: two processes that stay in the loops of `get_user_page` and
  `evict_page` can move the hand past each other's pages for ever.
  `Transparent` is about enough frames only.
- `CallsReturn` leaves out an exec that runs out of memory (`OutOfMemory`): the
  caller dies in it, or its child was lost inside `load`. `v_ExecReturns` is
  about these.
- `ArgumentsReachMain` says where the arguments are when they fit the stack
  page, and which command lines do not fit.
- Two readers can break the assertion in `intq.c:91`, in the model and in the
  code, and the run goes on to nothing from there. In this kernel no system
  call reads the keyboard.
- In `disk` the controller raises one interrupt for a command, and fails only
  before it has the data of a write. No image nests extended partitions further
  than `MaxFrames`.
- The machine may stop: after halt (`process`), after a shutdown (`console`),
  after the last transfer or a failure of the disk (`disk`), and when all
  processes have died or wait for ever (`syscalls`). These runs do not check
  for deadlock, and their liveness properties say which waits must end.

### Fairness

- `timer`: weak fairness of the timer interrupt and of the re-test. The
  hardware timer keeps interrupting, and code with interrupts off goes on.
  Strong fairness of a sleeping thread's step of its loop: a tick may come
  before every instruction in the model, but a time slice is much longer than
  an instruction, so a thread that gets the CPU again and again makes progress.
- `process`, `vm`: weak fairness of the kernel's steps of each
  process. A ready thread runs, by `ReadyRuns`. Nothing is assumed about user
  code.
- `syscalls`: weak fairness inside a call and of the `sema_down`. `sema_up`
  wakes the first waiter but does not hand the semaphore over: a process that
  comes by before the waiter runs takes it, and the waiter queues again at the
  back (`synch.c:69`). So `CallReturns` claims for a waiting call only that it
  comes back when the others stop calling.
- `console`, `disk`: weak fairness of each thread's step in the kernel, of the
  device, and of an interrupt that the device has been told to raise. Threads
  make finitely many calls, so weak fairness of taking a lock is enough.
- `synch`, `fs` and `library` check safety only.

## Proofs

The theorems hold for every value of the constants that satisfies the named
assumptions of the modules, which TLC evaluates in the runs, and the hypotheses
of the theorem itself, where it has one. Each proof module defines an inductive
invariant `IInv`, proves that `Init` implies it and that every step preserves it
(`InitIInv`, `StepIInv`; `InitInv`, `NextInv` in SynchProofs; in VMProofs one
such pair for each of the three parts of `VMInv`), with one step or lemma per
action and below it one per conjunct that the action can disturb.
Further invariants that build on the first have names of their own: `WInv` in
SynchProofs for the lists, `LInv` for the locks and `Signalling` for the
signals, `AInv` in ProcessProofs, `VMInv` in VMProofs. The invariants were
checked with TLC on the instances of the runs before they were proved.

| Module | Theorem | Property | For any |
|---|---|---|---|
| `SynchProofs` | `TypeCorrect` | `TypeOK` | threads, semaphores, locks, condition variables, time slice |
| | `AlwaysAThread` | `NextIsThread` | the same |
| | `LocksExclude` | `LockExclusion` | the same |
| | `LocksImplementMutex` | `ImplementsMutex` | the same |
| | `ListsAgree` | `ElemOnOneList` | the same |
| | `WakeupsKept` | `NoLostWakeup` | the same |
| | `SignalsKept` | `NoLostSignal` | the same |
| `SyscallsProofs` | `Exclusion` | `OneInside` | processes, size of the descriptor table |
| | `FilesUsed` | `UsesFile` | the same |
| | `DescriptorsKept` | `FdKept` | the same |
| `ProcessProofs` | `ExecReportsLoad` | `ExecSeesItsOwnLoad` | number of processes, exit codes |
| | `WaitsBalance` | `WaitAccounting` | the same, exit codes other than -666 |
| `VMProofs` | `TablesStayInStep` | `TablesAgree` | processes, pages, frames, swap slots; one process runs |
| | `WritesSurvive` | `NoStaleReload` | the same |
| | `PagingUnseen` | `Transparent` | pages, and any larger number of frames |
| `FilesysProofs` | `DiskSafe` | `DiskConsistent` | threads, names, directory slots, sectors, file lengths, open inodes; without `Overlap` |
| | `SectorsKept` | `OpenKeepsSectors` | the same |
| | `ExecutablesStable` | `TextStable` | the same |
| `DiskProofs` | `PartitionsLieInside` | `PartitionsInside` | capacities, contents of the disks, width of sector numbers |
| | `TransfersAreExact` | `TransferExact` | the same, and threads |
| `ConsoleProofs` | `BytesInOrder` | `InOrder` | size of the queues, threads, length of messages |
| | `MessagesNotMixed` | `NotMixed` | the same |
| | `OneReaderNoPanic` | no assertion of `intq.c` fails | the same, one reader |
| `MemoryProofs` | `PagesSafe` | `PagesOwnedOnce` | threads, pages, descriptors, blocks in an arena, pages of a big block |
| | `BlocksSafe` | `BlocksExact` | the same |

**SynchProofs.** `TypeOK` is not inductive. With an empty run queue `schedule`
switches to `idle_thread`, which is null until the idle thread has set it.
`IInv` adds `IdleStarting`: as long as `idle_thread` is null, the idle thread
has executed nothing and is the current thread or on the run queue. So the run
queue is not empty when somebody else blocks, and idle itself cannot block
before it has set the variable. The lemmas say what the list operations do to
the elements, which instructions a call consists of, and what `Schedule`,
`ThreadYield`, `ThreadUnblock`, `ThreadBlock`, `ThreadExit` and `Up` do to the
types. Assumed: main and idle are different threads, `NULL` is none, the sets of
semaphores and locks are disjoint, time slices are positive.

The second half is about the lists. `elem` of `struct thread` is shared by the
run queue and the wait lists, and the code never tests whether it is in use, so
everything depends on who calls `thread_block`, `thread_unblock` and
`thread_yield` when. `Queued` and `Listed` say that lists and statuses agree
and that no list holds a thread twice, `Reachable` that a blocked thread is on
the list of the semaphore it is about to re-test, is idle or has never run: it
is being created, or its creation failed.
To keep them one has to know what can follow in a thread's code: `Shapes` says
where in a call thread_block, thread_unblock and the writing of the new
thread's number may stand, `IdleCode` what the idle thread executes, and
`Creation` that a thread under creation is named by exactly one creator's code,
is on no list and has run nothing. `WInv` is their conjunction with `IInv`.

The third part is about the locks. `LockExclusion` counts the threads that own a
lock by `holder` or by the place they are at in the middle of lock_acquire or
lock_release, so it depends on the code that they still have to execute. `Forms`
says how the instructions on locks follow each other there: `holder` is set
right after the semaphore was taken, cleared right before it is given back, and
no call releases two locks. `Owned` says that a thread whose code releases a
lock that it does not take before is its holder, `Released` that between the two
steps of lock_release `holder` does not name the thread, and `Exclusive` is
`LockExclusion` without counting. The bodies of the calls have the order of
`Forms`, and it survives every way in which code shrinks or grows: an
instruction done, a test repeated, a signal or an up put in front. `LockStep`
shows in one case analysis that a step preserves the invariant and that it
leaves all locks alone, or takes or gives back one for the running thread;
`LocksExclude` and `LocksImplementMutex` follow from it. `ListsAgree` is `WInv`
with the repetitions counted. `WakeupsKept` counts the threads that `sema_up`
took off a list and that have not re-tested: an up adds one such thread with its
unit or finds the list empty, a re-test takes a unit with the thread or finds
none, and `sema_try_down` and a `sema_down` that barges in only take units.

The last part is about condition variables. A waiter of `cond_wait` has a
semaphore of its own, so `NoLostSignal` needs to know that nobody but the one
signaller and the waiter itself ever touches it, which again depends on the code
that is still to be executed. `Roles` says that a thread's code is that of a
signaller, that of a waiter with exactly one sleep on its own semaphore, or
keeps away from both; `Signal` that a waiter which has joined the list and not
returned is at exactly one of three places: on a list, taken off by one
signaller whose next instruction ups its semaphore, or with a unit in it; and
`Lists` that no two lists share a waiter. A signal moves the waiter from the
first place to the second, the up from the second to the third and the end of
`sema_down` to none, and no other step moves it.

**SyscallsProofs.** That a call works on a file and not on a name needs to know
who may meet a name: `Naming` says that an entry holds one only while the one
process inside is about to replace it, or for ever when that process died
there, and then the semaphore is down for ever too. `Opening` follows open
between its two writes of the entry, `Returned` says what careful programs know
of their descriptors. Assumed: the table has an entry.

**ProcessProofs.** `load_sema` belongs to the parent and any child could up it.
`Handshake` says that a process that is loading is the child its parent waits
for in exec, so at most one child of a parent is loading; `OneUnit` that the
semaphore has a unit only between that child's up and the parent's down;
`Outcome` relates load's result, the exit status and the place of the child,
and `Reported` keeps what exec has returned true afterwards. Assumed: there is
a thread number and exit codes are integers.

`WaitAccounting` is an equation between a semaphore and two numbers of
children. `Listed` says that a list of children has no repetition and holds the
child that is being waited for, so that taking it off the list moves exactly
one child; `Accounts` is the equation. The theorem has the hypothesis that no
process exits with -666, the number that stands for "no status yet"
(`userprog/process.c:24`): with it a child that has exited would look like one
that has not.

**VMProofs.** The theorems are about a machine that runs one process, of any
size. `Types`, `Placing` (what the handler knows of its local variables at each
place) and `Backed` (a mapped page has a frame and belongs to a process that
runs) hold for any number of processes. For a lone process, `Alone` says what
the tables look like in the middle of a fault. `Agreeing`: directory and
supplemental table differ at most on the page that evict_page is taking away and
on the page that is being brought. `Saved`: a page that was written to is dirty
in the supplemental table, or is mapped with the dirty bit of the directory; so
the bit is not needed any more when `install_page` clears it. `Evicting` and
`Saving`: the hand stays on the victim, and the slot found for it stays free
until it is claimed. `Holding`, `Using` and `Sharing`: the absent dirty pages
and the slots of the process correspond one to one, except between the choice of
the victim and its write. For `Transparent`, `Roomed` says that nothing has been
evicted, that each mapped page has a frame which the frame table lists under
that page (`Lodged`), that no other frame is full but the one obtained last
(`Bringing`, `Tight`), and what the frames contain. Then there is an empty frame
at the start of each search, since the full ones are at most as many as the
pages (lemma `Spare`, by the pigeonhole principle), and its distance from the
hand and the number of frames passed stay below the number of frames
(`InSight`), so that the search ends at it before evict_page would be called.
Assumed: processes and pages are finitely many and are not -1, the kinds of
pages are disjoint, a machine has a frame and its programs use the stack page.

**FilesysProofs.** The theorems have the hypothesis `~Overlap` (see above), so
`Alone` says that one thread is inside the file system. Its disk writes are
still separate steps and the machine may stop between any two. A file is live
while a directory entry or an open inode leads to it; `Files` says that live
files have an inode on disk, share no sector and own only marked ones, in
memory; `Entries` that the files with a name are marked on disk too and that
names differ, but for those in `missed`; `Objects` that an inode object is what
the disk has, or is about to be read, and that a removed file has no name.
`Counted` says that an inode is open at least as often as it is being executed,
held by the thread inside and listed as open, and denied exactly as often as it
is executed. `Work` is what the thread inside may rely on by the point it has
reached: `Creating`, that the sectors it took belong to no live file and which
of them are already marked on disk; `Looking`, that the entry it found is still
there; `Using`, that its inode is open; `Releasing`, that what it gives back
belongs to nobody. After `Crash` nothing is open and the free map is the one on
disk, so `Files` follows from `Entries`. Assumed: sectors, lengths, directory
slots and inode objects are numbered, the directory is finite, callers and
loaders are different threads, and an inode can be opened at least once.

**DiskProofs.** `Booting` bounds what is on the stack of `read_partition_table`
and `Types` contains that every registered device lies on its disk; lemma
`FitsInside` is the arithmetic of `found_partition` with sector numbers that
wrap around. For the transfers `Channel` says that only the holder of the
channel's lock has a command under way, and describes the controller for each
place the holder can be at: what busy, the data request, the interrupt and the
unit of `completion_wait` can be, and which of buffer, data register and disk
already agree. Assumed: capacities fit in a sector number, the disks hold values
and partition tables.

**ConsoleProofs.** The first half is about `intq.c`: in a circular buffer of any
size `intq_putc` appends to the contents and `intq_getc` takes the first
(`AddedContents`, `TakenContents`), through the wrap-around of both positions.
`InOrder` then follows from these and from the laws of concatenation, with
`Polled`: nothing is queued while the port is polled. For `NotMixed`, `Holder`
says that the thread between `acquire_console` and `release_console` owns the
lock, `Waiter` that therefore nobody else sleeps in the transmit queue, and
`Turn` that a thread that has not begun has put nothing and that since the
owner's first byte only it and interrupt handlers have. So a step that fails the
assertion of `wait` is a reader's. With one reader there is none: `Lone` says
that the lock of the input buffer is taken only while the reader is asleep or
has just been woken, so it never waits for it. Assumed: a queue has at
least two places, and bytes, threads and `NULL` are different things.

**MemoryProofs.** Both properties speak of states between calls and in the
middle of them, and neither is inductive: that free may give back a page depends
on the count in the arena's header, on the blocks on the free list and on the
calls that still have a block of it. `Calls` says which lock a call holds and
that the pages a scan has found stay free until they are flipped, since the pool
is locked meanwhile; `Scans` says the same of the pages it has tested in the
middle of a run. `Headers` and `Handling` say that arenas, big blocks and calls
in progress have pages of their own, with one exception: free has decided to
give back the pages of a header that is still there. `Marked` says that
`used_map` marks exactly these pages. For the blocks, `Places` says that a block
is given out, on its way back, or on one free list once; `Lodged` that the arena
of each such block exists and has the descriptor of the list or of the call;
`Counts` that `free_cnt` is the number of the arena's blocks on the list, and
that nobody knows a block of an arena that is being released. So when `free_cnt`
reaches the number of blocks of an arena all of them are on the list, and
unlinking them takes exactly these off it (lemmas `ArenaOff`, `Lists`). The
lemmas on the actions take what they need of counting and unlinking as
hypotheses (`Counting`, `Unlinking`); these are proved in the second part, from
the theorems on finite sets, and discharged in `AllocatorInvariant`. Assumed:
arenas and big blocks are not empty, `Null` is no thread, descriptor or header.

Only model-checked: liveness, because the prover handles neither fairness nor
ENABLED; and the library, lists and hash tables, whose functions are recursive
operators that need induction over data.

## Abstractions

- Names, statuses, contents and file lengths are members of small sets. Page
  contents are "from the file", "written" or junk; a file's contents are its
  first data sector.
- A nested fault of the kernel on a user page, inside a fault, is represented
  by its end. A swap index of -1 reads an entry that is not in use, and the
  process exits.
- A write of the free map is one step; a part of it is written only when the
  write fails for want of memory. The inodes of the root directory and of the
  free map are always open and are not objects of the model.
- `parent_waiting` is written and never used; it is left out.
- `open` keeps a list of files per thread that nothing reads; it is left out.
- `close` as a system call does nothing, in the code and in the model.
- The idle thread's `hlt` and its wait for interrupts are stuttering.

## Not modelled

- Hardware tables and registers: GDT, TSS, IDT, PIC, PIT, VGA, speaker, clock
  and power. Their code writes constants to ports.
- Assembly: loader, start, switch, interrupt stubs. What `switch_threads` does
  is `Schedule` of Sched.
- Boot: command line, `paging_init`, calibration of the delay loops, the delays
  shorter than a tick, which are busy loops without state.
- `fsutil`, `ustar`, `hex_dump`, `print_human_readable_size` and the random
  numbers: formats and I/O without state that others depend on.
- File positions and transfers of parts of a sector in `inode_read_at` and
  `inode_write_at`.
- Bitmaps beyond scan, flip and clear; the hash functions themselves.
- The tests of the ELF header, one by one; a file is good or bad.
- `calloc` and `realloc`, which are sequences of the operations of Memory.
- The user library's stubs, example programs and host utilities, which are not
  part of the kernel.
