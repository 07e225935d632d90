------------------------------ MODULE Syscalls -----------------------------
(***************************************************************************)
(* The file system calls of src/userprog/syscall.c: the table              *)
(* file_descriptors, shared by all processes, and filesys_sema.  What the  *)
(* file system does inside is module Filesys; here a call that touches     *)
(* user memory inside may also end in a page fault that kills the process. *)
(***************************************************************************)
EXTENDS Integers, FiniteSets, FiniteSetsExt

CONSTANTS
  Proc,   \* user processes
  Size    \* entries of file_descriptors (128)

ASSUME SizeAssumption == Size \in Nat \ {0}

Index == 0 .. Size - 1

\* The descriptors a program may pass: 0 and 1 are the console.
Fd == 0 .. Size + 1

\* The struct file of the i-th open is i + 1.  NAME is the address of a
\* user's string, which get_file_descriptor leaves in the table for a moment.
File == Nat \ {0}
NULL == 0
NAME == -1

VARIABLES
  filesys_sema,
  file_descriptors,
  pc,        \* user, down (at sema_down), in, get_fd, set_fd, up, dead
  op,        \* the call
  fd,        \* its descriptor
  file_ptr,  \* the local file pointer
  opened,    \* the struct files made so far
  own,       \* the descriptors open has returned to each process
  careful,   \* TRUE: programs pass buffers and names that are in memory, and
             \* descriptors that open has returned to them, and a page for
             \* struct thread_file is always left
  kernel     \* up, or wild after a write outside the table

vars == <<filesys_sema, file_descriptors, pc, op, fd, file_ptr, opened,
          own, careful, kernel>>
quiet == <<own, careful, kernel>>

Goto(p, label) == pc' = [pc EXCEPT ![p] = label]
At(p, label) == kernel = "up" /\ pc[p] = label

fd_to_file_ptr(d) == IF d < 2 \/ d > Size + 1 THEN NULL ELSE file_descriptors[d - 2]

(***************************************************************************)
(* Entering a call: what happens before sema_down.                         *)
(***************************************************************************)
MayPass(p, d) == careful => d \in own[p]

Call(p, o, d, label) ==
  /\ At(p, "user")
  /\ op' = [op EXCEPT ![p] = o]
  /\ fd' = [fd EXCEPT ![p] = d]
  /\ Goto(p, label)
  /\ UNCHANGED <<filesys_sema, file_descriptors, opened, quiet>>

CallNamed(p, o) ==
  /\ Call(p, o, 0, "down")
  /\ UNCHANGED file_ptr

\* The handler and create exit when a name or a buffer is not in the page
\* directory (for read: not a user address).  remove does not look.
Refused(p, o) ==
  /\ ~careful
  /\ Call(p, o, 0, "dead")
  /\ UNCHANGED file_ptr

\* write to the console, and close, do nothing here.
CallWrite(p, d) ==
  /\ Call(p, "write", d, IF d = 1 THEN "user" ELSE "down")
  /\ UNCHANGED file_ptr

CallClose(p, d) ==
  /\ Call(p, "close", d, "user")
  /\ UNCHANGED file_ptr

CallFilesize(p, d) ==
  /\ MayPass(p, d)
  /\ Call(p, "filesize", d, "down")
  /\ UNCHANGED file_ptr

\* The handler looks at a read's descriptor before read does, with nothing
\* held, and exits without one.
CallRead(p, d) ==
  /\ MayPass(p, d)
  /\ Call(p, "read", d, IF fd_to_file_ptr(d) = NULL THEN "dead" ELSE "down")
  /\ UNCHANGED file_ptr

\* seek and tell take the pointer before sema_down.
CallSeek(p, o, d) ==
  /\ MayPass(p, d)
  /\ Call(p, o, d, IF fd_to_file_ptr(d) = NULL THEN "dead" ELSE "down")
  /\ file_ptr' = [file_ptr EXCEPT ![p] = fd_to_file_ptr(d)]

(***************************************************************************)
(* Inside.                                                                 *)
(***************************************************************************)
Available == filesys_sema > 0

SemaDown(p) ==
  /\ At(p, "down") /\ Available
  /\ filesys_sema' = filesys_sema - 1
  /\ Goto(p, "in")
  /\ UNCHANGED <<file_descriptors, op, fd, file_ptr, opened, quiet>>

\* Mutation: the error path forgets sema_up.
NoFile_Return == "user"

\* A descriptor that leads nowhere is an error, after sema_up.
NoFile == "up"

\* read, write and filesize take the pointer inside.
WithFile(p) ==
  /\ At(p, "in") /\ op[p] \in {"read", "write", "filesize"}
  /\ ~(op[p] = "filesize" /\ fd[p] < 2)
  /\ file_ptr' = [file_ptr EXCEPT ![p] = fd_to_file_ptr(fd[p])]
  /\ Goto(p, IF file_ptr'[p] = NULL THEN NoFile ELSE "use")
  /\ UNCHANGED <<filesys_sema, file_descriptors, op, fd, opened, quiet>>

\* filesize of 0 or 1 returns at once, with the semaphore down.
FilesizeConsole(p) ==
  /\ At(p, "in") /\ op[p] = "filesize" /\ fd[p] < 2
  /\ Goto(p, "user")
  /\ UNCHANGED <<filesys_sema, file_descriptors, op, fd, file_ptr, opened, quiet>>

\* seek and tell, create and remove, and the rest of the calls above.
Use(p) ==
  /\ \/ At(p, "in") /\ op[p] \in {"seek", "tell", "create", "remove"}
     \/ At(p, "use")
  /\ Goto(p, "up")
  /\ UNCHANGED <<filesys_sema, file_descriptors, op, fd, file_ptr, opened, quiet>>

\* open: filesys_open fails, or a struct file is made ...
OpenFile(p) ==
  /\ At(p, "in") /\ op[p] = "open"
  /\ \/ Goto(p, "up") /\ UNCHANGED <<file_ptr, opened>>
     \/ /\ opened' = opened + 1
        /\ file_ptr' = [file_ptr EXCEPT ![p] = opened']
        /\ Goto(p, "get_fd")
  /\ UNCHANGED <<filesys_sema, file_descriptors, op, fd, quiet>>

\* Mutation: entries in use are taken for empty.
Empty_Any == Index

Empty == {i \in Index : file_descriptors[i] = NULL}

\* ... get_file_descriptor takes the first empty entry, with the name ...

GetFd(p) ==
  /\ At(p, "get_fd") /\ Empty # {}
  /\ file_descriptors' = [file_descriptors EXCEPT ![Min(Empty)] = NAME]
  /\ fd' = [fd EXCEPT ![p] = Min(Empty) + 2]
  /\ Goto(p, "set_fd")
  /\ UNCHANGED <<filesys_sema, op, file_ptr, opened, quiet>>

\* ... or returns 0 when the table is full, and open writes at index -2 ...
GetFdFull(p) ==
  /\ At(p, "get_fd") /\ Empty = {}
  /\ kernel' = "wild"
  /\ UNCHANGED <<filesys_sema, file_descriptors, pc, op, fd, file_ptr, opened,
                 own, careful>>

\* ... or open has no page for struct thread_file: it writes through a null
\* pointer, when the name is already in the table, and dies of the fault ...
OpenNoMemory(p) ==
  /\ ~careful
  /\ At(p, "set_fd")
  /\ Goto(p, "dead")
  /\ UNCHANGED <<filesys_sema, file_descriptors, op, fd, file_ptr, opened, quiet>>

\* Mutation: the entry keeps the name.
SetFd_Not(p) ==
  /\ At(p, "set_fd")
  /\ Goto(p, "up")
  /\ UNCHANGED <<filesys_sema, file_descriptors, op, fd, file_ptr, opened, quiet>>

\* ... and open puts the file there.
SetFd(p) ==
  /\ At(p, "set_fd")
  /\ file_descriptors' = [file_descriptors EXCEPT ![fd[p] - 2] = file_ptr[p]]
  /\ Goto(p, "up")
  /\ UNCHANGED <<filesys_sema, op, fd, file_ptr, opened, quiet>>

\* Mutation: sema_up is left out.
Up_Not == filesys_sema

Up == filesys_sema + 1

\* Every call ends with sema_up; its locals are gone then.
SemaUp(p) ==
  /\ At(p, "up")
  /\ filesys_sema' = Up
  /\ Goto(p, "user")
  /\ own' = IF op[p] = "open" /\ fd[p] # 0
            THEN [own EXCEPT ![p] = @ \cup {fd[p]}] ELSE own
  /\ op' = [op EXCEPT ![p] = "close"]
  /\ fd' = [fd EXCEPT ![p] = 0]
  /\ file_ptr' = [file_ptr EXCEPT ![p] = NULL]
  /\ UNCHANGED <<file_descriptors, opened, careful, kernel>>

\* A page fault on the user's buffer or name ends in exit, wherever it comes
\* from, and nothing gives the semaphore back.  So does one on another
\* process's string that seek or tell took for a file.
Killed(p) ==
  /\ \/ ~careful /\ At(p, "in") /\ op[p] \in {"create", "open", "remove"}
     \/ ~careful /\ At(p, "use") /\ op[p] \in {"read", "write"}
     \/ At(p, "in") /\ op[p] \in {"seek", "tell"} /\ file_ptr[p] = NAME
  /\ Goto(p, "dead")
  /\ UNCHANGED <<filesys_sema, file_descriptors, op, fd, file_ptr, opened, quiet>>

Init ==
  /\ filesys_sema = 1
  /\ file_descriptors = [i \in Index |-> NULL]
  /\ pc = [p \in Proc |-> "user"]
  /\ op = [p \in Proc |-> "close"]
  /\ fd = [p \in Proc |-> 0]
  /\ file_ptr = [p \in Proc |-> NULL]
  /\ opened = 0
  /\ own = [p \in Proc |-> {}]
  /\ careful \in BOOLEAN
  /\ kernel = "up"

Inside(p) ==
  \/ WithFile(p) \/ FilesizeConsole(p) \/ Use(p)
  \/ OpenFile(p) \/ GetFd(p) \/ GetFdFull(p) \/ SetFd(p)
  \/ OpenNoMemory(p) \/ SemaUp(p)

Enter(p) ==
  \/ \E o \in {"create", "remove", "open"} : CallNamed(p, o)
  \/ \E o \in {"create", "open", "read", "write"} : Refused(p, o)
  \/ \E d \in Fd : \/ CallWrite(p, d) \/ CallClose(p, d) \/ CallFilesize(p, d)
                   \/ CallRead(p, d)
                   \/ \E o \in {"seek", "tell"} : CallSeek(p, o, d)

Next == \E p \in Proc : Enter(p) \/ SemaDown(p) \/ Inside(p) \/ Killed(p)

Spec == Init /\ [][Next]_vars

\* A process that can run does.  sema_up wakes a waiter but does not hand the
\* semaphore over: a process that comes by before the waiter runs takes it, and
\* the waiter queues again, at the back.  So one that waits gets in when the
\* semaphore stays up, and may be passed over otherwise.
Fairness == \A p \in Proc : WF_vars(Inside(p)) /\ WF_vars(SemaDown(p))

FairSpec == Spec /\ Fairness

(***************************************************************************)
(* Properties.                                                             *)
(***************************************************************************)
Holding == {p \in Proc : pc[p] \in {"in", "use", "get_fd", "set_fd", "up"}}

\* Every variable has its type: filesys_sema is never above 1.
TypeOK ==
  /\ filesys_sema \in {0, 1}
  /\ file_descriptors \in [Index -> File \cup {NULL, NAME}]
  /\ pc \in [Proc -> {"user", "down", "in", "use", "get_fd", "set_fd", "up", "dead"}]
  /\ fd \in [Proc -> Fd]
  /\ file_ptr \in [Proc -> File \cup {NULL, NAME}]
  /\ opened \in Nat
  /\ own \in [Proc -> SUBSET Fd]

\* At most one process is inside the file system, and when one is inside the
\* semaphore is down: also after calls that returned early or were killed.
\* Careful programs' calls all pass a sema_up, also on their early returns, so
\* that the semaphore is down only while one is inside.
OneInside ==
  /\ Cardinality(Holding) <= 1
  /\ Holding # {} => filesys_sema = 0
  /\ careful /\ filesys_sema = 0 => Holding # {}

\* The calls work on a file, never on the name that get_file_descriptor
\* leaves in the table for a moment: read, write and filesize look inside the
\* semaphore, and nobody but the opener can know the descriptor that seek and
\* tell would have to be called with outside.
UsesFile ==
  /\ TypeOK
  /\ \A p \in Proc :
       \/ pc[p] = "use"
       \/ careful /\ pc[p] = "in" /\ op[p] \in {"seek", "tell"}
       => file_ptr[p] \in File

\* A descriptor leads to the same file as long as the system runs, whatever
\* the other processes open: the table is shared, and only an empty entry is
\* taken.
FdKept ==
  [][\A i \in Index :
       file_descriptors[i] \in File =>
         file_descriptors'[i] = file_descriptors[i]]_vars

\* Nobody keeps the semaphore: a careful program's call that got in comes out,
\* and one that waits comes back, unless other processes call for ever and
\* barge in before it each time (sema_down in synch.c lets them).
CallReturns ==
  \A p \in Proc :
    /\ careful /\ p \in Holding ~> pc[p] = "user" \/ kernel = "wild"
    /\ <>[](\A q \in Proc \ {p} : pc[q] \in {"user", "dead"}) =>
         (careful /\ pc[p] = "down" ~> pc[p] = "user" \/ kernel = "wild")
=============================================================================
