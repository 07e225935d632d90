------------------------------ MODULE Process ------------------------------
(***************************************************************************)
(* The life of user processes: process_execute, start_process, load,       *)
(* process_wait and thread_exit (src/userprog/process.c,                   *)
(* src/threads/thread.c) with the system calls exec, wait, exit and halt   *)
(* (src/userprog/syscall.c).                                               *)
(*                                                                         *)
(* Each process runs on its own thread; a step is a stretch of code between *)
(* two points where another thread can see the difference.  A semaphore is *)
(* its value: module Synch shows that waiters are woken.  The pages that   *)
(* hold struct thread_child are never freed, so they outlive the threads   *)
(* and are named by the child.                                             *)
(***************************************************************************)
EXTENDS Integers, Sequences, FiniteSets

CONSTANTS
  MaxTid,  \* bound: the processes that come to life
  Code     \* statuses that user programs pass to exit

Proc == 1 .. MaxTid  \* processes, named by the tid allocate_tid gives them
Main == 1            \* initial_thread, which starts the first process
NULL == 0

SYSCALL_ERROR == -1
UNUSED_CHILD_EXIT_STATUS == -666

ASSUME ProcessAssumption ==
  /\ MaxTid \in Nat \ {0}
  /\ Code \subseteq Int

VARIABLES
  pc,           \* where each process is
  kernel,       \* "up", "off" after a shutdown, "wild" after a write to a
                \* freed struct thread
  parent,       \* member parent of struct thread
  children,     \* member children: the list of struct thread_child
  exit_status,  \* member exit_status of the process's struct thread_child
  load_sema, wait_sema,
  loaded,       \* what load returned, "pending" before it returns
  executable,   \* the executable is open and writes to it are denied
  child,        \* the child that the exec or wait in progress is about
  result        \* what the last exec or wait returned, and for which child;
                \* NoResult after a call that returned -1 at once

vars == <<pc, kernel, parent, children, exit_status, load_sema, wait_sema,
          loaded, executable, child, result>>

Elems(s) == {s[i] : i \in DOMAIN s}

NoResult == [call |-> "none", child |-> NULL, failed |-> FALSE, value |-> 0]

At(p, label) == kernel = "up" /\ pc[p] = label

Goto(p, label) == pc' = [pc EXCEPT ![p] = label]

\* exec: process_execute creates the child's thread, which thread_create
\* appends to the caller's children and puts on the run queue.  The caller's
\* list is touched by the caller only, so this is one step.
ThreadCreate(p, c, next) ==
  /\ pc[c] = "none" /\ \A q \in 1 .. c - 1 : pc[q] # "none"
  /\ pc' = [pc EXCEPT ![p] = next, ![c] = "load"]
  /\ parent' = [parent EXCEPT ![c] = p]
  /\ children' = [children EXCEPT ![p] = Append(@, c)]
  /\ exit_status' = [exit_status EXCEPT ![c] = UNUSED_CHILD_EXIT_STATUS]
  /\ child' = [child EXCEPT ![p] = c]
  /\ UNCHANGED <<kernel, load_sema, wait_sema, loaded, executable, result>>

CallExec(p) ==
  /\ At(p, "user")
  /\ Goto(p, "exec")
  /\ UNCHANGED <<kernel, parent, children, exit_status, load_sema, wait_sema,
                 loaded, executable, child, result>>

\* exec of a command line that is not in the page directory returns -1.
ExecRefused(p) ==
  /\ At(p, "user")
  /\ result' = [result EXCEPT ![p] = NoResult]
  /\ UNCHANGED <<pc, kernel, parent, children, exit_status, load_sema,
                 wait_sema, loaded, executable, child>>

\* Mutation: exec does not wait for load.
Exec_NoWait(p) == At(p, "exec") /\ \E c \in Proc : ThreadCreate(p, c, "exec_check")

Exec(p) == At(p, "exec") /\ \E c \in Proc : ThreadCreate(p, c, "exec_load")

\* exec when no page is left for the copies of the command line, the thread
\* or its struct thread_child: get_child_by_tid (TID_ERROR) is null, exec
\* writes through it and page_fault calls exit (-1).
ExecNoMemory(p) ==
  /\ At(p, "exec")
  /\ exit_status' = [exit_status EXCEPT ![p] = SYSCALL_ERROR]
  /\ Goto(p, "exit_up")
  /\ UNCHANGED <<kernel, parent, children, load_sema, wait_sema, loaded,
                 executable, child, result>>

\* exec: wait for the child to be loaded.
ExecLoadDown(p) ==
  /\ At(p, "exec_load")
  /\ load_sema[p] > 0
  /\ load_sema' = [load_sema EXCEPT ![p] = @ - 1]
  /\ Goto(p, "exec_check")
  /\ UNCHANGED <<kernel, parent, children, exit_status, wait_sema, loaded,
                 executable, child, result>>

\* exec: a child whose exit status is -1 is reported as not started.
ExecReturn(p) ==
  LET c == child[p] IN
  /\ At(p, "exec_check")
  /\ result' = [result EXCEPT ![p] =
       [call |-> "exec", child |-> c, failed |-> exit_status[c] = SYSCALL_ERROR,
        value |-> 0]]
  /\ Goto(p, "user")
  /\ UNCHANGED <<kernel, parent, children, exit_status, load_sema, wait_sema,
                 loaded, executable, child>>

\* load: page directory and filesys_open; both may fail.  On success writes to
\* the executable are denied.
LoadOpen(p) ==
  /\ At(p, "load")
  /\ \/ executable' = [executable EXCEPT ![p] = TRUE] /\ Goto(p, "load_file")
     \/ UNCHANGED executable /\ Goto(p, "load_fail")
  /\ UNCHANGED <<kernel, parent, children, exit_status, load_sema, wait_sema,
                 loaded, child, result>>

\* load: headers, segments and stack, any of which may be rejected.
LoadFile(p) ==
  /\ At(p, "load_file")
  /\ \/ loaded' = [loaded EXCEPT ![p] = "true"] /\ Goto(p, "load_up")
     \/ UNCHANGED loaded /\ Goto(p, "load_fail")
  /\ UNCHANGED <<kernel, parent, children, exit_status, load_sema, wait_sema,
                 executable, child, result>>

\* load does not return: setup_stack needs a frame, evict_page finds no swap
\* slot or no entry for its victim and exit (-1) is called; or setup_stack
\* writes below the stack page and page_fault calls exit (-1).
LoadKilled(p) ==
  /\ At(p, "load_file")
  /\ exit_status' = [exit_status EXCEPT ![p] = SYSCALL_ERROR]
  /\ Goto(p, "exit_up")
  /\ UNCHANGED <<kernel, parent, children, load_sema, wait_sema, loaded,
                 executable, child, result>>

\* Mutation: a load that fails does not tell the parent.
LoadFail_NoUp(p) ==
  /\ At(p, "load_fail")
  /\ exit_status' = [exit_status EXCEPT ![p] = SYSCALL_ERROR]
  /\ loaded' = [loaded EXCEPT ![p] = "false"]
  /\ Goto(p, "loaded")
  /\ UNCHANGED <<kernel, parent, children, load_sema, wait_sema, executable,
                 child, result>>

LoadFail(p) ==
  /\ At(p, "load_fail")
  /\ exit_status' = [exit_status EXCEPT ![p] = SYSCALL_ERROR]
  /\ loaded' = [loaded EXCEPT ![p] = "false"]
  /\ Goto(p, "load_up")
  /\ UNCHANGED <<kernel, parent, children, load_sema, wait_sema, executable,
                 child, result>>

\* The up of a semaphore that is a member of q's struct thread, whose page is
\* freed when q is dead.
UpMember(sema, q) ==
  IF pc[q] = "dead"
  THEN sema' = sema /\ kernel' = "wild"
  ELSE sema' = [sema EXCEPT ![q] = @ + 1] /\ UNCHANGED kernel

\* load, label done: tell the parent.
LoadUp(p) ==
  /\ At(p, "load_up")
  /\ UpMember(load_sema, parent[p])
  /\ Goto(p, "loaded")
  /\ UNCHANGED <<parent, children, exit_status, wait_sema, loaded, executable,
                 child, result>>

\* start_process: run the program, or leave when load failed.
StartProcess(p) ==
  /\ At(p, "loaded")
  /\ IF loaded[p] = "true"
     THEN Goto(p, "user") /\ UNCHANGED exit_status
     ELSE /\ exit_status' = [exit_status EXCEPT ![p] = SYSCALL_ERROR]
          /\ Goto(p, "exit_up")
  /\ UNCHANGED <<kernel, parent, children, load_sema, wait_sema, loaded,
                 executable, child, result>>

\* process_wait: look the tid up in the list of children; -1 if not there.
CallWait(p, c) ==
  /\ At(p, "user")
  /\ IF c \in Elems(children[p])
     THEN /\ child' = [child EXCEPT ![p] = c]
          /\ Goto(p, "wait")
          /\ UNCHANGED result
     ELSE /\ result' = [result EXCEPT ![p] = NoResult]
          /\ UNCHANGED <<pc, child>>
  /\ UNCHANGED <<kernel, parent, children, exit_status, load_sema, wait_sema,
                 loaded, executable>>

ChildGone(p) == wait_sema[p] > 0

WaitDown(p) ==
  /\ At(p, "wait")
  /\ ChildGone(p)
  /\ wait_sema' = [wait_sema EXCEPT ![p] = @ - 1]
  /\ Goto(p, "wait_read")
  /\ UNCHANGED <<kernel, parent, children, exit_status, load_sema, loaded,
                 executable, child, result>>

\* Mutation: the child stays on the list.
RemoveChild_Not(p, c) == UNCHANGED children

\* list_remove.
Without(s, i) == SubSeq(s, 1, i - 1) \o SubSeq(s, i + 1, Len(s))

RemoveChild(p, c) ==
  \E i \in DOMAIN children[p] :
    /\ children[p][i] = c
    /\ children' = [children EXCEPT ![p] = Without(@, i)]

\* process_wait: read the status, take the child off the list.
WaitReturn(p) ==
  LET c == child[p] IN
  /\ At(p, "wait_read")
  /\ result' = [result EXCEPT ![p] =
       [call |-> "wait", child |-> c, failed |-> FALSE,
        value |-> exit_status[c]]]
  /\ RemoveChild(p, c)
  /\ IF p = Main
     THEN kernel' = "off" /\ Goto(p, "off")
     ELSE UNCHANGED kernel /\ Goto(p, "user")
  /\ UNCHANGED <<parent, exit_status, load_sema, wait_sema, loaded,
                 executable, child>>

StoreStatus(p, status) == exit_status' = [exit_status EXCEPT ![p] = status]

\* exit, also called by kill and page_fault when the process must die.
Exit(p) ==
  /\ At(p, "user")
  /\ \E status \in Code \cup {SYSCALL_ERROR} : StoreStatus(p, status)
  /\ Goto(p, "exit_up")
  /\ UNCHANGED <<kernel, parent, children, load_sema, wait_sema, loaded,
                 executable, child, result>>

\* thread_exit, in its order: up the parent's wait_sema, close the executable,
\* give up the CPU for the last time (the page is then freed).
ExitUp(p) ==
  /\ At(p, "exit_up")
  /\ UpMember(wait_sema, parent[p])
  /\ Goto(p, "exit_close")
  /\ UNCHANGED <<parent, children, exit_status, load_sema, loaded, executable,
                 child, result>>

ExitClose(p) ==
  /\ At(p, "exit_close")
  /\ executable' = [executable EXCEPT ![p] = FALSE]
  /\ Goto(p, "exit_die")
  /\ UNCHANGED <<kernel, parent, children, exit_status, load_sema, wait_sema,
                 loaded, child, result>>

ExitDie(p) ==
  /\ At(p, "exit_die")
  /\ Goto(p, "dead")
  /\ children' = [children EXCEPT ![p] = <<>>]
  /\ load_sema' = [load_sema EXCEPT ![p] = 0]
  /\ wait_sema' = [wait_sema EXCEPT ![p] = 0]
  /\ child' = [child EXCEPT ![p] = NULL]
  /\ result' = [result EXCEPT ![p] = NoResult]
  /\ UNCHANGED <<kernel, parent, exit_status, loaded, executable>>

\* halt.
Halt(p) ==
  /\ At(p, "user")
  /\ kernel' = "off"
  /\ UNCHANGED <<pc, parent, children, exit_status, load_sema, wait_sema,
                 loaded, executable, child, result>>

\* run_task: main starts the first process and waits for it.
RunTask ==
  /\ At(Main, "boot")
  /\ \E c \in Proc : ThreadCreate(Main, c, "wait")

-----------------------------------------------------------------------------
Init ==
  /\ pc = [p \in Proc |-> IF p = Main THEN "boot" ELSE "none"]
  /\ kernel = "up"
  /\ parent = [p \in Proc |-> NULL]
  /\ children = [p \in Proc |-> <<>>]
  /\ exit_status = [p \in Proc |-> UNUSED_CHILD_EXIT_STATUS]
  /\ load_sema = [p \in Proc |-> 0]
  /\ wait_sema = [p \in Proc |-> 0]
  /\ loaded = [p \in Proc |-> "pending"]
  /\ executable = [p \in Proc |-> FALSE]
  /\ child = [p \in Proc |-> NULL]
  /\ result = [p \in Proc |-> NoResult]

\* Steps the kernel takes by itself once a call is made.
KernelStep(p) ==
  \/ Exec(p) \/ ExecNoMemory(p) \/ ExecLoadDown(p) \/ ExecReturn(p)
  \/ LoadOpen(p) \/ LoadFile(p) \/ LoadKilled(p) \/ LoadFail(p) \/ LoadUp(p)
  \/ StartProcess(p)
  \/ WaitDown(p) \/ WaitReturn(p)
  \/ ExitUp(p) \/ ExitClose(p) \/ ExitDie(p)

UserStep(p) ==
  \/ CallExec(p) \/ ExecRefused(p) \/ Exit(p) \/ Halt(p) \/ \E c \in Proc : CallWait(p, c)

Next ==
  \/ RunTask
  \/ \E p \in Proc : KernelStep(p) \/ UserStep(p)

Spec == Init /\ [][Next]_vars

\* Threads that can run get the CPU (module Synch); user programs are free to
\* run for ever.
FairSpec == Spec /\ \A p \in Proc : WF_vars(KernelStep(p))

-----------------------------------------------------------------------------
(***************************************************************************)
(* Properties.                                                             *)
(***************************************************************************)
Label == {"none", "boot", "user", "exec", "exec_load", "exec_check", "load",
          "load_file", "load_fail", "load_up", "loaded", "wait", "wait_read",
          "exit_up", "exit_close", "exit_die", "dead", "off"}

Status == Code \cup {SYSCALL_ERROR, UNUSED_CHILD_EXIT_STATUS}

\* Every variable has its type.
TypeOK ==
  /\ pc \in [Proc -> Label]
  /\ kernel \in {"up", "off", "wild"}
  /\ parent \in [Proc -> Proc \cup {NULL}]
  /\ children \in [Proc -> Seq(Proc)]
  /\ exit_status \in [Proc -> Status]
  /\ load_sema \in [Proc -> Nat] /\ wait_sema \in [Proc -> Nat]
  /\ loaded \in [Proc -> {"pending", "true", "false"}] /\ executable \in [Proc -> BOOLEAN]
  /\ child \in [Proc -> Proc \cup {NULL}]
  /\ result \in [Proc -> [call : {"none", "exec", "wait"},
                          child : Proc \cup {NULL}, failed : BOOLEAN,
                          value : Status \cup {0}]]

Loading == {"load", "load_file", "load_fail", "load_up"}
Announced == {"exit_close", "exit_die", "dead"}

ChildrenOf(p) == {c \in Proc : parent[c] = p}

Leaving(p) == pc[p] = "exit_up" \/ pc[p] \in Announced

\* The handshake of exec: the unit of load_sema that exec takes comes from the
\* child it has just created, never from another one, so load has finished
\* when exec looks at the child's status.  And multi-oom.c: "if a process
\* doesn't actually get to start, exec() must return -1, not a valid PID".  A
\* child that was loaded is reported as not started only if it has called
\* exit (-1) by then: exec reads its status after the handshake.  A process
\* that is loading has a parent that waits for it, so load never touches a
\* freed parent.
ExecSeesItsOwnLoad ==
  \A p \in Proc :
    LET c == result[p].child IN
    /\ pc[p] = "exec_check" => loaded[child[p]] # "pending"
    /\ result[p].call = "exec" =>
         IF result[p].failed THEN loaded[c] = "false" \/ Leaving(c)
         ELSE loaded[c] = "true"
    /\ pc[p] \in Loading => pc[parent[p]] \in {"exec_load", "wait"}

\* The bookkeeping behind process_wait: every unit a child's thread_exit puts
\* into wait_sema is still there, has been taken by the wait in progress, or
\* paid for a child that left the list.  So process_wait returns a child's
\* own final status when that child is the only one not yet waited for.
WaitAccounting ==
  /\ TypeOK
  /\ \A p \in Proc : kernel = "up" /\ pc[p] # "dead" =>
       wait_sema[p] + Cardinality(ChildrenOf(p) \ Elems(children[p]))
         + (IF pc[p] = "wait_read" THEN 1 ELSE 0)
       = Cardinality({c \in ChildrenOf(p) : pc[c] \in Announced})
  /\ \A p \in Proc : pc[p] = "wait_read" /\ Elems(children[p]) = {child[p]} =>
       /\ pc[child[p]] \in Announced
       /\ exit_status[child[p]] # UNUSED_CHILD_EXIT_STATUS

\* A child that was ended inside load and has told nobody.
LostInLoad(c) == pc[c] \in Announced /\ loaded[c] = "pending"

\* What becomes of an exec for which memory runs out: the caller itself is
\* ended (ExecNoMemory), or it waits for a child that was (LoadKilled).
OutOfMemory(p) ==
  \/ pc[p] = "exit_up"
  \/ pc[p] = "exec_load" /\ LostInLoad(child[p])

\* As long as memory lasts exec comes back, whether load succeeds or fails;
\* ExecReturns is the same without the exception, and does not hold.  A wait
\* does not hang when all children are on their way out.  And although
\* thread_exit tells the parent first, the executable of a process that was
\* waited for becomes writable in the end.
CallsReturn ==
  \A p \in Proc :
    /\ pc[p] = "exec" ~> pc[p] = "user" \/ kernel # "up" \/ OutOfMemory(p)
    /\ (pc[p] = "wait" /\ \A c \in ChildrenOf(p) : pc[c] \in Announced)
         ~> (pc[p] # "wait" \/ kernel # "up")
    /\ pc[p] \in Announced ~> ~executable[p] \/ kernel # "up"

\* exec comes back to its caller, with -1 when the process could not be
\* started.  multi-oom.c: "We require that, if a process doesn't actually get
\* to start, exec() must return -1, not a valid PID."
ExecReturns ==
  \A p \in Proc : pc[p] = "exec" ~> pc[p] = "user" \/ kernel # "up"

\* process_wait: "Waits for thread TID to die and returns its exit status."
WaitReturnsStatus ==
  \A p \in Proc : result[p].call = "wait" =>
                    result[p].value # UNUSED_CHILD_EXIT_STATUS
=============================================================================
