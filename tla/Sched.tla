------------------------------- MODULE Sched -------------------------------
(***************************************************************************)
(* The scheduler of src/threads/thread.c: thread states, the FIFO run      *)
(* queue, the thread that owns the CPU and its time slice.                 *)
(*                                                                         *)
(* There is one CPU.  Code between intr_disable and intr_set_level is one  *)
(* atomic step; everywhere else a timer interrupt may preempt the running  *)
(* thread.                                                                 *)
(***************************************************************************)
EXTENDS Naturals, Sequences

CONSTANTS
  Thread,      \* the pages that may hold a struct thread
  Main,        \* initial_thread
  Idle,        \* the thread that executes idle()
  NULL,        \* the null pointer
  TIME_SLICE   \* timer ticks a thread may run before it is preempted

ASSUME ThreadAssumption ==
  /\ Main \in Thread /\ Idle \in Thread /\ Main # Idle
  /\ NULL \notin Thread
  /\ TIME_SLICE \in Nat \ {0}

VARIABLES
  status,        \* enum thread_status, or FREE when the page holds no thread
  ready_list,    \* threads ready to run, in the order they will run
  current,       \* running_thread(): the owner of the stack the CPU is on
  idle_thread,   \* the static variable of that name
  thread_ticks   \* ticks since the running thread got the CPU

schedVars == <<status, ready_list, current, idle_thread, thread_ticks>>

Status == {"RUNNING", "READY", "BLOCKED", "DYING", "FREE"}

\* next_thread_to_run: the head of the run queue, the idle thread if none.
NextThreadToRun(ready) == IF ready = <<>> THEN idle_thread ELSE Head(ready)

\* thread_schedule_tail: the switch is complete, `next' runs, a dying
\* predecessor's page is freed (never initial_thread's).
ThreadScheduleTail(st, next) ==
  [t \in Thread |->
     IF t = next THEN "RUNNING"
     ELSE IF t = current /\ st[t] = "DYING" /\ t # Main THEN "FREE"
     ELSE st[t]]

\* schedule, entered with the statuses st and the run queue `ready'.
Schedule(st, ready) ==
  LET next == NextThreadToRun(ready) IN
  /\ current' = next
  /\ ready_list' = IF ready = <<>> THEN ready ELSE Tail(ready)
  /\ status' = ThreadScheduleTail(st, next)
  /\ thread_ticks' = 0
  /\ UNCHANGED idle_thread

\* thread_block: the running thread leaves the CPU and joins no list.
ThreadBlock == Schedule([status EXCEPT ![current] = "BLOCKED"], ready_list)

\* Mutation: list_push_front instead of list_push_back.
ThreadYield_Front ==
  Schedule([status EXCEPT ![current] = "READY"],
           IF current = idle_thread THEN ready_list
           ELSE <<current>> \o ready_list)

\* thread_yield: the running thread goes to the back of the run queue; the
\* idle thread is never put there.
ThreadYield ==
  Schedule([status EXCEPT ![current] = "READY"],
           IF current = idle_thread THEN ready_list
           ELSE Append(ready_list, current))

\* The end of thread_exit.
ThreadExit == Schedule([status EXCEPT ![current] = "DYING"], ready_list)

\* thread_unblock.
ThreadUnblock(t) ==
  /\ ready_list' = Append(ready_list, t)
  /\ status' = [status EXCEPT ![t] = "READY"]
  /\ UNCHANGED <<current, idle_thread, thread_ticks>>

\* thread_tick, and the thread_yield that intr_handler performs on the way
\* out when the slice is used up.
ThreadTick ==
  \/ /\ thread_ticks + 1 < TIME_SLICE
     /\ thread_ticks' = thread_ticks + 1
     /\ UNCHANGED <<status, ready_list, current, idle_thread>>
  \/ /\ thread_ticks + 1 >= TIME_SLICE
     /\ ThreadYield

\* The state thread_start leaves when it turns interrupts on: idle has been
\* created and waits for the CPU, main is running.
SchedInit ==
  /\ status = [t \in Thread |-> CASE t = Main -> "RUNNING"
                                  [] t = Idle -> "READY"
                                  [] OTHER    -> "FREE"]
  /\ ready_list = <<Idle>>
  /\ current = Main
  /\ idle_thread = NULL
  /\ thread_ticks = 0
=============================================================================
