------------------------------- MODULE Synch -------------------------------
(***************************************************************************)
(* The synchronization primitives of src/threads/synch.c on top of the     *)
(* scheduler: semaphores, locks, condition variables, thread creation and  *)
(* termination, timer preemption and interrupt handlers that call sema_up. *)
(*                                                                         *)
(* code[t] is what is left of the kernel call thread t is executing: a     *)
(* sequence of instructions, each one an interrupt-free stretch of the     *)
(* source.  A thread may be preempted between any two of them.             *)
(***************************************************************************)
EXTENDS Sched, FiniteSets

CONSTANTS
  Plain,         \* semaphores used as such
  IntrSema,      \* those among them that interrupt handlers may up
  idle_started,  \* the semaphore of thread_start
  Lock,          \* locks
  tid_lock,      \* the lock of allocate_tid
  Cond,          \* condition variables
  LockOf,        \* the lock each condition variable is associated with
  MaxValue,      \* bound: no up of a plain semaphore starts at this value
  MaxTid         \* bound: no thread is created once next_tid exceeds it

\* A lock's semaphore is named by the lock, the semaphore that cond_wait keeps
\* on the waiter's stack by the waiting thread.
Sema == Plain \cup Lock \cup Thread

ASSUME SynchAssumption ==
  /\ IsFiniteSet(Thread)
  /\ idle_started \in Plain /\ IntrSema \subseteq Plain \ {idle_started}
  /\ tid_lock \in Lock
  /\ Plain \cap (Lock \cup Thread) = {} /\ Lock \cap Thread = {}
  /\ LockOf \in [Cond -> Lock \ {tid_lock}]
  /\ MaxValue \in Nat /\ MaxTid \in Nat

VARIABLES
  value,         \* semaphore values
  waiters,       \* semaphore waiters, in arrival order
  holder,        \* lock holders
  cond_waiters,  \* condition waiters, in arrival order
  code,          \* instructions each thread has still to execute
  tid,           \* the tid member of each struct thread
  next_tid       \* the counter of allocate_tid

synchVars == <<value, waiters, holder, cond_waiters, code, tid, next_tid>>
vars == <<status, ready_list, current, idle_thread, thread_ticks, value,
          waiters, holder, cond_waiters, code, tid, next_tid>>

SemaOp == {"down", "retest", "try_down", "up"}
LockOp == {"set_holder", "clear_holder"}
CondOp == {"cond_push", "signal", "broadcast"}
ThreadOp == {"init_thread", "read_tid", "write_tid", "unblock", "yield",
             "exit"}

Instr == [op : SemaOp, arg : Sema] \cup [op : LockOp, arg : Lock]
           \cup [op : CondOp, arg : Cond] \cup [op : ThreadOp, arg : Thread]

\* What idle executes besides.
IdleInstr == [op : {"set_idle", "block"}, arg : {Idle}]

InstrOf(t) == IF t = Idle THEN Instr \cup IdleInstr ELSE Instr

I(op, arg) == [op |-> op, arg |-> arg]

(***************************************************************************)
(* The bodies of the calls.                                                *)
(***************************************************************************)
LockAcquire(l) == <<I("down", l), I("set_holder", l)>>

LockTryAcquire(l) == <<I("try_down", l), I("set_holder", l)>>

\* Mutation: the semaphore is given back before holder is cleared.
LockRelease_Swapped(l) == <<I("up", l), I("clear_holder", l)>>

LockRelease(l) == <<I("clear_holder", l), I("up", l)>>

CondWait(c, t) ==
  <<I("cond_push", c)>> \o LockRelease(LockOf[c])
    \o <<I("down", t)>> \o LockAcquire(LockOf[c])

AllocateTid(t) ==
  LockAcquire(tid_lock) \o <<I("read_tid", t), I("write_tid", t)>>
    \o LockRelease(tid_lock)

\* The last instruction stands for what follows the allocation of the page for
\* struct thread_child, which may fail.
ThreadCreate(t) ==
  <<I("init_thread", t)>> \o AllocateTid(t) \o <<I("unblock", t)>>

\* Mutation: idle_thread is not set.
IdleBody_NotSet == <<I("up", idle_started), I("block", Idle)>>

\* What idle() runs: it announces itself, then blocks for ever.
IdleBody == <<I("set_idle", Idle), I("up", idle_started), I("block", Idle)>>

(***************************************************************************)
(* Instructions of the running thread.                                     *)
(***************************************************************************)
At(t, op) == code[t] # <<>> /\ Head(code[t]).op = op

\* sema_down re-tests the value with interrupts still off when schedule
\* returns to it, so nothing can interrupt that step.
InterruptsOn == ~At(current, "retest")

Arg == Head(code[current]).arg

Continue(rest) == code' = [code EXCEPT ![current] = rest]

Done == Continue(Tail(code[current]))

\* Mutation: the thread blocks without joining the list.
JoinWaiters_Not(s) == UNCHANGED waiters

JoinWaiters(s) == waiters' = [waiters EXCEPT ![s] = Append(@, current)]

\* sema_down, value 0: join the waiters and block.
SemaDownBlock ==
  /\ At(current, "down") \/ At(current, "retest")
  /\ value[Arg] = 0
  /\ JoinWaiters(Arg)
  /\ Continue(<<I("retest", Arg)>> \o Tail(code[current]))
  /\ ThreadBlock
  /\ UNCHANGED <<value, holder, cond_waiters, tid, next_tid>>

\* Mutation: the value is decremented without a test.
Positive_NoTest(s) == TRUE

Positive(s) == value[s] > 0

\* sema_down, value positive: take it.
SemaDownTake ==
  /\ At(current, "down") \/ At(current, "retest")
  /\ Positive(Arg)
  /\ value' = [value EXCEPT ![Arg] = @ - 1]
  /\ Done
  /\ UNCHANGED <<schedVars, waiters, holder, cond_waiters, tid, next_tid>>

\* Mutation: lock_try_acquire does not look at the result.
GiveUp_Not == Done

GiveUp == Continue(<<>>)

\* sema_try_down; lock_try_acquire gives up when it fails.
SemaTryDown ==
  /\ At(current, "try_down")
  /\ IF value[Arg] > 0
     THEN value' = [value EXCEPT ![Arg] = @ - 1] /\ Done
     ELSE GiveUp /\ UNCHANGED value
  /\ UNCHANGED <<schedVars, waiters, holder, cond_waiters, tid, next_tid>>

\* Mutation: nobody is woken.
Up_NoWake(s) ==
  /\ value' = [value EXCEPT ![s] = @ + 1]
  /\ UNCHANGED <<schedVars, waiters, holder, cond_waiters, tid, next_tid>>

\* The effect of sema_up on s: wake the first waiter, then increment.
Up(s) ==
  /\ value' = [value EXCEPT ![s] = @ + 1]
  /\ IF waiters[s] # <<>>
     THEN /\ ThreadUnblock(Head(waiters[s]))
          /\ waiters' = [waiters EXCEPT ![s] = Tail(@)]
     ELSE UNCHANGED <<schedVars, waiters>>
  /\ UNCHANGED <<holder, cond_waiters, tid, next_tid>>

SemaUp == At(current, "up") /\ Up(Arg) /\ Done

SetHolder ==
  /\ At(current, "set_holder")
  /\ holder' = [holder EXCEPT ![Arg] = current]
  /\ Done
  /\ UNCHANGED <<schedVars, value, waiters, cond_waiters, tid, next_tid>>

ClearHolder ==
  /\ At(current, "clear_holder")
  /\ holder' = [holder EXCEPT ![Arg] = NULL]
  /\ Done
  /\ UNCHANGED <<schedVars, value, waiters, cond_waiters, tid, next_tid>>

\* cond_wait, first half: a fresh semaphore joins the condition's list.
CondPush ==
  /\ At(current, "cond_push")
  /\ value' = [value EXCEPT ![current] = 0]
  /\ cond_waiters' = [cond_waiters EXCEPT ![Arg] = Append(@, current)]
  /\ Done
  /\ UNCHANGED <<schedVars, waiters, holder, tid, next_tid>>

PopCondWaiter(c) == cond_waiters' = [cond_waiters EXCEPT ![c] = Tail(@)]

\* Mutation: the waiter's semaphore is not upped.
UpCondWaiter_Not(c) == Done

UpCondWaiter(c) ==
  Continue(<<I("up", Head(cond_waiters[c]))>> \o Tail(code[current]))

\* cond_signal: take the first waiter off the list, then up its semaphore.
CondSignal ==
  /\ At(current, "signal")
  /\ IF cond_waiters[Arg] = <<>>
     THEN Done /\ UNCHANGED cond_waiters
     ELSE PopCondWaiter(Arg) /\ UpCondWaiter(Arg)
  /\ UNCHANGED <<schedVars, value, waiters, holder, tid, next_tid>>

\* cond_broadcast: signal until nobody is left.
CondBroadcast ==
  /\ At(current, "broadcast")
  /\ IF cond_waiters[Arg] = <<>>
     THEN Done
     ELSE Continue(<<I("signal", Arg)>> \o code[current])
  /\ UNCHANGED <<schedVars, value, waiters, holder, cond_waiters, tid,
                 next_tid>>

\* init_thread: a new struct thread, blocked and on no list.
InitThread ==
  /\ At(current, "init_thread")
  /\ status[Arg] = "FREE"
  /\ status' = [status EXCEPT ![Arg] = "BLOCKED"]
  /\ tid' = [tid EXCEPT ![Arg] = 0]
  /\ Done
  /\ UNCHANGED <<ready_list, current, idle_thread, thread_ticks, value,
                 waiters, holder, cond_waiters, next_tid>>

\* tid = next_tid++ is a load and a store.
ReadTid ==
  /\ At(current, "read_tid")
  /\ tid' = [tid EXCEPT ![Arg] = next_tid]
  /\ Done
  /\ UNCHANGED <<schedVars, value, waiters, holder, cond_waiters, next_tid>>

WriteTid ==
  /\ At(current, "write_tid")
  /\ next_tid' = tid[Arg] + 1
  /\ Done
  /\ UNCHANGED <<schedVars, value, waiters, holder, cond_waiters, tid>>

Unblock ==
  /\ At(current, "unblock")
  /\ ThreadUnblock(Arg)
  /\ Done
  /\ UNCHANGED <<value, waiters, holder, cond_waiters, tid, next_tid>>

\* thread_create has no page for struct thread_child: it returns TID_ERROR and
\* leaves the new thread as it is, blocked and on no list.
CreateFails ==
  /\ At(current, "unblock")
  /\ Done
  /\ UNCHANGED <<schedVars, value, waiters, holder, cond_waiters, tid, next_tid>>

Yield ==
  /\ At(current, "yield")
  /\ ThreadYield
  /\ Done
  /\ UNCHANGED <<value, waiters, holder, cond_waiters, tid, next_tid>>

Exit ==
  /\ At(current, "exit")
  /\ ThreadExit
  /\ Done
  /\ UNCHANGED <<value, waiters, holder, cond_waiters, tid, next_tid>>

SetIdle ==
  /\ At(current, "set_idle")
  /\ idle_thread' = current
  /\ Done
  /\ UNCHANGED <<status, ready_list, current, thread_ticks, value, waiters,
                 holder, cond_waiters, tid, next_tid>>

\* One turn of the idle loop: block; when scheduled again, halt until the
\* next interrupt and block again.
IdleBlock ==
  /\ At(current, "block")
  /\ ThreadBlock
  /\ UNCHANGED synchVars

(***************************************************************************)
(* Calls, under the conditions the primitives assert of their callers.     *)
(***************************************************************************)
UserLock == Lock \ {tid_lock}

HoldsNoLock(t) == \A l \in Lock : holder[l] # t

\* A new thread's page: palloc never returns a page that is in use, so two
\* creators never get the same one.
Allocatable(t) ==
  /\ status[t] = "FREE"
  /\ \A u \in Thread : \A i \in DOMAIN code[u] : code[u][i] # I("init_thread", t)

Calls ==
  { <<I("down", s)>>     : s \in Plain \ {idle_started} } \cup
  { <<I("try_down", s)>> : s \in Plain \ {idle_started} } \cup
  { <<I("up", s)>>       : s \in {p \in Plain \ {idle_started} :
                                    value[p] < MaxValue} } \cup
  { LockAcquire(l)       : l \in {k \in UserLock : holder[k] # current} } \cup
  { LockTryAcquire(l)    : l \in {k \in UserLock : holder[k] # current} } \cup
  { LockRelease(l)       : l \in {k \in UserLock : holder[k] = current} } \cup
  (UNION { {CondWait(c, current), <<I("signal", c)>>, <<I("broadcast", c)>>} :
             c \in {d \in Cond : holder[LockOf[d]] = current} }) \cup
  { ThreadCreate(t)      : t \in {u \in Thread : Allocatable(u)
                                                 /\ next_tid <= MaxTid} } \cup
  { <<I("yield", current)>> } \cup
  { <<I("exit", current)>> : t \in {u \in {current} : HoldsNoLock(u)} }

BeginCall ==
  /\ code[current] = <<>>
  /\ \E body \in Calls : Continue(body)
  /\ UNCHANGED <<schedVars, value, waiters, holder, cond_waiters, tid,
                 next_tid>>

(***************************************************************************)
(* Interrupts.                                                             *)
(***************************************************************************)
TimerInterrupt ==
  /\ InterruptsOn
  /\ ThreadTick
  /\ UNCHANGED synchVars

DeviceInterrupt ==
  /\ InterruptsOn
  /\ \E s \in IntrSema : value[s] < MaxValue /\ Up(s)
  /\ UNCHANGED code

-----------------------------------------------------------------------------
Init ==
  /\ SchedInit
  /\ value = [s \in Sema |-> IF s \in Lock THEN 1 ELSE 0]
  /\ waiters = [s \in Sema |-> <<>>]
  /\ holder = [l \in Lock |-> NULL]
  /\ cond_waiters = [c \in Cond |-> <<>>]
  /\ code = [t \in Thread |-> CASE t = Main -> <<I("down", idle_started)>>
                                [] t = Idle -> IdleBody
                                [] OTHER    -> <<>>]
  /\ tid = [t \in Thread |-> CASE t = Main -> 1 [] t = Idle -> 2 [] OTHER -> 0]
  /\ next_tid = 3

\* A resumed sema_down runs with interrupts off.
Retest == At(current, "retest") /\ (SemaDownBlock \/ SemaDownTake)

Next ==
  \/ SemaDownBlock \/ SemaDownTake \/ SemaTryDown \/ SemaUp
  \/ SetHolder \/ ClearHolder
  \/ CondPush \/ CondSignal \/ CondBroadcast
  \/ InitThread \/ ReadTid \/ WriteTid \/ Unblock \/ CreateFails
  \/ Yield \/ Exit \/ SetIdle \/ IdleBlock
  \/ BeginCall
  \/ TimerInterrupt \/ DeviceInterrupt

Spec == Init /\ [][Next]_vars

\* The timer keeps interrupting and the CPU does not stop in the middle of an
\* interrupt-free stretch.
Fairness == WF_vars(TimerInterrupt \/ Retest)

FairSpec == Spec /\ Fairness

(***************************************************************************)
(* Properties.                                                             *)
(***************************************************************************)
Elems(s) == {s[i] : i \in DOMAIN s}

\* Every variable has its type.
TypeOK ==
  /\ status \in [Thread -> Status]
  /\ ready_list \in Seq(Thread)
  /\ current \in Thread
  /\ idle_thread \in {NULL, Idle}
  /\ thread_ticks \in 0 .. TIME_SLICE - 1
  /\ value \in [Sema -> Nat]
  /\ waiters \in [Sema -> Seq(Thread)]
  /\ holder \in [Lock -> Thread \cup {NULL}]
  /\ cond_waiters \in [Cond -> Seq(Thread)]
  /\ code \in [Thread -> Seq(Instr \cup IdleInstr)]
  /\ \A t \in Thread : code[t] \in Seq(InstrOf(t))
  /\ tid \in [Thread -> Nat]
  /\ next_tid \in Nat

\* Threads between the pop from s's waiters and the test that follows.
Woken(s) == {t \in Thread : /\ code[t] # <<>>
                            /\ Head(code[t]) = I("retest", s)
                            /\ t \notin Elems(waiters[s])}

\* No lost wakeup in sema_down/sema_up: while threads wait on s, every unit
\* of its value is matched by a thread that has been woken and has not yet
\* re-tested, so a positive value never meets only sleeping waiters.
NoLostWakeup ==
  \A s \in Sema : waiters[s] # <<>> => value[s] <= Cardinality(Woken(s))

\* thread.h on the member elem: "only a thread in the ready state is on the
\* run queue, whereas only a thread in the blocked state is on a semaphore
\* wait list".  One elem is on one list at most, and once; and no thread that
\* has run sleeps out of reach: it is on the list of the semaphore it waits for
\* or is the idle thread.  A blocked thread that has never run is being created,
\* or was left behind by a thread_create without memory; it is on no list, and
\* nobody unblocks it then.
ElemOnOneList ==
  /\ \A t \in Thread : (status[t] = "RUNNING") <=> (t = current)
  /\ \A t \in Thread : t \in Elems(ready_list) <=>
                         status[t] = "READY" /\ t # idle_thread
  /\ \A s \in Sema : \A t \in Elems(waiters[s]) :
       /\ status[t] = "BLOCKED" /\ At(t, "retest") /\ Head(code[t]).arg = s
       /\ \A r \in Sema \ {s} : t \notin Elems(waiters[r])
  /\ Cardinality(Elems(ready_list)) = Len(ready_list)
  /\ \A s \in Sema : Cardinality(Elems(waiters[s])) = Len(waiters[s])
  /\ \A t \in Thread : status[t] = "BLOCKED" =>
      \/ \E s \in Sema : t \in Elems(waiters[s])
      \/ t = idle_thread
      \/ code[t] = <<>>

\* The threads that have taken l's semaphore and not given it back: before
\* holder is set, while it is set, and after lock_release has cleared it.
Owners(l) ==
  {t \in Thread : \/ holder[l] = t
                  \/ code[t] # <<>>
                     /\ Head(code[t]) \in {I("set_holder", l), I("up", l)}}

\* A lock is free or has one owner, also inside the windows of lock_acquire
\* and lock_release in which holder does not name it.
LockExclusion ==
  \A l \in Lock : value[l] + Cardinality(Owners(l)) = 1

\* No lost signal: a thread asleep in cond_wait has not been signalled, it is
\* still on a condition's list, or the signaller is about to up its semaphore.
\* And none is delivered twice: the semaphore on a waiter's stack is up only
\* once the waiter is off the condition's list.
NoLostSignal ==
  \A t \in Thread :
    /\ t \in Elems(waiters[t]) =>
      \/ \E c \in Cond : t \in Elems(cond_waiters[c])
      \/ \E u \in Thread : code[u] # <<>> /\ Head(code[u]) = I("up", t)
    /\ value[t] <= 1
    /\ value[t] = 1 => \A c \in Cond : t \notin Elems(cond_waiters[c])

\* schedule's ASSERT (is_thread (next)) is met also while the system starts:
\* idle_thread is null with an empty run queue only while idle itself is about
\* to set it, and idle does not block before that.
NextIsThread ==
  ready_list = <<>> /\ idle_thread = NULL => At(current, "set_idle")

\* A thread on the run queue gets the CPU.
ReadyRuns == \A t \in Thread \ {Idle} : status[t] = "READY" ~> t = current

\* The locks implement the abstract mutex: lock_acquire and lock_try_acquire
\* take a free lock for the running thread, and only its owner gives it back.
Owner == [l \in Lock |-> IF value[l] # 0 THEN NULL
                         ELSE CHOOSE t \in Owners(l) : TRUE]
AbstractMutex == INSTANCE Mutex WITH owner <- Owner, actor <- current
ImplementsMutex == AbstractMutex!Spec
=============================================================================
