---------------------------- MODULE SynchProofs ----------------------------
(***************************************************************************)
(* Proofs about module Synch for any threads, semaphores, locks, condition *)
(* variables and bounds: there is always a thread to run, the lists of     *)
(* threads and their states agree, the locks exclude each other and        *)
(* implement the abstract lock of module Mutex, and no wakeup and no       *)
(* signal is lost.                                                         *)
(***************************************************************************)
EXTENDS Synch, TLAPS

\* Zenon proves most steps; the others say which prover they need.
USE Zenon

\* Until idle() has set idle_thread it has executed nothing, and it owns the
\* CPU or waits for it.
IdleStarting ==
  idle_thread = NULL =>
    /\ code[Idle] = IdleBody
    /\ current = Idle \/ Idle \in Elems(ready_list)

\* TypeOK alone is not inductive: with an empty run queue schedule would
\* switch to a null idle_thread.
IInv == TypeOK /\ IdleStarting

(***************************************************************************)
(* Sequences.                                                              *)
(***************************************************************************)
\* Head and tail of a list.
LEMMA HeadTail ==
  ASSUME NEW S, NEW s \in Seq(S), s # <<>>
  PROVE  /\ Head(s) \in S /\ Tail(s) \in Seq(S)
         /\ Len(Tail(s)) = Len(s) - 1
         /\ \A i \in 1 .. Len(Tail(s)) : Tail(s)[i] = s[i + 1]
  BY SMT

\* A list of some things is a list of more things.
LEMMA MoreCode ==
  ASSUME NEW S, NEW T, S \subseteq T
  PROVE  Seq(S) \subseteq Seq(T)
  BY SMT

\* The empty list.
LEMMA EmptyList ==
  ASSUME NEW S
  PROVE  /\ <<>> \in Seq(S) /\ Len(<<>>) = 0
         /\ \A s \in Seq(S) : s # <<>> => Len(s) \in Nat \ {0}
  BY SMT

\* Two pieces of code, one after the other.
LEMMA Join ==
  ASSUME NEW S, NEW s \in Seq(S), NEW t \in Seq(S)
  PROVE  /\ s \o t \in Seq(S) /\ Len(s \o t) = Len(s) + Len(t)
         /\ \A i \in 1 .. Len(s) + Len(t) :
              (s \o t)[i] = IF i <= Len(s) THEN s[i] ELSE t[i - Len(s)]
  BY SMT

\* Instructions with arguments of their type.
LEMMA InstrType ==
  /\ \A op \in SemaOp, s \in Sema : I(op, s) \in Instr
  /\ \A op \in LockOp, l \in Lock : I(op, l) \in Instr
  /\ \A op \in CondOp, c \in Cond : I(op, c) \in Instr
  /\ \A op \in ThreadOp, t \in Thread : I(op, t) \in Instr
  BY DEF I, Instr

\* The argument of an instruction has the type that its op asks for.
LEMMA ArgType ==
  ASSUME NEW i \in Instr
  PROVE  /\ i.op \in SemaOp => i.arg \in Sema
         /\ i.op \in LockOp => i.arg \in Lock
         /\ i.op \in CondOp => i.arg \in Cond
         /\ i.op \in ThreadOp => i.arg \in Thread
  BY DEF Instr, SemaOp, LockOp, CondOp, ThreadOp

\* list_push_back adds one element.
LEMMA ElemsAppend ==
  ASSUME NEW S, NEW s \in Seq(S), NEW e \in S
  PROVE  Elems(Append(s, e)) = Elems(s) \cup {e}
<1>1. ASSUME NEW x \in Elems(Append(s, e)) PROVE x \in Elems(s) \cup {e}
  BY <1>1, SMT DEF Elems
<1>2. Elems(s) \subseteq Elems(Append(s, e))
  <2>1. ASSUME NEW i \in DOMAIN s PROVE s[i] \in Elems(Append(s, e))
    <3>1. i \in DOMAIN Append(s, e) /\ Append(s, e)[i] = s[i]
      BY SMT
    <3>2. QED BY <3>1 DEF Elems
  <2>2. QED BY <2>1 DEF Elems
<1>3. e \in Elems(Append(s, e))
  <2>1. Len(s) + 1 \in DOMAIN Append(s, e) /\ Append(s, e)[Len(s) + 1] = e
    BY SMT
  <2>2. QED BY <2>1 DEF Elems
<1>4. QED BY <1>1, <1>2, <1>3

\* list_pop_front takes one element away.
LEMMA ElemsTail ==
  ASSUME NEW S, NEW s \in Seq(S), s # <<>>
  PROVE  Elems(s) = {Head(s)} \cup Elems(Tail(s))
<1>1. ASSUME NEW i \in DOMAIN s PROVE s[i] = Head(s) \/ s[i] \in Elems(Tail(s))
  <2>1. CASE i = 1
    BY <2>1, SMT
  <2>2. CASE i # 1
    <3>1. i - 1 \in DOMAIN Tail(s) /\ Tail(s)[i - 1] = s[i]
      BY <2>2, SMT
    <3>2. QED BY <3>1 DEF Elems
  <2>3. QED BY <2>1, <2>2
<1>2. ASSUME NEW i \in DOMAIN Tail(s) PROVE Tail(s)[i] \in Elems(s)
  <2>1. i + 1 \in DOMAIN s /\ s[i + 1] = Tail(s)[i]
    BY SMT
  <2>2. QED BY <2>1 DEF Elems
<1>3. Head(s) \in Elems(s)
  <2>1. 1 \in DOMAIN s /\ s[1] = Head(s)
    BY SMT
  <2>2. QED BY <2>1 DEF Elems
<1>4. QED BY <1>1, <1>2, <1>3 DEF Elems

\* The elements of two joined sequences.
LEMMA JoinAt ==
  ASSUME NEW s \in Seq(Instr), NEW t \in Seq(Instr)
  PROVE  /\ s \o t \in Seq(Instr) /\ Len(s \o t) = Len(s) + Len(t)
         /\ \A i \in 1 .. Len(s) : (s \o t)[i] = s[i]
         /\ \A i \in 1 .. Len(t) : (s \o t)[Len(s) + i] = t[i]
         /\ s # <<>> => s \o t # <<>> /\ Head(s \o t) = (s \o t)[1]
<1>1. s \o t \in Seq(Instr) /\ Len(s \o t) = Len(s) + Len(t)
  BY Join
<1>2. /\ \A i \in 1 .. Len(s) : (s \o t)[i] = s[i]
      /\ \A i \in 1 .. Len(t) : (s \o t)[Len(s) + i] = t[i]
  BY SMT
<1>3. s # <<>> => s \o t # <<>> /\ Head(s \o t) = (s \o t)[1]
  BY <1>1, EmptyList, HeadTail, SMT
<1>4. QED
  BY <1>1, <1>2, <1>3

(***************************************************************************)
(* The bodies of the calls are sequences of instructions.                  *)
(***************************************************************************)
LEMMA BodyType ==
  /\ \A l \in Lock : /\ LockAcquire(l) \in Seq(Instr)
                     /\ LockTryAcquire(l) \in Seq(Instr)
                     /\ LockRelease(l) \in Seq(Instr)
  /\ \A c \in Cond, t \in Thread : CondWait(c, t) \in Seq(Instr)
  /\ \A t \in Thread : ThreadCreate(t) \in Seq(Instr)
  /\ IdleBody \in Seq(InstrOf(Idle))
<1>1. /\ \A op \in SemaOp, s \in Sema : <<I(op, s)>> \in Seq(Instr)
      /\ \A op \in CondOp, c \in Cond : <<I(op, c)>> \in Seq(Instr)
      /\ \A op \in ThreadOp, t \in Thread : <<I(op, t)>> \in Seq(Instr)
  BY InstrType, SMT
<1>2. \A l \in Lock : /\ LockAcquire(l) \in Seq(Instr)
                      /\ LockTryAcquire(l) \in Seq(Instr)
                      /\ LockRelease(l) \in Seq(Instr)
  BY InstrType, SMT DEF LockAcquire, LockTryAcquire, LockRelease, SemaOp, LockOp, Sema
<1>3. \A c \in Cond, t \in Thread : CondWait(c, t) \in Seq(Instr)
  <2> TAKE c \in Cond, t \in Thread
  <2>1. LockOf[c] \in Lock
    BY SynchAssumption
  <2>2. <<I("cond_push", c)>> \in Seq(Instr) /\ <<I("down", t)>> \in Seq(Instr)
    BY <1>1 DEF CondOp, SemaOp, Sema
  <2>3. QED BY <2>1, <2>2, <1>2, Join DEF CondWait
<1>4. ASSUME NEW t \in Thread PROVE ThreadCreate(t) \in Seq(Instr)
  <2>1. <<I("init_thread", t)>> \in Seq(Instr) /\ <<I("unblock", t)>> \in Seq(Instr)
    BY <1>1 DEF ThreadOp
  <2>2. <<I("read_tid", t), I("write_tid", t)>> \in Seq(Instr)
    BY InstrType, SMT DEF ThreadOp
  <2>3. AllocateTid(t) \in Seq(Instr)
    BY <2>2, <1>2, SynchAssumption, Join DEF AllocateTid
  <2>4. QED BY <2>1, <2>3, Join DEF ThreadCreate
<1>5. IdleBody \in Seq(InstrOf(Idle))
  <2>1. I("up", idle_started) \in Instr
    BY InstrType, SynchAssumption DEF SemaOp, Sema
  <2>2. I("set_idle", Idle) \in IdleInstr /\ I("block", Idle) \in IdleInstr
    BY DEF I, IdleInstr
  <2>3. QED BY <2>1, <2>2, SMT DEF IdleBody, InstrOf
<1>6. QED BY <1>2, <1>3, <1>4, <1>5

\* Any thread may execute an ordinary instruction.
LEMMA InstrOfAny ==
  ASSUME NEW t \in Thread, NEW s \in Seq(Instr)
  PROVE  s \in Seq(InstrOf(t))
  BY MoreCode DEF InstrOf

\* A single instruction is code that its thread may execute.
LEMMA OneInstr ==
  ASSUME NEW t \in Thread
  PROVE  /\ \A op \in SemaOp, s \in Sema : <<I(op, s)>> \in Seq(InstrOf(t))
         /\ \A op \in CondOp, c \in Cond : <<I(op, c)>> \in Seq(InstrOf(t))
<1>1. /\ \A op \in SemaOp, s \in Sema : <<I(op, s)>> \in Seq(Instr)
      /\ \A op \in CondOp, c \in Cond : <<I(op, c)>> \in Seq(Instr)
  BY InstrType, SMT
<1>2. QED BY <1>1, InstrOfAny

\* Code of one thread is code of the system.
LEMMA InstrOfType ==
  ASSUME NEW t \in Thread, NEW s \in Seq(InstrOf(t))
  PROVE  s \in Seq(Instr \cup IdleInstr)
  BY MoreCode DEF InstrOf

\* A call is one instruction or one of the longer bodies.
LEMMA CallsCases ==
  ASSUME NEW body \in Calls
  PROVE  \/ \E op \in {"down", "try_down", "up"} :
              \E s \in Plain : body = <<I(op, s)>>
         \/ \E l \in Lock : body \in {LockAcquire(l), LockTryAcquire(l),
                                      LockRelease(l)}
         \/ \E c \in Cond : body \in {CondWait(c, current), <<I("signal", c)>>,
                                      <<I("broadcast", c)>>}
         \/ \E t \in Thread : body = ThreadCreate(t) /\ Allocatable(t)
         \/ body \in {<<I("yield", current)>>, <<I("exit", current)>>}
  BY DEF Calls, UserLock

\* What a call adds to a thread's code consists of instructions it may execute.
LEMMA CallsType ==
  ASSUME TypeOK, NEW body \in Calls
  PROVE  body \in Seq(Instr)
<1>1. current \in Thread
  BY DEF TypeOK
<1>2. /\ \A op \in SemaOp, s \in Sema : <<I(op, s)>> \in Seq(Instr)
      /\ \A op \in CondOp, c \in Cond : <<I(op, c)>> \in Seq(Instr)
      /\ \A op \in ThreadOp, t \in Thread : <<I(op, t)>> \in Seq(Instr)
  BY InstrType, SMT
<1>3. QED BY <1>1, <1>2, BodyType, CallsCases DEF SemaOp, CondOp, ThreadOp, Sema

(***************************************************************************)
(* Steps of the scheduler.                                                 *)
(***************************************************************************)
SchedType ==
  /\ status \in [Thread -> Status]
  /\ ready_list \in Seq(Thread)
  /\ current \in Thread
  /\ idle_thread \in {NULL, Idle}
  /\ thread_ticks \in 0 .. TIME_SLICE - 1

(***************************************************************************)
(* The invariant.                                                          *)
(***************************************************************************)
\* The part of TypeOK about the variables of Synch without code.
SynchType ==
  /\ value \in [Sema -> Nat]
  /\ waiters \in [Sema -> Seq(Thread)]
  /\ holder \in [Lock -> Thread \cup {NULL}]
  /\ cond_waiters \in [Cond -> Seq(Thread)]
  /\ tid \in [Thread -> Nat]
  /\ next_tid \in Nat

CodeType ==
  /\ code \in [Thread -> Seq(Instr \cup IdleInstr)]
  /\ \A t \in Thread : code[t] \in Seq(InstrOf(t))

\* TypeOK, split by the part of the kernel that owns the variables.
LEMMA TypeParts == TypeOK <=> SchedType /\ SynchType /\ CodeType
  BY DEF TypeOK, SchedType, SynchType, CodeType

\* The instruction the running thread is at.
LEMMA HeadType ==
  ASSUME SchedType, CodeType, NEW op, At(current, op)
  PROVE  /\ Tail(code[current]) \in Seq(InstrOf(current))
         /\ op \in SemaOp => Arg \in Sema
         /\ op \in LockOp => Arg \in Lock
         /\ op \in CondOp => Arg \in Cond
         /\ op \in ThreadOp => Arg \in Thread
         /\ op = "set_idle" => current = Idle
<1>1. code[current] \in Seq(InstrOf(current)) /\ code[current] # <<>>
  BY DEF SchedType, CodeType, At
<1>2. /\ Head(code[current]) \in InstrOf(current)
      /\ Tail(code[current]) \in Seq(InstrOf(current))
  BY <1>1, SMT
<1>3. Head(code[current]).op = op /\ Arg = Head(code[current]).arg
  BY DEF At, Arg
<1>4. CASE Head(code[current]) \in Instr
  <2>1. op # "set_idle"
    BY <1>3, <1>4 DEF Instr, SemaOp, LockOp, CondOp, ThreadOp
  <2>2. QED BY <1>2, <1>3, <1>4, <2>1, ArgType
<1>5. CASE Head(code[current]) \notin Instr
  <2>1. current = Idle /\ Head(code[current]) \in IdleInstr
    BY <1>2, <1>5 DEF InstrOf
  <2>2. op \in {"set_idle", "block"}
    BY <1>3, <2>1 DEF IdleInstr
  <2>3. QED BY <1>2, <2>1, <2>2 DEF SemaOp, LockOp, CondOp, ThreadOp
<1>6. QED BY <1>4, <1>5

\* While idle has not started, the running thread is not idle unless it is at
\* the instruction that sets idle_thread.
LEMMA NotIdle ==
  ASSUME IdleStarting, idle_thread = NULL, ~At(current, "set_idle")
  PROVE  current # Idle /\ Idle \in Elems(ready_list)
  BY SMT DEF IdleStarting, At, IdleBody, I

\* thread_start leaves the kernel in a state of the invariant.
THEOREM InitInv == Init => IInv
<1> SUFFICES ASSUME Init PROVE IInv
  OBVIOUS
<1>1. SchedType
  BY ThreadAssumption, SMT DEF Init, SchedInit, SchedType, Status
<1>2. SynchType
  BY ThreadAssumption, SMT DEF Init, SynchType, Sema
<1>3. CodeType
  <2>1. <<I("down", idle_started)>> \in Seq(InstrOf(Main))
    BY OneInstr, ThreadAssumption, SynchAssumption DEF SemaOp, Sema
  <2>2. ASSUME NEW t \in Thread PROVE code[t] \in Seq(InstrOf(t))
    BY <2>1, BodyType, EmptyList DEF Init
  <2>3. \A t \in Thread : code[t] \in Seq(Instr \cup IdleInstr)
    BY <2>2, InstrOfType
  <2>4. QED BY <2>2, <2>3 DEF Init, CodeType
<1>4. IdleStarting
  <2>1. code[Idle] = IdleBody
    BY ThreadAssumption DEF Init
  <2>2. Idle \in Elems(ready_list)
    BY SMT DEF Init, SchedInit, Elems
  <2>3. QED BY <2>1, <2>2 DEF IdleStarting
<1>5. QED BY <1>1, <1>2, <1>3, <1>4, TypeParts DEF IInv

\* Every instruction, call and interrupt preserves the invariant.
THEOREM NextInv == IInv /\ [Next]_vars => IInv'
\* schedule, entered with idle on the run queue unless it has started,
\* switches to a thread.
<1>ScheduleType. ASSUME SchedType,
                        NEW st \in [Thread -> Status], NEW ready \in Seq(Thread),
                        idle_thread = NULL => Idle \in Elems(ready),
                        Schedule(st, ready)
                 PROVE  /\ SchedType'
                        /\ idle_thread = NULL => current' = Idle \/ Idle \in Elems(ready_list')
  <2> USE <1>ScheduleType
  <2>1. ready = <<>> => idle_thread = Idle
    BY SMT DEF SchedType, Elems
  <2>2. current' \in Thread
    BY <2>1, ThreadAssumption, SMT DEF Schedule, NextThreadToRun
  <2>3. ready_list' \in Seq(Thread)
    BY SMT DEF Schedule
  <2>4. status' \in [Thread -> Status]
    BY DEF Schedule, ThreadScheduleTail, Status
  <2>5. thread_ticks' \in 0 .. TIME_SLICE - 1
    BY ThreadAssumption, SMT DEF Schedule
  <2>6. idle_thread = NULL => current' = Idle \/ Idle \in Elems(ready_list')
    <3>1. CASE ready = <<>>
      BY <2>1, <3>1, ThreadAssumption
    <3>2. CASE ready # <<>>
      BY <3>2, ElemsTail DEF Schedule, NextThreadToRun
    <3>3. QED BY <3>1, <3>2
  <2>7. QED BY <2>2, <2>3, <2>4, <2>5, <2>6 DEF SchedType, Schedule
\* thread_yield.
<1>YieldType. ASSUME SchedType, ThreadYield,
                     idle_thread = NULL => current = Idle \/ Idle \in Elems(ready_list)
              PROVE  /\ SchedType'
                     /\ idle_thread = NULL => current' = Idle \/ Idle \in Elems(ready_list')
  <2> USE <1>YieldType
  <2> DEFINE st == [status EXCEPT ![current] = "READY"]
             ready == IF current = idle_thread THEN ready_list
                      ELSE Append(ready_list, current)
  <2>1. st \in [Thread -> Status]
    BY DEF SchedType, Status
  <2>2. ready \in Seq(Thread)
    BY SMT DEF SchedType
  <2>3. idle_thread = NULL => Idle \in Elems(ready)
    BY ThreadAssumption, ElemsAppend, SMT DEF SchedType
  <2>4. Schedule(st, ready)
    BY DEF ThreadYield
  <2> HIDE DEF st, ready
  <2>5. QED BY <2>1, <2>2, <2>3, <2>4, <1>ScheduleType
\* thread_unblock.
<1>UnblockType. ASSUME SchedType, NEW t \in Thread, ThreadUnblock(t)
                PROVE  /\ SchedType'
                       /\ Elems(ready_list) \subseteq Elems(ready_list')
  <2> USE <1>UnblockType
  <2>1. ready_list' = Append(ready_list, t) /\ ready_list' \in Seq(Thread)
    BY SMT DEF ThreadUnblock, SchedType
  <2>2. Elems(ready_list) \subseteq Elems(ready_list')
    BY <2>1, ElemsAppend, SMT DEF SchedType
  <2>3. QED BY <2>1, <2>2 DEF ThreadUnblock, SchedType, Status
\* A step that leaves the running thread with the instructions rest.
<1>ContinueType. ASSUME IdleStarting, SchedType, CodeType,
                        NEW rest \in Seq(InstrOf(current)), Continue(rest),
                        ~At(current, "set_idle")
                 PROVE  /\ CodeType'
                        /\ idle_thread = NULL => code'[Idle] = IdleBody
  <2> USE <1>ContinueType
  <2>1. current \in Thread /\ rest \in Seq(Instr \cup IdleInstr)
    BY InstrOfType DEF SchedType
  <2>2. CodeType'
    BY <2>1 DEF Continue, CodeType
  <2>3. idle_thread = NULL => code'[Idle] = IdleBody
    BY NotIdle, ThreadAssumption DEF Continue, CodeType, IdleStarting
  <2>4. QED BY <2>2, <2>3
\* thread_block, called by a thread that has started.
<1>BlockType. ASSUME SchedType, IdleStarting, ThreadBlock, ~At(current, "set_idle")
              PROVE  /\ SchedType'
                     /\ idle_thread = NULL => current' = Idle \/ Idle \in Elems(ready_list')
                     /\ idle_thread' = idle_thread
  <2> USE <1>BlockType
  <2> DEFINE st == [status EXCEPT ![current] = "BLOCKED"]
  <2>1. st \in [Thread -> Status] /\ ready_list \in Seq(Thread)
    BY DEF SchedType, Status
  <2>2. idle_thread = NULL => Idle \in Elems(ready_list)
    BY NotIdle
  <2>3. Schedule(st, ready_list)
    BY DEF ThreadBlock
  <2> HIDE DEF st
  <2>4. QED BY <2>1, <2>2, <2>3, <1>ScheduleType DEF Schedule
\* thread_exit, likewise.
<1>ExitType. ASSUME SchedType, IdleStarting, ThreadExit, ~At(current, "set_idle")
             PROVE  /\ SchedType'
                    /\ idle_thread = NULL => current' = Idle \/ Idle \in Elems(ready_list')
                    /\ idle_thread' = idle_thread
  <2> USE <1>ExitType
  <2> DEFINE st == [status EXCEPT ![current] = "DYING"]
  <2>1. st \in [Thread -> Status] /\ ready_list \in Seq(Thread)
    BY DEF SchedType, Status
  <2>2. idle_thread = NULL => Idle \in Elems(ready_list)
    BY NotIdle
  <2>3. Schedule(st, ready_list)
    BY DEF ThreadExit
  <2> HIDE DEF st
  <2>4. QED BY <2>1, <2>2, <2>3, <1>ScheduleType DEF Schedule
\* sema_up.
<1>UpType. ASSUME SchedType, SynchType, NEW s \in Sema, Up(s)
           PROVE  /\ SchedType' /\ SynchType'
                  /\ Elems(ready_list) \subseteq Elems(ready_list')
                  /\ current' = current /\ idle_thread' = idle_thread
  <2> USE <1>UpType
  <2>1. CASE waiters[s] = <<>>
    BY <2>1, SMT DEF Up, SchedType, SynchType, schedVars
  <2>2. CASE waiters[s] # <<>>
    <3>1. waiters[s] \in Seq(Thread)
      BY DEF SynchType
    <3>2. Head(waiters[s]) \in Thread /\ Tail(waiters[s]) \in Seq(Thread)
      BY <3>1, <2>2, SMT
    <3>3. ThreadUnblock(Head(waiters[s]))
      BY <2>2 DEF Up
    <3>4. SchedType' /\ Elems(ready_list) \subseteq Elems(ready_list')
      BY <3>2, <3>3, <1>UnblockType
    <3>5. SynchType'
      <4>1. value' \in [Sema -> Nat]
        BY SMT DEF Up, SynchType
      <4>2. waiters' = [waiters EXCEPT ![s] = Tail(waiters[s])]
        BY <2>2 DEF Up
      <4>3. waiters' \in [Sema -> Seq(Thread)]
        BY <4>2, <3>2 DEF SynchType
      <4>4. UNCHANGED <<holder, cond_waiters, tid, next_tid>>
        BY DEF Up
      <4>5. QED BY <4>1, <4>3, <4>4 DEF SynchType
    <3>6. QED BY <3>3, <3>4, <3>5 DEF ThreadUnblock
  <2>3. QED BY <2>1, <2>2
<1> SUFFICES ASSUME IInv, [Next]_vars PROVE SchedType' /\ SynchType' /\ CodeType' /\ IdleStarting'
  BY TypeParts DEF IInv, TypeOK, SchedType, SynchType, CodeType
<1> USE TypeParts
<1>a. SchedType /\ SynchType /\ CodeType /\ IdleStarting
  BY DEF IInv
<1>b. current \in Thread
  BY <1>a DEF SchedType
<1>1. CASE SemaDownBlock
  <2>1. PICK op \in {"down", "retest"} : At(current, op)
    BY <1>1 DEF SemaDownBlock
  <2>2. ~At(current, "set_idle")
    BY <2>1 DEF At
  <2>3. Arg \in Sema /\ Tail(code[current]) \in Seq(InstrOf(current))
    BY <1>a, <2>1, HeadType DEF SemaOp
  <2>4. <<I("retest", Arg)>> \o Tail(code[current]) \in Seq(InstrOf(current))
    <3>1. <<I("retest", Arg)>> \in Seq(InstrOf(current))
      BY <2>3, <1>b, OneInstr DEF SemaOp
    <3>2. QED BY <3>1, <2>3, Join
  <2>5. CodeType' /\ (idle_thread = NULL => code'[Idle] = IdleBody)
    BY <1>a, <1>1, <2>2, <2>4, <1>ContinueType DEF SemaDownBlock
  <2>6. /\ SchedType' /\ idle_thread' = idle_thread
        /\ idle_thread = NULL => current' = Idle \/ Idle \in Elems(ready_list')
    BY <1>a, <1>1, <2>2, <1>BlockType DEF SemaDownBlock
  <2>7. SynchType'
    <3>1. waiters' = [waiters EXCEPT ![Arg] = Append(waiters[Arg], current)]
      BY <1>1 DEF SemaDownBlock, JoinWaiters
    <3>2. waiters' \in [Sema -> Seq(Thread)]
      BY <1>a, <2>3, <3>1, SMT DEF SynchType, SchedType
    <3>3. QED BY <1>a, <1>1, <3>2 DEF SemaDownBlock, SynchType
  <2>8. QED BY <2>5, <2>6, <2>7 DEF IdleStarting
<1>2. CASE SemaDownTake
  <2>1. PICK op \in {"down", "retest"} : At(current, op)
    BY <1>2 DEF SemaDownTake
  <2>2. ~At(current, "set_idle")
    BY <2>1 DEF At
  <2>3. CodeType' /\ (idle_thread = NULL => code'[Idle] = IdleBody)
    BY <1>a, <1>2, <2>1, <2>2, HeadType, <1>ContinueType DEF SemaDownTake, Done
  <2>4. UNCHANGED schedVars
    BY <1>2 DEF SemaDownTake
  <2>5. SynchType'
    <3>1. Arg \in Sema
      BY <1>a, <2>1, HeadType DEF SemaOp
    <3>2. value[Arg] - 1 \in Nat
      BY <1>a, <1>2, <3>1, SMT DEF SemaDownTake, Positive, SynchType
    <3>3. value' \in [Sema -> Nat]
      BY <1>a, <1>2, <3>2 DEF SemaDownTake, SynchType
    <3>4. QED BY <1>a, <1>2, <3>3 DEF SemaDownTake, SynchType
  <2>6. QED BY <1>a, <2>3, <2>4, <2>5 DEF SchedType, IdleStarting, schedVars
<1>3. CASE SemaTryDown
  <2>1. At(current, "try_down") /\ ~At(current, "set_idle")
    BY <1>3 DEF SemaTryDown, At
  <2>2. PICK rest \in Seq(InstrOf(current)) : Continue(rest)
    BY <1>a, <1>3, <2>1, HeadType, EmptyList DEF SemaTryDown, Done, GiveUp
  <2>3. CodeType' /\ (idle_thread = NULL => code'[Idle] = IdleBody)
    BY <1>a, <2>1, <2>2, <1>ContinueType
  <2>4. UNCHANGED schedVars
    BY <1>3 DEF SemaTryDown
  <2>5. SynchType'
    BY <1>a, <1>3, SMT DEF SemaTryDown, SynchType
  <2>6. QED BY <1>a, <2>3, <2>4, <2>5 DEF SchedType, IdleStarting, schedVars
<1>4. CASE SemaUp
  <2>1. At(current, "up") /\ ~At(current, "set_idle")
    BY <1>4 DEF SemaUp, At
  <2>2. CodeType' /\ (idle_thread = NULL => code'[Idle] = IdleBody)
    BY <1>a, <1>4, <2>1, HeadType, <1>ContinueType DEF SemaUp, Done
  <2>3. Arg \in Sema
    BY <1>a, <2>1, HeadType DEF SemaOp
  <2>4. QED BY <1>a, <1>4, <2>2, <2>3, <1>UpType DEF SemaUp, IdleStarting
<1>5. CASE SetHolder
  <2>1. At(current, "set_holder") /\ ~At(current, "set_idle")
    BY <1>5 DEF SetHolder, At
  <2>2. CodeType' /\ (idle_thread = NULL => code'[Idle] = IdleBody)
    BY <1>a, <2>1, <1>5, HeadType, <1>ContinueType DEF SetHolder, Done
  <2>3. UNCHANGED schedVars
    BY <1>5 DEF SetHolder
  <2>4. SynchType'
    BY <1>a, <1>5 DEF SetHolder, SynchType, SchedType
  <2>5. QED BY <1>a, <2>2, <2>3, <2>4 DEF SchedType, IdleStarting, schedVars
<1>6. CASE ClearHolder
  <2>1. At(current, "clear_holder") /\ ~At(current, "set_idle")
    BY <1>6 DEF ClearHolder, At
  <2>2. CodeType' /\ (idle_thread = NULL => code'[Idle] = IdleBody)
    BY <1>a, <2>1, <1>6, HeadType, <1>ContinueType DEF ClearHolder, Done
  <2>3. UNCHANGED schedVars
    BY <1>6 DEF ClearHolder
  <2>4. SynchType'
    BY <1>a, <1>6 DEF ClearHolder, SynchType
  <2>5. QED BY <1>a, <2>2, <2>3, <2>4 DEF SchedType, IdleStarting, schedVars
<1>7. CASE CondPush
  <2>1. At(current, "cond_push") /\ ~At(current, "set_idle")
    BY <1>7 DEF CondPush, At
  <2>2. CodeType' /\ (idle_thread = NULL => code'[Idle] = IdleBody)
    BY <1>a, <2>1, <1>7, HeadType, <1>ContinueType DEF CondPush, Done
  <2>3. UNCHANGED schedVars
    BY <1>7 DEF CondPush
  <2>4. SynchType'
    <3>1. cond_waiters' \in [Cond -> Seq(Thread)]
      <4>1. Arg \in Cond
        BY <1>a, <2>1, HeadType DEF CondOp
      <4>2. QED BY <1>a, <1>7, <4>1, SMT DEF CondPush, SynchType, SchedType
    <3>2. value' \in [Sema -> Nat]
      BY <1>a, <1>7 DEF CondPush, SynchType
    <3>3. QED BY <1>a, <1>7, <3>1, <3>2 DEF CondPush, SynchType
  <2>5. QED BY <1>a, <2>2, <2>3, <2>4 DEF SchedType, IdleStarting, schedVars
<1>8. CASE CondSignal
  <2>1. At(current, "signal") /\ ~At(current, "set_idle")
    BY <1>8 DEF CondSignal, At
  <2>2. Arg \in Cond /\ Tail(code[current]) \in Seq(InstrOf(current))
    BY <1>a, <2>1, HeadType DEF CondOp
  <2>3. CASE cond_waiters[Arg] = <<>>
    <3>1. CodeType' /\ (idle_thread = NULL => code'[Idle] = IdleBody)
      BY <1>a, <1>8, <2>1, <2>2, <2>3, <1>ContinueType DEF CondSignal, Done
    <3>2. QED BY <1>a, <1>8, <2>3, <3>1
              DEF CondSignal, SchedType, SynchType, IdleStarting, schedVars
  <2>4. CASE cond_waiters[Arg] # <<>>
    <3>1. cond_waiters[Arg] \in Seq(Thread)
      BY <1>a, <2>2 DEF SynchType
    <3>2. Head(cond_waiters[Arg]) \in Thread /\ Tail(cond_waiters[Arg]) \in Seq(Thread)
      BY <3>1, <2>4, SMT
    <3>3. <<I("up", Head(cond_waiters[Arg]))>> \in Seq(InstrOf(current))
      BY <3>2, <1>b, OneInstr DEF SemaOp, Sema
    <3>4. <<I("up", Head(cond_waiters[Arg]))>> \o Tail(code[current]) \in Seq(InstrOf(current))
      BY <2>2, <3>3, Join
    <3>5. CodeType' /\ (idle_thread = NULL => code'[Idle] = IdleBody)
      BY <1>a, <1>8, <2>1, <2>4, <3>4, <1>ContinueType DEF CondSignal, UpCondWaiter
    <3>6. cond_waiters' \in [Cond -> Seq(Thread)]
      BY <1>a, <1>8, <2>2, <2>4, <3>2 DEF CondSignal, PopCondWaiter, SynchType
    <3>7. QED BY <1>a, <1>8, <3>5, <3>6
              DEF CondSignal, SchedType, SynchType, IdleStarting, schedVars
  <2>5. QED BY <2>3, <2>4
<1>9. CASE CondBroadcast
  <2>1. At(current, "broadcast") /\ ~At(current, "set_idle")
    BY <1>9 DEF CondBroadcast, At
  <2>2. Arg \in Cond /\ Tail(code[current]) \in Seq(InstrOf(current))
    BY <1>a, <2>1, HeadType DEF CondOp
  <2>3. <<I("signal", Arg)>> \o code[current] \in Seq(InstrOf(current))
    <3>1. <<I("signal", Arg)>> \in Seq(InstrOf(current))
      BY <2>2, <1>b, OneInstr DEF CondOp
    <3>2. code[current] \in Seq(InstrOf(current))
      BY <1>a DEF CodeType, SchedType
    <3>3. QED BY <3>1, <3>2, Join
  <2>4. PICK rest \in Seq(InstrOf(current)) : Continue(rest)
    BY <1>9, <2>2, <2>3 DEF CondBroadcast, Done
  <2>5. CodeType' /\ (idle_thread = NULL => code'[Idle] = IdleBody)
    BY <1>a, <2>1, <2>4, <1>ContinueType
  <2>6. QED BY <1>a, <1>9, <2>5
            DEF CondBroadcast, SchedType, SynchType, IdleStarting, schedVars
<1>10. CASE InitThread
  <2>1. At(current, "init_thread") /\ ~At(current, "set_idle")
    BY <1>10 DEF InitThread, At
  <2>2. CodeType' /\ (idle_thread = NULL => code'[Idle] = IdleBody)
    BY <1>a, <1>10, <2>1, HeadType, <1>ContinueType DEF InitThread, Done
  <2>3. SchedType' /\ SynchType'
    BY <1>a, <1>10 DEF InitThread, SchedType, SynchType, Status
  <2>4. QED BY <1>a, <1>10, <2>2, <2>3 DEF InitThread, IdleStarting
<1>11. CASE ReadTid
  <2>1. At(current, "read_tid") /\ ~At(current, "set_idle")
    BY <1>11 DEF ReadTid, At
  <2>2. CodeType' /\ (idle_thread = NULL => code'[Idle] = IdleBody)
    BY <1>a, <2>1, <1>11, HeadType, <1>ContinueType DEF ReadTid, Done
  <2>3. UNCHANGED schedVars
    BY <1>11 DEF ReadTid
  <2>4. SynchType'
    BY <1>a, <1>11 DEF ReadTid, SynchType
  <2>5. QED BY <1>a, <2>2, <2>3, <2>4 DEF SchedType, IdleStarting, schedVars
<1>12. CASE WriteTid
  <2>1. At(current, "write_tid") /\ ~At(current, "set_idle")
    BY <1>12 DEF WriteTid, At
  <2>2. CodeType' /\ (idle_thread = NULL => code'[Idle] = IdleBody)
    BY <1>a, <2>1, <1>12, HeadType, <1>ContinueType DEF WriteTid, Done
  <2>3. UNCHANGED schedVars
    BY <1>12 DEF WriteTid
  <2>4. SynchType'
    <3>1. Arg \in Thread
      BY <1>a, <2>1, HeadType DEF ThreadOp
    <3>2. QED BY <1>a, <1>12, <3>1, SMT DEF WriteTid, SynchType
  <2>5. QED BY <1>a, <2>2, <2>3, <2>4 DEF SchedType, IdleStarting, schedVars
<1>13. CASE Unblock
  <2>1. At(current, "unblock") /\ ~At(current, "set_idle")
    BY <1>13 DEF Unblock, At
  <2>2. CodeType' /\ (idle_thread = NULL => code'[Idle] = IdleBody)
    BY <1>a, <1>13, <2>1, HeadType, <1>ContinueType DEF Unblock, Done
  <2>3. Arg \in Thread
    BY <1>a, <2>1, HeadType DEF ThreadOp
  <2>4. SchedType' /\ Elems(ready_list) \subseteq Elems(ready_list')
    BY <1>a, <1>13, <2>3, <1>UnblockType DEF Unblock
  <2>5. QED BY <1>a, <1>13, <2>2, <2>4
            DEF Unblock, ThreadUnblock, SynchType, IdleStarting
<1>Fails. CASE CreateFails
  <2>1. At(current, "unblock") /\ ~At(current, "set_idle")
    BY <1>Fails DEF CreateFails, At
  <2>2. CodeType' /\ (idle_thread = NULL => code'[Idle] = IdleBody)
    BY <1>a, <1>Fails, <2>1, HeadType, <1>ContinueType DEF CreateFails, Done
  <2>3. UNCHANGED schedVars
    BY <1>Fails DEF CreateFails
  <2>4. SynchType'
    BY <1>a, <1>Fails DEF CreateFails, SynchType
  <2>5. QED BY <1>a, <2>2, <2>3, <2>4 DEF SchedType, IdleStarting, schedVars
<1>14. CASE Yield
  <2>1. At(current, "yield") /\ ~At(current, "set_idle")
    BY <1>14 DEF Yield, At
  <2>2. CodeType' /\ (idle_thread = NULL => code'[Idle] = IdleBody)
    BY <1>a, <1>14, <2>1, HeadType, <1>ContinueType DEF Yield, Done
  <2>3. /\ SchedType'
        /\ idle_thread = NULL => current' = Idle \/ Idle \in Elems(ready_list')
    BY <1>a, <1>14, <1>YieldType DEF Yield, IdleStarting
  <2>4. QED BY <1>a, <1>14, <2>2, <2>3
            DEF Yield, ThreadYield, Schedule, SynchType, IdleStarting
<1>15. CASE Exit
  <2>1. At(current, "exit") /\ ~At(current, "set_idle")
    BY <1>15 DEF Exit, At
  <2>2. CodeType' /\ (idle_thread = NULL => code'[Idle] = IdleBody)
    BY <1>a, <1>15, <2>1, HeadType, <1>ContinueType DEF Exit, Done
  <2>3. /\ SchedType' /\ idle_thread' = idle_thread
        /\ idle_thread = NULL => current' = Idle \/ Idle \in Elems(ready_list')
    BY <1>a, <1>15, <2>1, <1>ExitType DEF Exit
  <2>4. QED BY <1>a, <1>15, <2>2, <2>3 DEF Exit, SynchType, IdleStarting
<1>16. CASE SetIdle
  <2>1. At(current, "set_idle")
    BY <1>16 DEF SetIdle
  <2>2. Tail(code[current]) \in Seq(InstrOf(current)) /\ current = Idle
    BY <1>a, <2>1, HeadType
  <2>3. CodeType'
    BY <1>16, <1>a, <1>b, <2>2, InstrOfType DEF SetIdle, Done, Continue, CodeType
  <2>4. idle_thread' = Idle /\ Idle # NULL
    BY <1>16, <2>2, ThreadAssumption DEF SetIdle
  <2>5. QED BY <1>a, <1>16, <2>3, <2>4
            DEF SetIdle, SchedType, SynchType, IdleStarting
<1>17. CASE IdleBlock
  <2>1. ~At(current, "set_idle")
    BY <1>17 DEF IdleBlock, At
  <2>2. /\ SchedType' /\ idle_thread' = idle_thread
        /\ idle_thread = NULL => current' = Idle \/ Idle \in Elems(ready_list')
    BY <1>a, <1>17, <2>1, <1>BlockType DEF IdleBlock
  <2>3. QED BY <1>a, <1>17, <2>2
            DEF IdleBlock, synchVars, SynchType, CodeType, IdleStarting
<1>18. CASE BeginCall
  <2>1. ~At(current, "set_idle")
    BY <1>18 DEF BeginCall, At
  <2>2. PICK body \in Calls : Continue(body)
    BY <1>18 DEF BeginCall
  <2>3. body \in Seq(InstrOf(current))
    BY <1>b, CallsType, InstrOfAny DEF IInv
  <2>4. CodeType' /\ (idle_thread = NULL => code'[Idle] = IdleBody)
    BY <1>a, <2>1, <2>2, <2>3, <1>ContinueType
  <2>5. QED BY <1>a, <1>18, <2>4
            DEF BeginCall, SchedType, SynchType, IdleStarting, schedVars
<1>19. CASE TimerInterrupt
  <2>1. CASE ThreadYield
    <3>1. /\ SchedType'
          /\ idle_thread = NULL => current' = Idle \/ Idle \in Elems(ready_list')
      BY <1>a, <2>1, <1>YieldType DEF IdleStarting
    <3>2. QED BY <1>a, <1>19, <2>1, <3>1
              DEF TimerInterrupt, ThreadYield, Schedule, synchVars, SynchType,
                  CodeType, IdleStarting
  <2>2. CASE ~ThreadYield
    <3>1. /\ thread_ticks + 1 < TIME_SLICE /\ thread_ticks' = thread_ticks + 1
          /\ UNCHANGED <<status, ready_list, current, idle_thread>>
      BY <1>19, <2>2 DEF TimerInterrupt, ThreadTick
    <3>2. thread_ticks' \in 0 .. TIME_SLICE - 1
      BY <1>a, <3>1, ThreadAssumption, SMT DEF SchedType
    <3>3. QED BY <1>a, <1>19, <3>1, <3>2
              DEF TimerInterrupt, synchVars, SchedType, SynchType, CodeType,
                  IdleStarting
  <2>3. QED BY <2>1, <2>2
<1>20. CASE DeviceInterrupt
  <2>1. PICK s \in IntrSema : Up(s)
    BY <1>20 DEF DeviceInterrupt
  <2>2. s \in Sema
    BY SynchAssumption DEF Sema
  <2>3. QED BY <1>a, <1>20, <2>1, <2>2, <1>UpType
            DEF DeviceInterrupt, CodeType, IdleStarting
<1>21. CASE UNCHANGED vars
  BY <1>a, <1>21 DEF vars, SchedType, SynchType, CodeType, IdleStarting
<1>22. QED
  BY <1>1, <1>2, <1>3, <1>4, <1>5, <1>6, <1>7, <1>8, <1>9, <1>10, <1>11, <1>12, <1>13,
     <1>14, <1>Fails, <1>15, <1>16, <1>17, <1>18, <1>19, <1>20, <1>21 DEF Next

(***************************************************************************)
(* The theorems.                                                           *)
(***************************************************************************)
\* Every variable keeps its type in every behaviour of the primitives of
\* synch.c and the scheduler of thread.c.  That includes that the CPU is
\* always on a thread's stack, never on the null pointer that idle_thread is
\* while the system starts, and that idle alone sets idle_thread.
THEOREM TypeCorrect == Spec => []TypeOK
<1>1. IInv => TypeOK
  BY DEF IInv
<1>2. QED BY InitInv, NextInv, <1>1, PTL DEF Spec

\* schedule's ASSERT (is_thread (next)): with an empty run queue there is an
\* idle thread to switch to, or idle is running and about to announce itself.
THEOREM AlwaysAThread == Spec => []NextIsThread
<1>1. IInv => NextIsThread
  <2> SUFFICES ASSUME IInv, ready_list = <<>>, idle_thread = NULL
               PROVE  At(current, "set_idle")
    BY DEF NextIsThread
  <2>1. current = Idle /\ code[Idle] = IdleBody
    BY SMT DEF IInv, IdleStarting, Elems
  <2>2. QED BY <2>1, SMT DEF At, IdleBody, I
<1>2. QED BY InitInv, NextInv, <1>1, PTL DEF Spec

(***************************************************************************)
(* The run queue and the wait lists.                                       *)
(***************************************************************************)
Distinct(s) == \A i, j \in DOMAIN s : s[i] = s[j] => i = j

\* One thread runs, and the run queue holds the ready ones, each once.
Queued ==
  /\ \A t \in Thread : status[t] = "RUNNING" <=> t = current
  /\ \A t \in Thread : t \in Elems(ready_list) <=>
                         status[t] = "READY" /\ t # idle_thread
  /\ Distinct(ready_list)

\* A thread on a semaphore's list sleeps in that semaphore's sema_down.
Sleeps(t, s) ==
  /\ status[t] = "BLOCKED" /\ code[t] # <<>> /\ Head(code[t]) = I("retest", s)

Listed ==
  \A s \in Sema : /\ \A t \in Elems(waiters[s]) : Sleeps(t, s)
                  /\ Distinct(waiters[s])

\* idle() never waits for a semaphore and never ends.
IdleCode ==
  code[Idle] \in {IdleBody, <<I("up", idle_started), I("block", Idle)>>,
                  <<I("block", Idle)>>}

\* The instructions of thread_create after init_thread and before unblock.
MiddleOp == {"down", "retest", "up", "set_holder", "clear_holder", "read_tid",
             "write_tid"}

\* Code that creates t, from init_thread on or from a later point.
Creates(s, t) ==
  /\ s # <<>> /\ s[Len(s)] = I("unblock", t)
  /\ \A i \in 1 .. Len(s) - 1 : \/ s[i].op \in MiddleOp
                                \/ i = 1 /\ s[i] = I("init_thread", t)

\* Other code that goes on.
Ordinary(s) ==
  \A i \in 1 .. Len(s) : s[i].op \notin {"init_thread", "unblock", "exit"}

Shape(s) ==
  /\ \/ Ordinary(s)
     \/ Len(s) = 1 /\ s[1].op = "exit"
     \/ \E t \in Thread : Creates(s, t)
  /\ \A i \in 2 .. Len(s) : s[i].op # "retest"

Shapes == \A t \in Thread : Shape(code[t])

\* A page is in the hands of one creator, who finds it free, and until it
\* unblocks the new thread nothing else changes that thread.
Creation ==
  /\ \A t \in Thread : status[t] = "FREE" => code[t] = <<>>
  /\ \A u, t \in Thread : Creates(code[u], t) =>
       /\ IF code[u][1].op = "init_thread" THEN status[t] = "FREE"
          ELSE status[t] = "BLOCKED" /\ code[t] = <<>>
       /\ \A v \in Thread : Creates(code[v], t) => u = v

\* Nobody who has run sleeps out of reach.
Reachable ==
  \A t \in Thread : status[t] = "BLOCKED" =>
    \/ \E s \in Sema : t \in Elems(waiters[s])
    \/ t = idle_thread
    \/ code[t] = <<>>

Waiting == Queued /\ Listed /\ IdleCode /\ Shapes /\ Creation /\ Reachable

WInv == IInv /\ Waiting

(***************************************************************************)
(* Code.                                                                   *)
(***************************************************************************)
Ins == Instr \cup IdleInstr

AllOps(s, O) == \A i \in 1 .. Len(s) : s[i].op \in O

OrdinaryOp == {"down", "retest", "try_down", "up", "set_holder", "clear_holder",
               "cond_push", "signal", "broadcast", "read_tid", "write_tid",
               "yield", "set_idle", "block"}

\* An instruction is its op and its argument.
LEMMA InstrIs ==
  /\ \A op, arg : I(op, arg).op = op /\ I(op, arg).arg = arg
  /\ \A x \in Ins : /\ x = I(x.op, x.arg)
                    /\ x.op \in OrdinaryOp \cup {"init_thread", "unblock", "exit"}
                    /\ x.op \in {"init_thread", "unblock"} => x.arg \in Thread
BY SMT DEF I, Ins, Instr, IdleInstr, SemaOp, LockOp, CondOp, ThreadOp, OrdinaryOp

\* The two ends of a sequence.
LEMMA Ends ==
  ASSUME NEW s \in Seq(Ins), s # <<>>
  PROVE  /\ Len(s) \in Nat /\ Len(s) >= 1 /\ Head(s) = s[1] /\ s[1] \in Ins
         /\ Tail(s) \in Seq(Ins) /\ Len(Tail(s)) = Len(s) - 1
         /\ \A i \in 1 .. Len(Tail(s)) : Tail(s)[i] = s[i + 1]
         /\ Len(s) = 1 => Tail(s) = <<>>
         /\ Len(s) > 1 => Tail(s) # <<>>
<1>1. /\ Len(s) \in Nat /\ Len(s) >= 1 /\ Head(s) = s[1] /\ s[1] \in Ins
      /\ Tail(s) \in Seq(Ins) /\ Len(Tail(s)) = Len(s) - 1
      /\ \A i \in 1 .. Len(Tail(s)) : Tail(s)[i] = s[i + 1]
  BY HeadTail, EmptyList, SMT
<1> DEFINE r == Tail(s)
<1>2. r \in Seq(Ins) /\ Len(r) = Len(s) - 1
  BY <1>1
<1> HIDE DEF r
<1>3. (Len(s) = 1 => r = <<>>) /\ (Len(s) > 1 => r # <<>>)
  BY <1>1, <1>2, EmptyList, SMT
<1>4. QED
  BY <1>1, <1>3 DEF r

\* Code that creates a thread is not ordinary, and creates one.
LEMMA CreatesOne ==
  ASSUME NEW s \in Seq(Ins), NEW t, Creates(s, t)
  PROVE  /\ Len(s) \in Nat /\ Len(s) >= 1 /\ s # <<>>
         /\ ~Ordinary(s) /\ ~(Len(s) = 1 /\ s[1].op = "exit")
         /\ \A u : Creates(s, u) => u = t
         /\ \A i \in 2 .. Len(s) : s[i].op # "init_thread"
         /\ s[1].op \in MiddleOp \cup {"init_thread", "unblock"}
         /\ s[1].op = "init_thread" => s[1] = I("init_thread", t)
         /\ s[1].op = "unblock" => Len(s) = 1 /\ s[1] = I("unblock", t)
<1>1. Len(s) \in Nat /\ Len(s) >= 1 /\ s # <<>>
  BY Ends DEF Creates
<1>2. s[Len(s)].op = "unblock" /\ s[Len(s)].arg = t
  BY InstrIs, SMT DEF Creates
<1>3. \A i \in 1 .. Len(s) : i = Len(s) \/ i \in 1 .. Len(s) - 1
  BY <1>1, SMT
<1>4. \A i \in 1 .. Len(s) - 1 : \/ s[i].op \in MiddleOp
                                 \/ i = 1 /\ s[i] = I("init_thread", t)
  BY DEF Creates
<1>5. ~Ordinary(s) /\ ~(Len(s) = 1 /\ s[1].op = "exit")
  BY <1>1, <1>2, SMT DEF Ordinary
<1>6. \A u : Creates(s, u) => u = t
  BY <1>2, InstrIs, SMT DEF Creates
<1>7. \A i \in 2 .. Len(s) : s[i].op # "init_thread"
  BY <1>1, <1>2, <1>3, <1>4, SMT DEF MiddleOp
<1>8. s[1].op \in MiddleOp \cup {"init_thread", "unblock"}
  BY <1>1, <1>2, <1>3, <1>4, InstrIs, SMT
<1>9. s[1].op = "init_thread" => s[1] = I("init_thread", t)
  BY <1>1, <1>2, <1>3, <1>4, InstrIs, SMT DEF MiddleOp
<1>10. s[1].op = "unblock" => Len(s) = 1 /\ s[1] = I("unblock", t)
  <2>1. s[1].op = "unblock" => 1 \notin 1 .. Len(s) - 1
    BY <1>4, InstrIs, SMT DEF MiddleOp
  <2>2. \A n \in Nat : n >= 1 /\ 1 \notin 1 .. n - 1 => n = 1
    BY SMT
  <2>3. s[Len(s)] = I("unblock", t)
    BY DEF Creates
  <2>4. QED
    BY <1>1, <2>1, <2>2, <2>3
<1>11. QED
  BY <1>1, <1>5, <1>6, <1>7, <1>8, <1>9, <1>10

(***************************************************************************)
(* The bodies of the calls.                                                *)
(***************************************************************************)
\* What a call adds: code that creates no thread, or the body of thread_create
\* for a page that is free and in nobody's hands.
LEMMA CallsShape ==
  ASSUME TypeOK, NEW body \in Calls
  PROVE  /\ Shape(body)
         /\ \/ \A t \in Thread : ~Creates(body, t)
            \/ \E t \in Thread : /\ Creates(body, t) /\ body[1].op = "init_thread"
                                 /\ Allocatable(t)
\* The instructions of joined code.
<1>JoinOps. ASSUME NEW s \in Seq(Instr), NEW t \in Seq(Instr), NEW O, AllOps(s, O), AllOps(t, O)
            PROVE  s \o t \in Seq(Instr) /\ AllOps(s \o t, O)
  <2> USE <1>JoinOps
  <2> DEFINE r == s \o t
  <2>1. /\ Len(s) \in Nat /\ Len(t) \in Nat
        /\ r \in Seq(Instr) /\ Len(r) = Len(s) + Len(t)
        /\ \A i \in 1 .. Len(s) : r[i] = s[i]
        /\ \A i \in 1 .. Len(t) : r[Len(s) + i] = t[i]
    BY JoinAt, SMT
  <2> HIDE DEF r
  <2>2. ASSUME NEW i \in 1 .. Len(r) PROVE r[i].op \in O
    <3>1. CASE i <= Len(s)
      BY <2>1, <3>1, SMT DEF AllOps
    <3>2. CASE i > Len(s)
      <4>1. i - Len(s) \in 1 .. Len(t) /\ Len(s) + (i - Len(s)) = i
        BY <2>1, <3>2, SMT
      <4>2. r[i] = t[i - Len(s)]
        BY <2>1, <4>1
      <4>3. QED
        BY <4>1, <4>2 DEF AllOps
    <3>3. QED
      BY <2>1, <3>1, <3>2, SMT
  <2>3. QED
    BY <2>1, <2>2 DEF AllOps, r
\* One instruction.
<1>OneOp. ASSUME NEW x \in Instr, NEW O, x.op \in O
          PROVE  <<x>> \in Seq(Instr) /\ AllOps(<<x>>, O)
  BY <1>OneOp, SMT DEF AllOps
\* Ordinary code.
<1>OrdinaryShape. ASSUME NEW s \in Seq(Ins), AllOps(s, OrdinaryOp \ {"retest"})
                  PROVE  Shape(s) /\ \A t \in Thread : ~Creates(s, t)
  <2> USE <1>OrdinaryShape
  <2>1. Ordinary(s)
    BY DEF AllOps, OrdinaryOp, Ordinary
  <2>2. \A i \in 2 .. Len(s) : s[i].op # "retest"
    BY SMT DEF AllOps, OrdinaryOp
  <2>3. QED
    BY <2>1, <2>2, CreatesOne DEF Shape
\* The parts that several bodies have.
<1>LockOps. ASSUME NEW l \in Lock
            PROVE  LET O == {"down", "up", "set_holder", "clear_holder"}
                   IN  /\ LockAcquire(l) \in Seq(Instr) /\ AllOps(LockAcquire(l), O)
                       /\ LockRelease(l) \in Seq(Instr) /\ AllOps(LockRelease(l), O)
                       /\ LockTryAcquire(l) \in Seq(Instr)
                       /\ AllOps(LockTryAcquire(l), OrdinaryOp \ {"retest"})
  <2> USE <1>LockOps
  <2>1. /\ LockAcquire(l) \in Seq(Instr) /\ LockRelease(l) \in Seq(Instr)
        /\ LockTryAcquire(l) \in Seq(Instr)
    BY BodyType
  <2>2. /\ AllOps(LockAcquire(l), {"down", "up", "set_holder", "clear_holder"})
        /\ AllOps(LockRelease(l), {"down", "up", "set_holder", "clear_holder"})
    BY InstrIs, SMT DEF AllOps, LockAcquire, LockRelease
  <2>3. AllOps(LockTryAcquire(l), OrdinaryOp \ {"retest"})
    BY InstrIs, SMT DEF AllOps, LockTryAcquire, OrdinaryOp
  <2>4. QED
    BY <2>1, <2>2, <2>3
\* More instructions are allowed.
<1>MoreOps. ASSUME NEW s, NEW O, NEW P, O \subseteq P, AllOps(s, O)
            PROVE  AllOps(s, P)
  BY <1>MoreOps DEF AllOps
\* cond_wait.
<1>CondWaitOps. ASSUME NEW c \in Cond, NEW t \in Thread
                PROVE  AllOps(CondWait(c, t), OrdinaryOp \ {"retest"})
  <2> USE <1>CondWaitOps
  <2> DEFINE O == OrdinaryOp \ {"retest"}
             l == LockOf[c]
             a == <<I("cond_push", c)>>
             d == <<I("down", t)>>
             p == a \o LockRelease(l)
             q == p \o d
  <2>1. l \in Lock
    BY SynchAssumption
  <2>2. /\ LockAcquire(l) \in Seq(Instr) /\ AllOps(LockAcquire(l), O)
        /\ LockRelease(l) \in Seq(Instr) /\ AllOps(LockRelease(l), O)
    <3>1. {"down", "up", "set_holder", "clear_holder"} \subseteq O
      BY DEF OrdinaryOp
    <3> HIDE DEF O, l
    <3>2. QED
      BY <2>1, <3>1, <1>LockOps, <1>MoreOps, SMT
  <2>3. a \in Seq(Instr) /\ AllOps(a, O) /\ d \in Seq(Instr) /\ AllOps(d, O)
    <3>1. /\ I("cond_push", c) \in Instr /\ I("cond_push", c).op \in O
          /\ I("down", t) \in Instr /\ I("down", t).op \in O
      BY InstrType, InstrIs DEF CondOp, SemaOp, Sema, OrdinaryOp
    <3> HIDE DEF O
    <3>2. QED
      BY <3>1, <1>OneOp
  <2> HIDE DEF O, l, a, d
  <2>4. p \in Seq(Instr) /\ AllOps(p, O)
    BY <2>2, <2>3, <1>JoinOps
  <2> HIDE DEF p
  <2>5. q \in Seq(Instr) /\ AllOps(q, O)
    BY <2>3, <2>4, <1>JoinOps
  <2> HIDE DEF q
  <2>6. AllOps(q \o LockAcquire(l), O)
    BY <2>2, <2>5, <1>JoinOps
  <2>7. CondWait(c, t) = q \o LockAcquire(l)
    BY DEF CondWait, q, p, a, d, l
  <2>8. QED
    BY <2>6, <2>7 DEF O
\* thread_create.
<1>ThreadCreateShape. ASSUME NEW t \in Thread
                      PROVE  /\ Shape(ThreadCreate(t)) /\ Creates(ThreadCreate(t), t)
                             /\ ThreadCreate(t)[1].op = "init_thread"
  <2> USE <1>ThreadCreateShape
  <2> DEFINE O == MiddleOp \ {"retest"}
             m == <<I("read_tid", t), I("write_tid", t)>>
             p == LockAcquire(tid_lock) \o m
             q == p \o LockRelease(tid_lock)
             a == <<I("init_thread", t)>>
             w == a \o q
             d == <<I("unblock", t)>>
             r == w \o d
  <2>1. ThreadCreate(t) = r
    BY DEF ThreadCreate, AllocateTid
  <2>2. /\ LockAcquire(tid_lock) \in Seq(Instr) /\ AllOps(LockAcquire(tid_lock), O)
        /\ LockRelease(tid_lock) \in Seq(Instr) /\ AllOps(LockRelease(tid_lock), O)
    <3>1. {"down", "up", "set_holder", "clear_holder"} \subseteq O /\ tid_lock \in Lock
      BY SynchAssumption DEF MiddleOp
    <3> HIDE DEF O
    <3>2. QED
      BY <3>1, <1>LockOps, <1>MoreOps, SMT
  <2>3. m \in Seq(Instr) /\ AllOps(m, O)
    BY InstrType, InstrIs, SMT DEF ThreadOp, AllOps, MiddleOp
  <2>4. /\ a \in Seq(Instr) /\ Len(a) = 1 /\ a[1] = I("init_thread", t)
        /\ d \in Seq(Instr) /\ Len(d) = 1 /\ d[1] = I("unblock", t)
    BY InstrType, SMT DEF ThreadOp
  <2> HIDE DEF m, a, d, O
  <2>5. p \in Seq(Instr) /\ AllOps(p, O)
    BY <2>2, <2>3, <1>JoinOps
  <2> HIDE DEF p
  <2>6. q \in Seq(Instr) /\ AllOps(q, O)
    BY <2>2, <2>5, <1>JoinOps
  <2> HIDE DEF q
  <2>7. /\ Len(q) \in Nat /\ w \in Seq(Instr) /\ Len(w) = 1 + Len(q)
        /\ w[1] = I("init_thread", t)
        /\ \A i \in 1 .. Len(q) : w[1 + i] = q[i]
    <3>1. /\ w \in Seq(Instr) /\ Len(w) = Len(a) + Len(q)
          /\ \A i \in 1 .. Len(a) : w[i] = a[i]
          /\ \A i \in 1 .. Len(q) : w[Len(a) + i] = q[i]
      BY <2>4, <2>6, JoinAt
    <3> HIDE DEF w
    <3>2. QED
      BY <2>4, <2>6, <3>1, SMT
  <2> HIDE DEF w
  <2>8. /\ r \in Seq(Instr) /\ Len(r) = Len(q) + 2 /\ r[Len(q) + 2] = I("unblock", t)
        /\ r[1] = I("init_thread", t)
        /\ \A i \in 1 .. Len(q) : r[1 + i] = q[i]
    <3>1. /\ r \in Seq(Instr) /\ Len(r) = Len(w) + Len(d)
          /\ \A i \in 1 .. Len(w) : r[i] = w[i]
          /\ \A i \in 1 .. Len(d) : r[Len(w) + i] = d[i]
      BY <2>4, <2>7, JoinAt
    <3> HIDE DEF r
    <3>2. r[Len(w) + 1] = d[1] /\ Len(w) + 1 = Len(q) + 2
      BY <2>4, <2>7, <3>1, SMT
    <3>3. QED
      BY <2>4, <2>7, <3>1, <3>2, SMT
  <2> HIDE DEF r
  <2>9. ASSUME NEW i \in 2 .. Len(r) - 1 PROVE r[i].op \in O
    <3>1. i - 1 \in 1 .. Len(q) /\ 1 + (i - 1) = i
      BY <2>7, <2>8, SMT
    <3>2. r[i] = q[i - 1]
      BY <2>8, <3>1
    <3>3. QED
      BY <2>6, <3>1, <3>2 DEF AllOps
  <2>10. Creates(r, t)
    <3>1. r # <<>>
      BY <2>7, <2>8, EmptyList, SMT
    <3>2. r[Len(r)] = I("unblock", t)
      BY <2>7, <2>8
    <3>3. \A i \in 1 .. Len(r) - 1 : i = 1 \/ i \in 2 .. Len(r) - 1
      BY <2>7, <2>8, SMT
    <3>4. QED
      BY <2>8, <2>9, <3>1, <3>2, <3>3 DEF Creates, O
  <2>11. ASSUME NEW i \in 2 .. Len(r) PROVE r[i].op # "retest"
    <3>1. i \in 2 .. Len(r) - 1 \/ i = Len(q) + 2
      BY <2>7, <2>8, SMT
    <3>2. QED
      BY <2>8, <2>9, <3>1, InstrIs, SMT DEF O
  <2>12. QED
    BY <2>1, <2>8, <2>10, <2>11, InstrIs, SMT DEF Shape
<1>1. body \in Seq(Instr) /\ body \in Seq(Ins) /\ current \in Thread
  BY CallsType, MoreCode DEF Ins, TypeOK
<1>2. CASE \E op \in {"down", "try_down", "up"} :
             \E s \in Plain : body = <<I(op, s)>>
  <2>1. AllOps(body, OrdinaryOp \ {"retest"})
    BY <1>2, InstrIs, SMT DEF AllOps, OrdinaryOp
  <2>2. QED
    BY <1>1, <2>1, <1>OrdinaryShape
<1>3. CASE \E l \in Lock : body \in {LockAcquire(l), LockTryAcquire(l), LockRelease(l)}
  <2>1. AllOps(body, OrdinaryOp \ {"retest"})
    <3>1. {"down", "up", "set_holder", "clear_holder"} \subseteq OrdinaryOp \ {"retest"}
      BY DEF OrdinaryOp
    <3>2. QED
      BY <1>3, <3>1, <1>LockOps, <1>MoreOps, SMT
  <2>2. QED
    BY <1>1, <2>1, <1>OrdinaryShape
<1>4. CASE \E c \in Cond : body \in {CondWait(c, current), <<I("signal", c)>>,
                                     <<I("broadcast", c)>>}
  <2>1. PICK c \in Cond : body \in {CondWait(c, current), <<I("signal", c)>>,
                                    <<I("broadcast", c)>>}
    BY <1>4
  <2>2. AllOps(<<I("signal", c)>>, OrdinaryOp \ {"retest"})
    BY InstrIs, SMT DEF AllOps, OrdinaryOp
  <2>3. AllOps(<<I("broadcast", c)>>, OrdinaryOp \ {"retest"})
    BY InstrIs, SMT DEF AllOps, OrdinaryOp
  <2>4. AllOps(body, OrdinaryOp \ {"retest"})
    BY <1>1, <2>1, <2>2, <2>3, <1>CondWaitOps
  <2>5. QED
    BY <1>1, <2>4, <1>OrdinaryShape
<1>5. CASE \E t \in Thread : body = ThreadCreate(t) /\ Allocatable(t)
  BY <1>5, <1>ThreadCreateShape
<1>6. CASE body = <<I("yield", current)>>
  <2>1. AllOps(body, OrdinaryOp \ {"retest"})
    BY <1>6, InstrIs, SMT DEF AllOps, OrdinaryOp
  <2>2. QED
    BY <1>1, <2>1, <1>OrdinaryShape
<1>7. CASE body = <<I("exit", current)>>
  <2>1. Len(body) = 1 /\ body[1].op = "exit"
    BY <1>7, InstrIs
  <2>2. Shape(body)
    BY <2>1, SMT DEF Shape
  <2>3. \A t \in Thread : ~Creates(body, t)
    BY <1>1, <2>1, CreatesOne
  <2>4. QED
    BY <2>2, <2>3
<1>8. QED
  BY <1>2, <1>3, <1>4, <1>5, <1>6, <1>7, CallsCases

(***************************************************************************)
(* Lists without repetition.                                               *)
(***************************************************************************)
\* list_push_back of an element that is not there.
LEMMA DistinctAppend ==
  ASSUME NEW s \in Seq(Thread), NEW t \in Thread, Distinct(s), t \notin Elems(s)
  PROVE  Distinct(Append(s, t))
<1> DEFINE r == Append(s, t)
<1>1. /\ Len(s) \in Nat /\ DOMAIN s = 1 .. Len(s) /\ DOMAIN r = 1 .. Len(s) + 1
      /\ r[Len(s) + 1] = t
      /\ \A i \in 1 .. Len(s) : r[i] = s[i] /\ s[i] # t
  BY SMT DEF Elems
<1> HIDE DEF r
<1>2. ASSUME NEW i \in DOMAIN r, NEW j \in DOMAIN r, r[i] = r[j] PROVE i = j
  <2>1. (i \in 1 .. Len(s) \/ i = Len(s) + 1) /\ (j \in 1 .. Len(s) \/ j = Len(s) + 1)
    BY <1>1, SMT
  <2>2. QED
    BY <1>1, <1>2, <2>1 DEF Distinct
<1>3. QED
  BY <1>2 DEF Distinct, r

\* list_pop_front.
LEMMA DistinctTail ==
  ASSUME NEW s \in Seq(Thread), s # <<>>, Distinct(s)
  PROVE  /\ Distinct(Tail(s)) /\ Tail(s) \in Seq(Thread)
         /\ Head(s) \in Thread /\ Head(s) \notin Elems(Tail(s))
         /\ Elems(s) = {Head(s)} \cup Elems(Tail(s))
<1> DEFINE r == Tail(s)
<1>1. /\ r \in Seq(Thread) /\ Len(s) \in Nat /\ Len(s) > 0 /\ Len(r) = Len(s) - 1
      /\ DOMAIN s = 1 .. Len(s) /\ DOMAIN r = 1 .. Len(r)
      /\ \A i \in 1 .. Len(r) : r[i] = s[i + 1]
      /\ Head(s) = s[1] /\ Head(s) \in Thread
  BY HeadTail, EmptyList, SMT
<1>2. Elems(s) = {Head(s)} \cup Elems(r)
  BY ElemsTail
<1> HIDE DEF r
<1>3. ASSUME NEW i \in DOMAIN r, NEW j \in DOMAIN r, r[i] = r[j] PROVE i = j
  <2>1. i + 1 \in DOMAIN s /\ j + 1 \in DOMAIN s /\ s[i + 1] = s[j + 1]
    BY <1>1, <1>3, SMT
  <2>2. i + 1 = j + 1
    BY <2>1 DEF Distinct
  <2>3. QED
    BY <1>1, <2>2, SMT
<1>4. ASSUME NEW i \in DOMAIN r, r[i] = Head(s) PROVE FALSE
  <2>1. i + 1 \in DOMAIN s /\ 1 \in DOMAIN s /\ s[i + 1] = s[1] /\ i + 1 # 1
    BY <1>1, <1>4, SMT
  <2>2. QED
    BY <2>1 DEF Distinct
<1>5. QED
  BY <1>1, <1>2, <1>3, <1>4 DEF Distinct, Elems, r

(***************************************************************************)
(* The scheduler.                                                          *)
(***************************************************************************)
\* How a step may change the states of threads other than the running one and
\* those of X: the scheduler wakes idle, and nobody else is blocked, woken,
\* created or freed.
Frame(X) ==
  \A t \in Thread \ {current} : t \notin X =>
    /\ status'[t] = "FREE" <=> status[t] = "FREE"
    /\ status'[t] = "BLOCKED" => status[t] = "BLOCKED"
    /\ status[t] = "BLOCKED" /\ t # Idle => status'[t] = "BLOCKED"

(***************************************************************************)
(* What a step leaves true.                                                *)
(***************************************************************************)
\* The running thread goes on with other code.
LEMMA NewCode ==
  ASSUME TypeOK, NEW rest, Continue(rest)
  PROVE  /\ code'[current] = rest
         /\ \A t \in Thread : t # current => code'[t] = code[t]
BY DEF TypeOK, Continue

IdleCodes == {IdleBody, <<I("up", idle_started), I("block", Idle)>>,
              <<I("block", Idle)>>}

\* What the running thread executes.
LEMMA Running ==
  ASSUME IInv, Waiting
  PROVE  /\ current \in Thread /\ code[current] \in Seq(Ins)
         /\ Shape(code[current]) /\ status[current] = "RUNNING"
         /\ code[current] # <<>> => Head(code[current]) \in Ins
<1>1. current \in Thread /\ code[current] \in Seq(Ins)
  BY DEF IInv, TypeOK, Ins
<1>2. Shape(code[current]) /\ status[current] = "RUNNING"
  BY <1>1 DEF Waiting, Shapes, Queued
<1>3. QED
  BY <1>1, <1>2, Ends

(***************************************************************************)
(* The invariant.                                                          *)
(***************************************************************************)
\* It holds when thread_start turns interrupts on.
LEMMA InitWaiting == Init => Waiting
<1> SUFFICES ASSUME Init PROVE Waiting
  OBVIOUS
<1>1. /\ ready_list = <<Idle>> /\ current = Main /\ idle_thread = NULL
      /\ status = [t \in Thread |-> CASE t = Main -> "RUNNING"
                                      [] t = Idle -> "READY"
                                      [] OTHER    -> "FREE"]
      /\ waiters = [s \in Sema |-> <<>>]
      /\ code = [t \in Thread |-> CASE t = Main -> <<I("down", idle_started)>>
                                    [] t = Idle -> IdleBody
                                    [] OTHER    -> <<>>]
  BY DEF Init, SchedInit
<1>2. /\ status[Main] = "RUNNING" /\ status[Idle] = "READY"
      /\ \A t \in Thread : t # Main /\ t # Idle => status[t] = "FREE"
      /\ code[Main] = <<I("down", idle_started)>> /\ code[Idle] = IdleBody
      /\ \A t \in Thread : t # Main /\ t # Idle => code[t] = <<>>
  BY <1>1, ThreadAssumption
<1>3. Elems(ready_list) = {Idle} /\ Distinct(ready_list)
  BY <1>1, SMT DEF Elems, Distinct
<1>4. Queued
  <2>1. \A t \in Thread : status[t] = "RUNNING" <=> t = current
    BY <1>1, <1>2, ThreadAssumption
  <2>2. \A t \in Thread : t \in Elems(ready_list) <=>
                            status[t] = "READY" /\ t # idle_thread
    BY <1>1, <1>2, <1>3, ThreadAssumption
  <2>3. QED
    BY <1>3, <2>1, <2>2 DEF Queued
<1>5. Listed
  BY <1>1, SMT DEF Listed, Elems, Distinct
<1>6. IdleCode
  BY <1>2 DEF IdleCode
<1>7. \A t \in Thread : Ordinary(code[t]) /\ \A i \in 2 .. Len(code[t]) : code[t][i].op # "retest"
  <2>1. Ordinary(<<>>) /\ \A i \in 2 .. Len(<<>>) : <<>>[i].op # "retest"
    BY SMT DEF Ordinary
  <2>2. /\ Ordinary(<<I("down", idle_started)>>)
        /\ \A i \in 2 .. Len(<<I("down", idle_started)>>) :
             <<I("down", idle_started)>>[i].op # "retest"
    BY SMT DEF Ordinary, I
  <2>3. Ordinary(IdleBody) /\ \A i \in 2 .. Len(IdleBody) : IdleBody[i].op # "retest"
    BY SMT DEF Ordinary, I, IdleBody
  <2>4. QED
    BY <1>2, <2>1, <2>2, <2>3
<1>8. Shapes
  BY <1>7 DEF Shapes, Shape
<1>9. \A u, t \in Thread : ~Creates(code[u], t)
  <2>1. TypeOK
    BY InitInv DEF IInv
  <2>2. \A u \in Thread : code[u] \in Seq(Ins)
    BY <2>1 DEF TypeOK, Ins
  <2>3. QED
    BY <1>7, <2>2, CreatesOne
<1>10. Creation
  BY <1>2, <1>9, ThreadAssumption DEF Creation
<1>11. Reachable
  BY <1>2, ThreadAssumption DEF Reachable
<1>12. QED
  BY <1>4, <1>5, <1>6, <1>8, <1>10, <1>11 DEF Waiting

\* Every step keeps it.
LEMMA StepWaiting == IInv /\ Waiting /\ [Next]_vars => Waiting'
\* What remains after an instruction of code that has one of the shapes.
<1>TailShape. ASSUME NEW s \in Seq(Ins), s # <<>>, Shape(s)
              PROVE  /\ Shape(Tail(s))
                     /\ Head(s).op \in {"exit", "unblock"} => Tail(s) = <<>>
                     /\ Head(s).op = "unblock" => Creates(s, Head(s).arg)
                     /\ Head(s).op = "init_thread" => Creates(s, Head(s).arg)
                     /\ Head(s).op # "unblock" =>
                          \A t \in Thread : /\ Creates(s, t) <=> Creates(Tail(s), t)
                                            /\ Creates(s, t) => Tail(s)[1].op # "init_thread"
  <2> USE <1>TailShape
  <2> DEFINE r == Tail(s)
  <2>1. /\ Len(s) \in Nat /\ Len(s) >= 1 /\ Head(s) = s[1] /\ s[1] \in Ins
        /\ r \in Seq(Ins) /\ Len(r) = Len(s) - 1
        /\ \A i \in 1 .. Len(r) : r[i] = s[i + 1]
        /\ Len(s) = 1 => r = <<>>
        /\ Len(s) > 1 => r # <<>>
    BY Ends
  <2> HIDE DEF r
  <2>2. \A i \in 2 .. Len(r) : r[i].op # "retest"
    BY <2>1, SMT DEF Shape
  <2>3. \A t : ~Creates(<<>>, t)
    BY DEF Creates
  <2>4. CASE Ordinary(s)
    <3>1. Ordinary(r)
      BY <2>1, <2>4, SMT DEF Ordinary
    <3>2. Head(s).op \notin {"init_thread", "unblock", "exit"}
      BY <2>1, <2>4, SMT DEF Ordinary
    <3>3. \A t \in Thread : ~Creates(s, t) /\ ~Creates(r, t)
      BY <2>1, <2>4, <3>1, CreatesOne
    <3>4. Shape(r)
      BY <2>2, <3>1 DEF Shape
    <3>5. QED
      BY <3>2, <3>3, <3>4 DEF r
  <2>5. CASE Len(s) = 1 /\ s[1].op = "exit"
    <3>1. r = <<>> /\ Shape(<<>>)
      BY <2>1, <2>5, SMT DEF Shape, Ordinary
    <3>2. \A t \in Thread : ~Creates(s, t)
      BY <2>1, <2>5, CreatesOne
    <3>3. QED
      BY <2>1, <2>3, <2>5, <3>1, <3>2 DEF r
  <2>6. ASSUME NEW t \in Thread, Creates(s, t)
        PROVE  /\ Shape(r)
               /\ Head(s).op \in {"exit", "unblock"} => r = <<>>
               /\ Head(s).op = "unblock" => Creates(s, Head(s).arg)
               /\ Head(s).op = "init_thread" => Creates(s, Head(s).arg)
               /\ Head(s).op # "unblock" =>
                    \A u \in Thread : /\ Creates(s, u) <=> Creates(r, u)
                                      /\ Creates(s, u) => r[1].op # "init_thread"
    <3>1. /\ \A u : Creates(s, u) => u = t
          /\ \A i \in 2 .. Len(s) : s[i].op # "init_thread"
          /\ s[1].op \in MiddleOp \cup {"init_thread", "unblock"}
          /\ s[1].op = "init_thread" => s[1] = I("init_thread", t)
          /\ s[1].op = "unblock" => Len(s) = 1 /\ s[1] = I("unblock", t)
      BY <2>6, CreatesOne
    <3>2. CASE s[1].op = "unblock"
      <4>1. r = <<>> /\ s[1].arg = t
        BY <2>1, <3>1, <3>2, InstrIs, SMT
      <4>2. Shape(<<>>)
        BY SMT DEF Shape, Ordinary
      <4>3. QED
        BY <2>1, <2>6, <3>2, <4>1, <4>2
    <3>3. CASE s[1].op # "unblock"
      <4>1. Len(s) # 1
        BY <2>6, <3>3, InstrIs, SMT DEF Creates
      <4>2. Len(r) >= 1 /\ r # <<>> /\ r[Len(r)] = s[Len(s)] /\ r[1] = s[2]
        BY <2>1, <4>1, SMT
      <4>3. Creates(r, t)
        <5>1. r[Len(r)] = I("unblock", t)
          BY <2>6, <4>2 DEF Creates
        <5>2. ASSUME NEW i \in 1 .. Len(r) - 1 PROVE r[i].op \in MiddleOp
          <6>1. i + 1 \in 1 .. Len(s) - 1 /\ i + 1 # 1
            BY <2>1, SMT
          <6>3. r[i] = s[i + 1]
            BY <2>1, SMT
          <6>2. QED
            BY <2>6, <6>1, <6>3 DEF Creates
        <5>3. QED
          BY <4>2, <5>1, <5>2 DEF Creates
      <4>4. \A u : Creates(r, u) => u = t
        BY <2>1, <4>3, CreatesOne
      <4>5. r[1].op # "init_thread"
        BY <2>1, <3>1, <4>1, <4>2, SMT
      <4>6. Shape(r)
        BY <2>2, <4>3 DEF Shape
      <4>7. s[1].op = "init_thread" => s[1].arg = t
        BY <3>1, InstrIs, SMT
      <4>8. s[1].op # "exit"
        BY <3>1 DEF MiddleOp
      <4>9. QED
        BY <2>1, <2>6, <3>1, <3>3, <4>3, <4>4, <4>5, <4>6, <4>7, <4>8
    <3>4. QED
      BY <3>2, <3>3
  <2>7. QED
    BY <2>4, <2>5, <2>6 DEF Shape, r
\* sema_down that blocks: the test is made again.
<1>RetestShape. ASSUME NEW s \in Seq(Ins), s # <<>>, Shape(s), NEW x,
                       Head(s).op \in {"down", "retest"}, x.op = "retest"
                PROVE  LET r == <<x>> \o Tail(s)
                       IN  /\ Shape(r)
                           /\ \A t \in Thread : Creates(s, t) <=> Creates(r, t)
                           /\ s[1].op # "init_thread" /\ r[1].op # "init_thread"
  <2> USE <1>RetestShape
  <2> DEFINE r == <<x>> \o Tail(s)
  <2>1. /\ Len(s) \in Nat /\ Len(s) >= 1 /\ Len(r) = Len(s) /\ r # <<>>
        /\ r[1] = x /\ Head(s) = s[1]
        /\ \A i \in 1 .. Len(s) : i = 1 \/ r[i] = s[i]
    BY HeadTail, EmptyList, Join, SMT
  <2> HIDE DEF r
  <2>2. s[1].op \in {"down", "retest"} /\ r[1].op = "retest"
    BY <2>1
  <2>3. \A i \in 2 .. Len(r) : r[i].op # "retest"
    BY <2>1, SMT DEF Shape
  <2>4. Ordinary(s) => Ordinary(r)
    BY <2>1, <2>2 DEF Ordinary
  <2>5. ASSUME NEW t \in Thread PROVE Creates(s, t) <=> Creates(r, t)
    <3>1. \A i \in 1 .. Len(s) - 1 : i # 1 => r[i] = s[i]
      BY <2>1, SMT
    <3>2. CASE Len(s) = 1
      <4>1. s[1] # I("unblock", t) /\ r[1] # I("unblock", t)
        BY <2>2, InstrIs, SMT
      <4>2. QED
        BY <2>1, <3>2, <4>1 DEF Creates
    <3>3. CASE Len(s) > 1
      <4>1. r[Len(s)] = s[Len(s)]
        BY <2>1, <3>3, SMT
      <4>2. s[1].op \in MiddleOp /\ r[1].op \in MiddleOp
        BY <2>2 DEF MiddleOp
      <4>3. (\A i \in 1 .. Len(s) - 1 : \/ s[i].op \in MiddleOp
                                        \/ i = 1 /\ s[i] = I("init_thread", t))
            <=> (\A i \in 1 .. Len(s) - 1 : \/ r[i].op \in MiddleOp
                                            \/ i = 1 /\ r[i] = I("init_thread", t))
        BY <3>1, <4>2
      <4>4. QED
        BY <2>1, <4>1, <4>3 DEF Creates
    <3>4. QED
      BY <2>1, <3>2, <3>3, SMT
  <2>6. Shape(r)
    BY <2>1, <2>2, <2>3, <2>4, <2>5 DEF Shape
  <2>7. QED
    BY <2>2, <2>5, <2>6 DEF r
\* Code at one of these instructions is ordinary.
<1>OrdinaryHead. ASSUME NEW s \in Seq(Ins), s # <<>>, Shape(s),
                        Head(s).op \notin MiddleOp \cup {"init_thread", "unblock", "exit"}
                 PROVE  Ordinary(s) /\ \A t \in Thread : ~Creates(s, t)
  <2> USE <1>OrdinaryHead
  <2>1. \A t \in Thread : ~Creates(s, t)
    BY Ends, CreatesOne
  <2>2. QED
    BY <2>1, Ends DEF Shape
\* An instruction put in front of ordinary code.
<1>PrependShape.
      ASSUME NEW s \in Seq(Ins), Ordinary(s), \A i \in 1 .. Len(s) : s[i].op # "retest",
             NEW x \in Ins, x.op \in {"up", "signal"}
      PROVE  Shape(<<x>> \o s) /\ \A t \in Thread : ~Creates(<<x>> \o s, t)
  <2> USE <1>PrependShape
  <2> DEFINE r == <<x>> \o s
  <2>1. /\ r \in Seq(Ins) /\ Len(s) \in Nat /\ Len(r) = Len(s) + 1 /\ r[1] = x
        /\ \A i \in 1 .. Len(r) : i = 1 \/ (i - 1 \in 1 .. Len(s) /\ r[i] = s[i - 1])
    BY Join, SMT
  <2> HIDE DEF r
  <2>2. Ordinary(r)
    BY <2>1 DEF Ordinary
  <2>3. ASSUME NEW i \in 2 .. Len(r) PROVE r[i].op # "retest"
    <3>1. i - 1 \in 1 .. Len(s) /\ r[i] = s[i - 1]
      BY <2>1, SMT
    <3>2. QED
      BY <3>1
  <2>4. \A t \in Thread : ~Creates(r, t)
    BY <2>1, <2>2, CreatesOne
  <2>5. QED
    BY <2>2, <2>3, <2>4 DEF Shape, r
\* schedule, after the running thread has left its state.
<1>ScheduleQueued.
      ASSUME IInv, Queued, IdleCode, Creation, NEW new \in {"BLOCKED", "READY", "DYING"},
             NEW ready \in Seq(Thread), Distinct(ready),
             Schedule([status EXCEPT ![current] = new], ready),
             Elems(ready) = Elems(ready_list)
                              \cup (IF new = "READY" /\ current # idle_thread
                                    THEN {current} ELSE {}),
             ready = <<>> => idle_thread = Idle
      PROVE  /\ Queued' /\ Frame({})
             /\ current' # current /\ new # "DYING" => status'[current] = new
             /\ current' # current /\ new = "DYING" => status'[current] \in {"DYING", "FREE"}
             /\ current' = current => current = Idle \/ new = "READY"
             /\ current' = current => status'[current] = "RUNNING"
             /\ idle_thread' = idle_thread
  <2> USE <1>ScheduleQueued
  <2> DEFINE st == [status EXCEPT ![current] = new]
             next == NextThreadToRun(ready)
  <2>0. /\ status \in [Thread -> Status] /\ current \in Thread
        /\ idle_thread \in {NULL, Idle} /\ ready_list \in Seq(Thread)
    BY DEF IInv, TypeOK
  <2>1. /\ st \in [Thread -> Status] /\ st[current] = new
        /\ \A t \in Thread : t # current => st[t] = status[t]
    BY <2>0 DEF Status
  <2>2. /\ current' = next /\ idle_thread' = idle_thread
        /\ ready_list' = IF ready = <<>> THEN ready ELSE Tail(ready)
        /\ status' = ThreadScheduleTail(st, next)
    BY DEF Schedule
  <2>3. \A t \in Thread : st[t] # "RUNNING"
    BY <2>1 DEF Queued
  <2>4. \A t \in Thread : t \in Elems(ready) <=> st[t] = "READY" /\ t # idle_thread
    <3>1. ASSUME NEW t \in Thread, t # current
          PROVE  t \in Elems(ready) <=> st[t] = "READY" /\ t # idle_thread
      BY <2>1, <3>1 DEF Queued
    <3>2. current \in Elems(ready) <=> st[current] = "READY" /\ current # idle_thread
      BY <2>0, <2>1 DEF Queued
    <3>3. QED
      BY <3>1, <3>2
  <2> HIDE DEF st
  <2>5. /\ next \in Thread
        /\ ready # <<>> => next = Head(ready) /\ next \in Elems(ready)
        /\ ready = <<>> => next = Idle /\ idle_thread = Idle
    <3>1. ready # <<>> => Head(ready) \in Thread /\ Head(ready) \in Elems(ready)
      BY DistinctTail, SMT
    <3>2. QED
      BY <3>1, ThreadAssumption DEF NextThreadToRun
  <2> HIDE DEF next
  <2>6. /\ status'[next] = "RUNNING"
        /\ \A t \in Thread : t # next =>
             status'[t] = IF t = current /\ st[t] = "DYING" /\ t # Main THEN "FREE"
                          ELSE st[t]
    BY <2>2, <2>5 DEF ThreadScheduleTail
  <2>7. \A t \in Thread : status'[t] = "RUNNING" <=> t = current'
    BY <2>2, <2>3, <2>6
  <2>8. /\ Distinct(ready_list')
        /\ \A t \in Thread : t \in Elems(ready_list') <=> t \in Elems(ready) /\ t # next
    <3>1. CASE ready = <<>>
      <4>1. ready_list' = ready /\ Elems(ready) = {}
        BY <2>2, <3>1, SMT DEF Elems
      <4>2. QED
        BY <4>1
    <3>2. CASE ready # <<>>
      BY <2>2, <2>5, <3>2, DistinctTail, SMT
    <3>3. QED
      BY <3>1, <3>2
  <2>9. \A t \in Thread : t \in Elems(ready_list') <=>
                            status'[t] = "READY" /\ t # idle_thread'
    <3>1. ASSUME NEW t \in Thread, t # next
          PROVE  status'[t] = "READY" <=> st[t] = "READY"
      BY <2>6, <3>1
    <3>2. QED
      BY <2>2, <2>4, <2>6, <2>8, <3>1
  <2>10. Queued'
    BY <2>7, <2>8, <2>9 DEF Queued
  <2>11. next = Idle \/ st[next] = "READY"
    BY <2>4, <2>5
  <2>12. status[Idle] # "FREE"
    BY ThreadAssumption, SMT DEF Creation, IdleCode, IdleBody
  <2>13. Frame({})
    <3>1. ASSUME NEW t \in Thread \ {current}
          PROVE  /\ status'[t] = "FREE" <=> status[t] = "FREE"
                 /\ status'[t] = "BLOCKED" => status[t] = "BLOCKED"
                 /\ status[t] = "BLOCKED" /\ t # Idle => status'[t] = "BLOCKED"
      <4>1. st[t] = status[t]
        BY <2>1
      <4>2. CASE t = next
        BY <2>6, <2>11, <2>12, <4>1, <4>2
      <4>3. CASE t # next
        BY <2>6, <4>1, <4>3
      <4>4. QED
        BY <4>2, <4>3
    <3>2. QED
      BY <3>1 DEF Frame
  <2>14. current' = current => current = Idle \/ new = "READY"
    BY <2>1, <2>2, <2>11
  <2>15. current' = current => status'[current] = "RUNNING"
    BY <2>2, <2>6
  <2>16. /\ current' # current /\ new # "DYING" => status'[current] = new
         /\ current' # current /\ new = "DYING" => status'[current] \in {"DYING", "FREE"}
    BY <2>0, <2>1, <2>2, <2>6
  <2>17. QED
    BY <2>2, <2>10, <2>13, <2>14, <2>15, <2>16
\* thread_block.
<1>BlockQueued. ASSUME IInv, Queued, IdleCode, Creation, ThreadBlock, ~At(current, "set_idle")
                PROVE  /\ Queued' /\ Frame({}) /\ idle_thread' = idle_thread
                       /\ current # Idle => status'[current] = "BLOCKED"
                       /\ status'[current] # "FREE"
  <2> USE <1>BlockQueued
  <2>1. ready_list \in Seq(Thread) /\ idle_thread \in {NULL, Idle} /\ Distinct(ready_list)
    BY DEF IInv, TypeOK, Queued
  <2>2. ready_list = <<>> => idle_thread = Idle
    BY <2>1, NotIdle, SMT DEF IInv, Elems
  <2>3. Schedule([status EXCEPT ![current] = "BLOCKED"], ready_list)
    BY DEF ThreadBlock
  <2>4. QED
    BY <2>1, <2>2, <2>3, <1>ScheduleQueued
\* The end of thread_exit.
<1>ExitQueued. ASSUME IInv, Queued, IdleCode, Creation, ThreadExit, ~At(current, "set_idle")
               PROVE  /\ Queued' /\ Frame({}) /\ idle_thread' = idle_thread
                      /\ status'[current] # "BLOCKED"
  <2> USE <1>ExitQueued
  <2>1. ready_list \in Seq(Thread) /\ idle_thread \in {NULL, Idle} /\ Distinct(ready_list)
    BY DEF IInv, TypeOK, Queued
  <2>2. ready_list = <<>> => idle_thread = Idle
    BY <2>1, NotIdle, SMT DEF IInv, Elems
  <2>3. Schedule([status EXCEPT ![current] = "DYING"], ready_list)
    BY DEF ThreadExit
  <2>4. QED
    BY <2>1, <2>2, <2>3, <1>ScheduleQueued
\* thread_yield.
<1>YieldQueued. ASSUME IInv, Queued, IdleCode, Creation, ThreadYield
                PROVE  /\ Queued' /\ Frame({}) /\ idle_thread' = idle_thread
                       /\ status'[current] \notin {"BLOCKED", "FREE"}
  <2> USE <1>YieldQueued
  <2> DEFINE ready == IF current = idle_thread THEN ready_list
                      ELSE Append(ready_list, current)
  <2>1. /\ ready_list \in Seq(Thread) /\ idle_thread \in {NULL, Idle}
        /\ Distinct(ready_list) /\ current \in Thread
    BY DEF IInv, TypeOK, Queued
  <2>2. current \notin Elems(ready_list)
    BY <2>1 DEF Queued
  <2>3. /\ ready \in Seq(Thread) /\ Distinct(ready)
        /\ Elems(ready) = Elems(ready_list)
                            \cup (IF "READY" = "READY" /\ current # idle_thread
                                  THEN {current} ELSE {})
    <3>1. CASE current = idle_thread
      BY <2>1, <3>1
    <3>2. CASE current # idle_thread
      BY <2>1, <2>2, <3>2, DistinctAppend, ElemsAppend, SMT
    <3>3. QED
      BY <3>1, <3>2
  <2>4. ready = <<>> => idle_thread = Idle
    BY <2>1, ThreadAssumption, SMT
  <2>5. Schedule([status EXCEPT ![current] = "READY"], ready)
    BY DEF ThreadYield
  <2> HIDE DEF ready
  <2>6. QED
    BY <2>3, <2>4, <2>5, <1>ScheduleQueued
\* The timer interrupt.
<1>TickQueued. ASSUME IInv, Queued, IdleCode, Creation, ThreadTick
               PROVE  /\ Queued' /\ Frame({}) /\ idle_thread' = idle_thread
                      /\ status'[current] \notin {"BLOCKED", "FREE"}
  <2> USE <1>TickQueued
  <2>1. CASE ThreadYield
    BY <2>1, <1>YieldQueued
  <2>2. CASE UNCHANGED <<status, ready_list, current, idle_thread>>
    <3>1. Queued'
      BY <2>2 DEF Queued
    <3>2. Frame({})
      BY <2>2 DEF Frame
    <3>3. status[current] = "RUNNING"
      BY DEF Queued, IInv, TypeOK
    <3>4. QED
      BY <2>2, <3>1, <3>2, <3>3
  <2>3. QED
    BY <2>1, <2>2 DEF ThreadTick
\* thread_unblock.
<1>UnblockQueued. ASSUME IInv, Queued, NEW t \in Thread, status[t] = "BLOCKED", t # Idle,
                         ThreadUnblock(t)
                  PROVE  /\ Queued' /\ Frame({t}) /\ idle_thread' = idle_thread
                         /\ status'[t] = "READY" /\ status'[current] = "RUNNING"
                         /\ current' = current
  <2> USE <1>UnblockQueued
  <2>1. /\ ready_list \in Seq(Thread) /\ idle_thread \in {NULL, Idle}
        /\ current \in Thread /\ status \in [Thread -> Status]
    BY DEF IInv, TypeOK
  <2>2. t # current /\ t # idle_thread /\ t \notin Elems(ready_list)
    BY <2>1, ThreadAssumption DEF Queued
  <2>3. /\ ready_list' = Append(ready_list, t)
        /\ current' = current /\ idle_thread' = idle_thread
        /\ status'[t] = "READY"
        /\ \A u \in Thread : u # t => status'[u] = status[u]
    BY <2>1 DEF ThreadUnblock
  <2>4. /\ Distinct(ready_list')
        /\ Elems(ready_list') = Elems(ready_list) \cup {t}
    BY <2>1, <2>2, <2>3, DistinctAppend, ElemsAppend, SMT DEF Queued
  <2>5. Queued'
    <3>1. \A u \in Thread : status'[u] = "RUNNING" <=> u = current'
      BY <2>2, <2>3 DEF Queued
    <3>2. \A u \in Thread : u \in Elems(ready_list') <=>
                              status'[u] = "READY" /\ u # idle_thread'
      BY <2>2, <2>3, <2>4 DEF Queued
    <3>3. QED
      BY <2>4, <3>1, <3>2 DEF Queued
  <2>6. Frame({t})
    BY <2>3 DEF Frame
  <2>7. QED
    BY <2>1, <2>2, <2>3, <2>5, <2>6 DEF Queued
\* idle() is on no list, and in nobody's hands.
<1>IdleApart. ASSUME Listed, IdleCode, Creation
              PROVE  /\ \A s \in Sema : Idle \notin Elems(waiters[s])
                     /\ \A u \in Thread : ~Creates(code[u], Idle)
                     /\ status[Idle] # "FREE"
  <2> USE <1>IdleApart
  <2>1. code[Idle] # <<>>
    BY SMT DEF IdleCode, IdleBody
  <2>2. Head(code[Idle]).op # "retest"
    BY InstrIs, SMT DEF IdleCode, IdleBody
  <2>3. \A s \in Sema : Idle \notin Elems(waiters[s])
    BY <2>2, InstrIs, SMT DEF Listed, Sleeps
  <2>4. status[Idle] # "FREE"
    BY <2>1, ThreadAssumption DEF Creation
  <2>5. \A u \in Thread : ~Creates(code[u], Idle)
    BY <2>1, <2>4, ThreadAssumption DEF Creation
  <2>6. QED
    BY <2>3, <2>4, <2>5
\* The wait lists, when they do not change.
<1>ListedKept. ASSUME TypeOK, Queued, IdleCode, Creation, Listed, NEW rest, Continue(rest),
                      NEW X, Frame(X), waiters' = waiters,
                      \A s \in Sema : \A x \in X : x \notin Elems(waiters[s])
               PROVE  Listed'
  <2> USE <1>ListedKept
  <2>1. \A t \in Thread : t # current => code'[t] = code[t]
    BY NewCode
  <2>2. ASSUME NEW s \in Sema, NEW t \in Elems(waiters[s]) PROVE Sleeps(t, s)'
    <3>1. t \in Thread
      BY SMT DEF TypeOK, Elems
    <3>2. Sleeps(t, s)
      BY DEF Listed
    <3>3. t # current
      BY <3>1, <3>2 DEF Queued, Sleeps
    <3>4. t # Idle /\ t \notin X
      BY <1>IdleApart
    <3>5. status'[t] = "BLOCKED"
      BY <3>1, <3>2, <3>3, <3>4 DEF Frame, Sleeps
    <3>6. QED
      BY <2>1, <3>1, <3>2, <3>3, <3>5 DEF Sleeps
  <2>3. QED
    BY <2>2 DEF Listed
\* The shapes of code.
<1>ShapesKept. ASSUME TypeOK, Shapes, IdleCode, NEW rest, Continue(rest), Shape(rest),
                      current = Idle => rest \in IdleCodes
               PROVE  Shapes' /\ IdleCode'
  <2> USE <1>ShapesKept
  <2>1. /\ code'[current] = rest
        /\ \A t \in Thread : t # current => code'[t] = code[t]
    BY NewCode
  <2>2. Shapes'
    BY <2>1 DEF Shapes
  <2>3. IdleCode'
    BY <2>1, ThreadAssumption DEF IdleCode, IdleCodes
  <2>4. QED
    BY <2>2, <2>3
\* Pages in the hands of creators.
<1>CreationKept. ASSUME TypeOK, Queued, Listed, IdleCode, Creation, NEW rest, Continue(rest),
                        NEW X, Frame(X), current \notin X,
                        status'[current] = "FREE" => rest = <<>>,
                        \A x \in X : /\ \A u \in Thread : Creates(code[u], x) => u = current
                                     /\ status'[x] = "FREE" => code[x] = <<>>,
                        \A t \in Thread : Creates(rest, t) =>
                          /\ t # current
                          /\ IF rest[1].op = "init_thread" THEN status'[t] = "FREE"
                             ELSE status'[t] = "BLOCKED" /\ code[t] = <<>>
                          /\ \A v \in Thread : Creates(code[v], t) => v = current
                 PROVE  Creation'
  <2> USE <1>CreationKept
  <2>1. /\ code'[current] = rest
        /\ \A t \in Thread : t # current => code'[t] = code[t]
    BY NewCode
  <2>2. ASSUME NEW t \in Thread, status'[t] = "FREE" PROVE code'[t] = <<>>
    <3>1. CASE t = current
      BY <2>1, <2>2, <3>1
    <3>2. CASE t # current /\ t \in X
      BY <2>1, <2>2, <3>2
    <3>3. CASE t # current /\ t \notin X
      <4>1. status[t] = "FREE"
        BY <2>2, <3>3 DEF Frame
      <4>2. QED
        BY <2>1, <3>3, <4>1 DEF Creation
    <3>4. QED
      BY <3>1, <3>2, <3>3
  <2>3. ASSUME NEW u \in Thread, NEW t \in Thread, u # current, Creates(code[u], t)
        PROVE  /\ IF code[u][1].op = "init_thread" THEN status'[t] = "FREE"
                  ELSE status'[t] = "BLOCKED" /\ code'[t] = <<>>
               /\ \A v \in Thread : Creates(code[v], t) => u = v
               /\ ~Creates(rest, t)
    <3>1. /\ IF code[u][1].op = "init_thread" THEN status[t] = "FREE"
             ELSE status[t] = "BLOCKED" /\ code[t] = <<>>
          /\ \A v \in Thread : Creates(code[v], t) => u = v
      BY <2>3 DEF Creation
    <3>2. t # current
      BY <3>1 DEF Queued
    <3>3. t # Idle
      BY <2>3, <1>IdleApart
    <3>4. t \notin X
      BY <2>3
    <3>5. /\ status[t] = "FREE" => status'[t] = "FREE"
          /\ status[t] = "BLOCKED" => status'[t] = "BLOCKED"
      BY <3>2, <3>3, <3>4 DEF Frame
    <3>6. QED
      BY <2>1, <2>3, <3>1, <3>2, <3>5
  <2>4. ASSUME NEW u \in Thread, NEW t \in Thread, Creates(code'[u], t)
        PROVE  /\ IF code'[u][1].op = "init_thread" THEN status'[t] = "FREE"
                  ELSE status'[t] = "BLOCKED" /\ code'[t] = <<>>
               /\ \A v \in Thread : Creates(code'[v], t) => u = v
    <3>1. CASE u = current
      BY <2>1, <2>4, <3>1
    <3>2. CASE u # current
      BY <2>1, <2>3, <2>4, <3>2
    <3>3. QED
      BY <3>1, <3>2
  <2>5. QED
    BY <2>2, <2>4 DEF Creation
\* Blocked threads stay within reach.
<1>ReachableKept.
      ASSUME TypeOK, Reachable, NEW rest, Continue(rest), NEW X, Frame(X),
             \A s \in Sema : \A t \in Elems(waiters[s]) :
               t \in Elems(waiters'[s]) \/ t \in X,
             idle_thread = NULL \/ idle_thread' = idle_thread,
             status'[current] = "BLOCKED" =>
               \/ current = idle_thread'
               \/ \E s \in Sema : current \in Elems(waiters'[s]),
             \A x \in X : status'[x] = "BLOCKED" => code[x] = <<>>
      PROVE  Reachable'
  <2> USE <1>ReachableKept
  <2>1. /\ code'[current] = rest
        /\ \A t \in Thread : t # current => code'[t] = code[t]
    BY NewCode
  <2>2. current \in Thread
    BY DEF TypeOK
  <2>3. ASSUME NEW t \in Thread, status'[t] = "BLOCKED", t # current, t \notin X
        PROVE  \/ \E s \in Sema : t \in Elems(waiters'[s])
               \/ t = idle_thread'
               \/ code'[t] = <<>>
    <3>1. status[t] = "BLOCKED"
      BY <2>3 DEF Frame
    <3>2. CASE \E s \in Sema : t \in Elems(waiters[s])
      BY <2>3, <3>2
    <3>3. CASE t = idle_thread
      BY <3>3, ThreadAssumption
    <3>4. CASE code[t] = <<>>
      BY <2>1, <2>3, <3>4
    <3>5. QED
      BY <3>1, <3>2, <3>3, <3>4 DEF Reachable
  <2>4. ASSUME NEW t \in Thread, status'[t] = "BLOCKED", t = current
        PROVE  \/ \E s \in Sema : t \in Elems(waiters'[s])
               \/ t = idle_thread'
               \/ code'[t] = <<>>
    BY <2>4
  <2>5. ASSUME NEW t \in Thread, status'[t] = "BLOCKED", t \in X, t # current
        PROVE  \/ \E s \in Sema : t \in Elems(waiters'[s])
               \/ t = idle_thread'
               \/ code'[t] = <<>>
    BY <2>1, <2>2, <2>5
  <2>6. QED
    BY <2>3, <2>4, <2>5 DEF Reachable
\* The running thread goes on without starting to create a thread; the threads
\* in X are made ready.
<1>GoesOn. ASSUME IInv, Waiting, NEW rest, Continue(rest), Shape(rest),
                  current = Idle => rest \in IdleCodes,
                  \A t \in Thread :
                    /\ Creates(rest, t) => Creates(code[current], t)
                    /\ Creates(rest, t) => (rest[1].op = "init_thread"
                                              <=> code[current][1].op = "init_thread"),
                  NEW X, Frame(X), Queued', Listed', current \notin X,
                  \A x \in X : /\ \A u \in Thread : ~Creates(code[u], x)
                               /\ status'[x] \notin {"FREE", "BLOCKED"},
                  \A s \in Sema : \A t \in Elems(waiters[s]) :
                    t \in Elems(waiters'[s]) \/ t \in X,
                  idle_thread = NULL \/ idle_thread' = idle_thread,
                  status'[current] = "FREE" => rest = <<>>,
                  status'[current] = "BLOCKED" =>
                    \/ current = idle_thread'
                    \/ \E s \in Sema : current \in Elems(waiters'[s])
           PROVE  Waiting'
  <2> USE <1>GoesOn
  <2>1. /\ TypeOK /\ Queued /\ Listed /\ IdleCode /\ Shapes /\ Creation /\ Reachable
        /\ current \in Thread
    BY DEF IInv, TypeOK, Waiting
  <2>2. Shapes' /\ IdleCode'
    BY <2>1, <1>ShapesKept
  <2>3. Reachable'
    <3>1. \A x \in X : status'[x] = "BLOCKED" => code[x] = <<>>
      OBVIOUS
    <3>2. QED
      BY <2>1, <3>1, <1>ReachableKept
  <2>4. Creation'
    <3>1. ASSUME NEW t \in Thread, Creates(rest, t)
          PROVE  /\ t # current
                 /\ IF rest[1].op = "init_thread" THEN status'[t] = "FREE"
                    ELSE status'[t] = "BLOCKED" /\ code[t] = <<>>
                 /\ \A v \in Thread : Creates(code[v], t) => v = current
      <4>1. Creates(code[current], t)
        BY <3>1
      <4>2. /\ IF code[current][1].op = "init_thread" THEN status[t] = "FREE"
               ELSE status[t] = "BLOCKED" /\ code[t] = <<>>
            /\ \A v \in Thread : Creates(code[v], t) => current = v
        BY <2>1, <4>1 DEF Creation
      <4>3. t # current
        BY <2>1, <4>2 DEF Queued
      <4>4. t # Idle
        BY <2>1, <4>1, <1>IdleApart
      <4>5. t \notin X
        BY <2>1, <4>1
      <4>6. /\ status[t] = "FREE" => status'[t] = "FREE"
            /\ status[t] = "BLOCKED" => status'[t] = "BLOCKED"
        BY <4>3, <4>4, <4>5 DEF Frame
      <4>7. QED
        BY <3>1, <4>2, <4>3, <4>6
    <3>2. \A x \in X : /\ \A u \in Thread : Creates(code[u], x) => u = current
                       /\ status'[x] = "FREE" => code[x] = <<>>
      OBVIOUS
    <3>3. QED
      BY <2>1, <3>1, <3>2, <1>CreationKept
  <2>5. QED
    BY <2>2, <2>3, <2>4 DEF Waiting
\* The same when no wait list changes.
<1>GoesOnUnlisted. ASSUME IInv, Waiting, NEW rest, Continue(rest), Shape(rest),
                          current = Idle => rest \in IdleCodes,
                          \A t \in Thread :
                            /\ Creates(rest, t) => Creates(code[current], t)
                            /\ Creates(rest, t) => (rest[1].op = "init_thread"
                                                      <=> code[current][1].op = "init_thread"),
                          Frame({}), Queued', waiters' = waiters,
                          idle_thread = NULL \/ idle_thread' = idle_thread,
                          status'[current] = "FREE" => rest = <<>>,
                          status'[current] = "BLOCKED" => current = idle_thread'
                   PROVE  Waiting'
  <2> USE <1>GoesOnUnlisted
  <2>1. /\ TypeOK /\ Queued /\ Listed /\ IdleCode /\ Creation
    BY DEF IInv, Waiting
  <2>2. Listed'
    <3>1. \A s \in Sema : \A x \in {} : x \notin Elems(waiters[s])
      OBVIOUS
    <3>2. QED
      BY <2>1, <3>1, <1>ListedKept
  <2>3. /\ current \notin {}
        /\ \A x \in {} : /\ \A u \in Thread : ~Creates(code[u], x)
                         /\ status'[x] \notin {"FREE", "BLOCKED"}
        /\ \A s \in Sema : \A t \in Elems(waiters[s]) :
             t \in Elems(waiters'[s]) \/ t \in {}
        /\ status'[current] = "BLOCKED" =>
             \/ current = idle_thread'
             \/ \E s \in Sema : current \in Elems(waiters'[s])
    OBVIOUS
  <2>4. QED
    BY <2>2, <2>3, <1>GoesOn
\* The threads' states do not change.
<1>SameThreads. ASSUME TypeOK, Queued, UNCHANGED <<status, ready_list, current, idle_thread>>
                PROVE  /\ Queued' /\ Frame({}) /\ idle_thread' = idle_thread
                       /\ status'[current] \notin {"FREE", "BLOCKED"}
  <2> USE <1>SameThreads
  <2>1. Queued'
    BY DEF Queued
  <2>2. Frame({})
    BY DEF Frame
  <2>3. status[current] = "RUNNING"
    BY DEF Queued, TypeOK
  <2>4. QED
    BY <2>1, <2>2, <2>3
\* The code of idle() after each instruction.
<1>IdleTail. ASSUME IdleCode, current = Idle, code[current] # <<>>,
                    Head(code[current]).op # "block"
             PROVE  Tail(code[current]) \in IdleCodes
  <2> USE <1>IdleTail
  <2>1. CASE code[Idle] = IdleBody
    BY <2>1, SMT DEF IdleBody, IdleCodes
  <2>2. CASE code[Idle] = <<I("up", idle_started), I("block", Idle)>>
    BY <2>2, SMT DEF IdleCodes
  <2>3. CASE code[Idle] = <<I("block", Idle)>>
    BY <2>3, InstrIs, SMT
  <2>4. QED
    BY <2>1, <2>2, <2>3 DEF IdleCode
\* An instruction is done that neither creates a thread nor touches a wait list.
<1>DoneKeeps. ASSUME IInv, Waiting, code[current] # <<>>, Done,
                     Head(code[current]).op \notin {"init_thread", "unblock", "block"},
                     Frame({}), Queued', waiters' = waiters,
                     idle_thread = NULL \/ idle_thread' = idle_thread,
                     status'[current] = "FREE" => Head(code[current]).op = "exit",
                     status'[current] # "BLOCKED"
              PROVE  Waiting'
  <2> USE <1>DoneKeeps
  <2> DEFINE s == code[current]
             rest == Tail(code[current])
  <2>1. s \in Seq(Ins) /\ s # <<>> /\ Shape(s) /\ Head(s) = s[1]
    BY Running, Ends
  <2>2. /\ Shape(rest)
        /\ Head(s).op \in {"exit", "unblock"} => rest = <<>>
        /\ \A t \in Thread : /\ Creates(s, t) <=> Creates(rest, t)
                             /\ Creates(s, t) => rest[1].op # "init_thread"
    BY <2>1, <1>TailShape
  <2>3. Continue(rest)
    BY DEF Done
  <2>4. current = Idle => rest \in IdleCodes
    BY <1>IdleTail DEF Waiting
  <2>5. s[1].op # "init_thread"
    BY <2>1
  <2>6. status'[current] = "FREE" => rest = <<>>
    BY <2>2
  <2>7. \A t \in Thread :
          /\ Creates(rest, t) => Creates(code[current], t)
          /\ Creates(rest, t) => (rest[1].op = "init_thread"
                                    <=> code[current][1].op = "init_thread")
    BY <2>2, <2>5
  <2>8. Shape(rest)
    BY <2>2
  <2> HIDE DEF rest, s
  <2>9. QED
    BY <2>3, <2>4, <2>6, <2>7, <2>8, <1>GoesOnUnlisted
\* An instruction is done that leaves the scheduler alone.
<1>QuietKeeps. ASSUME IInv, Waiting, code[current] # <<>>, Done,
                      Head(code[current]).op \notin {"init_thread", "unblock", "block"},
                      UNCHANGED schedVars, waiters' = waiters
               PROVE  Waiting'
  <2> USE <1>QuietKeeps
  <2>1. /\ Queued' /\ Frame({}) /\ idle_thread' = idle_thread
        /\ status'[current] \notin {"FREE", "BLOCKED"}
    BY <1>SameThreads DEF IInv, Waiting, schedVars
  <2>2. QED
    BY <2>1, <1>DoneKeeps
\* The code of ordinary calls changes.
<1>OrdinaryKeeps. ASSUME IInv, Waiting, NEW rest, Continue(rest), Shape(rest),
                         current # Idle,
                         \A t \in Thread : ~Creates(rest, t) /\ ~Creates(code[current], t),
                         UNCHANGED schedVars, waiters' = waiters
                  PROVE  Waiting'
  <2> USE <1>OrdinaryKeeps
  <2>1. /\ Queued' /\ Frame({}) /\ idle_thread' = idle_thread
        /\ status'[current] \notin {"FREE", "BLOCKED"}
    BY <1>SameThreads DEF IInv, Waiting, schedVars
  <2>2. \A t \in Thread :
          /\ Creates(rest, t) => Creates(code[current], t)
          /\ Creates(rest, t) => (rest[1].op = "init_thread"
                                    <=> code[current][1].op = "init_thread")
    OBVIOUS
  <2>3. QED
    BY <2>1, <2>2, <1>GoesOnUnlisted
\* idle() executes only its own instructions.
<1>IdleOps. ASSUME IdleCode, current = Idle
            PROVE  /\ code[current] # <<>>
                   /\ Head(code[current]).op \in {"set_idle", "up", "block"}
                   /\ Head(code[current]).op = "up" => Head(code[current]) = I("up", idle_started)
  BY <1>IdleOps, InstrIs, SMT DEF IdleCode, IdleBody
\* A sema_down that does not block.
<1>TakeWaiting. ASSUME IInv, Waiting, SemaDownTake
                PROVE  Waiting'
  <2> USE <1>TakeWaiting
  <2>1. /\ code[current] # <<>> /\ Done
        /\ Head(code[current]).op \notin {"init_thread", "unblock", "block"}
        /\ UNCHANGED schedVars /\ waiters' = waiters
    BY DEF SemaDownTake, At
  <2>2. QED
    BY <2>1, <1>QuietKeeps
\* sema_try_down, and lock_try_acquire giving up.
<1>TryWaiting. ASSUME IInv, Waiting, SemaTryDown
               PROVE  Waiting'
  <2> USE <1>TryWaiting
  <2>1. /\ code[current] # <<>> /\ Head(code[current]).op = "try_down"
        /\ UNCHANGED schedVars /\ waiters' = waiters
    BY DEF SemaTryDown, At
  <2>2. CASE Done
    BY <2>1, <2>2, <1>QuietKeeps
  <2>3. CASE Continue(<<>>)
    <3>1. \A t \in Thread : ~Creates(code[current], t)
      BY <2>1, Running, <1>OrdinaryHead DEF MiddleOp
    <3>2. Shape(<<>>) /\ \A t \in Thread : ~Creates(<<>>, t)
      BY SMT DEF Shape, Ordinary, Creates
    <3>3. current # Idle
      BY <2>1, <1>IdleOps DEF Waiting
    <3>4. QED
      BY <2>1, <2>3, <3>1, <3>2, <3>3, <1>OrdinaryKeeps
  <2>4. QED
    BY <2>2, <2>3 DEF SemaTryDown, GiveUp
\* The instructions that only write other variables.
<1>OtherWaiting. ASSUME IInv, Waiting,
                        SetHolder \/ ClearHolder \/ CondPush \/ ReadTid \/ WriteTid
                 PROVE  Waiting'
  <2> USE <1>OtherWaiting
  <2>1. /\ code[current] # <<>> /\ Done
        /\ Head(code[current]).op \notin {"init_thread", "unblock", "block"}
        /\ UNCHANGED schedVars /\ waiters' = waiters
    BY DEF SetHolder, ClearHolder, CondPush, ReadTid, WriteTid, At
  <2>2. QED
    BY <2>1, <1>QuietKeeps
\* cond_signal and cond_broadcast.
<1>CondWaiting. ASSUME IInv, Waiting, CondSignal \/ CondBroadcast
                PROVE  Waiting'
  <2> USE <1>CondWaiting
  <2> DEFINE s == code[current]
  <2>1. /\ s # <<>> /\ Head(s).op \in {"signal", "broadcast"}
        /\ UNCHANGED schedVars /\ waiters' = waiters
    BY DEF CondSignal, CondBroadcast, At
  <2>2. /\ s \in Seq(Ins) /\ Shape(s) /\ Head(s) \in Ins /\ Head(s) = s[1]
        /\ Tail(s) \in Seq(Ins) /\ Len(s) \in Nat /\ Len(s) >= 1
        /\ Len(Tail(s)) = Len(s) - 1
        /\ \A i \in 1 .. Len(Tail(s)) : Tail(s)[i] = s[i + 1]
    BY <2>1, Running, Ends
  <2>3. Ordinary(s) /\ \A t \in Thread : ~Creates(s, t)
    BY <2>1, <2>2, <1>OrdinaryHead DEF MiddleOp
  <2>4. current # Idle
    BY <2>1, <1>IdleOps DEF Waiting
  <2>5. \A i \in 1 .. Len(s) : s[i].op # "retest"
    <3>1. \A i \in 1 .. Len(s) : i = 1 \/ i \in 2 .. Len(s)
      BY <2>2, SMT
    <3>2. QED
      BY <2>1, <2>2, <3>1 DEF Shape
  <2>6. CASE Done
    BY <2>1, <2>6, <1>QuietKeeps
  <2>7. ASSUME NEW c \in Cond, cond_waiters[c] # <<>>,
               Continue(<<I("up", Head(cond_waiters[c]))>> \o Tail(s))
        PROVE  Waiting'
    <3> DEFINE x == I("up", Head(cond_waiters[c]))
               r == Tail(s)
               rest == <<x>> \o r
    <3>1. Head(cond_waiters[c]) \in Thread
      BY <2>7, SMT DEF IInv, TypeOK
    <3>2. x \in Ins /\ x.op = "up"
      BY <3>1, InstrType, InstrIs DEF Ins, SemaOp, Sema
    <3>3. r \in Seq(Ins) /\ Ordinary(r) /\ \A i \in 1 .. Len(r) : r[i].op # "retest"
      BY <2>2, <2>3, <2>5, SMT DEF Ordinary
    <3>4. Continue(rest)
      BY <2>7
    <3> HIDE DEF x, r
    <3>5. Shape(rest) /\ \A t \in Thread : ~Creates(rest, t)
      BY <3>2, <3>3, <1>PrependShape
    <3> HIDE DEF rest
    <3>6. QED
      BY <2>1, <2>3, <2>4, <3>4, <3>5, <1>OrdinaryKeeps
  <2>8. ASSUME NEW c \in Cond, Continue(<<I("signal", c)>> \o s)
        PROVE  Waiting'
    <3> DEFINE x == I("signal", c)
               rest == <<x>> \o s
    <3>1. x \in Ins /\ x.op = "signal"
      BY InstrType, InstrIs DEF Ins, CondOp
    <3>2. Continue(rest)
      BY <2>8
    <3> HIDE DEF x
    <3>3. Shape(rest) /\ \A t \in Thread : ~Creates(rest, t)
      BY <2>2, <2>3, <2>5, <3>1, <1>PrependShape
    <3> HIDE DEF rest
    <3>4. QED
      BY <2>1, <2>3, <2>4, <3>2, <3>3, <1>OrdinaryKeeps
  <2>9. Arg \in Cond
    <3>1. Head(s) \in Instr
      BY <2>1, <2>2 DEF Ins, IdleInstr
    <3>2. QED
      BY <2>1, <3>1, ArgType DEF Arg, CondOp
  <2>10. QED
    BY <2>6, <2>7, <2>8, <2>9 DEF CondSignal, CondBroadcast, UpCondWaiter
\* thread_yield, thread_exit and the first step of idle().
<1>LeaveWaiting. ASSUME IInv, Waiting, Yield \/ Exit \/ SetIdle
                 PROVE  Waiting'
  <2> USE <1>LeaveWaiting
  <2>1. CASE Yield
    <3>1. /\ code[current] # <<>> /\ Head(code[current]).op = "yield" /\ Done
          /\ ThreadYield /\ waiters' = waiters
      BY <2>1 DEF Yield, At
    <3>2. /\ Queued' /\ Frame({}) /\ idle_thread' = idle_thread
          /\ status'[current] \notin {"BLOCKED", "FREE"}
      BY <3>1, <1>YieldQueued DEF Waiting
    <3>3. QED
      BY <3>1, <3>2, <1>DoneKeeps
  <2>2. CASE Exit
    <3>1. /\ code[current] # <<>> /\ Head(code[current]).op = "exit" /\ Done
          /\ ThreadExit /\ waiters' = waiters /\ ~At(current, "set_idle")
      BY <2>2 DEF Exit, At
    <3>2. /\ Queued' /\ Frame({}) /\ idle_thread' = idle_thread
          /\ status'[current] # "BLOCKED"
      BY <3>1, <1>ExitQueued DEF Waiting
    <3>3. QED
      BY <3>1, <3>2, <1>DoneKeeps
  <2>3. CASE SetIdle
    <3>1. /\ code[current] # <<>> /\ Head(code[current]).op = "set_idle" /\ Done
          /\ waiters' = waiters /\ idle_thread' = current
          /\ status' = status /\ ready_list' = ready_list /\ current' = current
      BY <2>3 DEF SetIdle, At
    <3>2. /\ TypeOK /\ Queued /\ current \in Thread /\ status[current] = "RUNNING"
          /\ idle_thread \in {NULL, Idle}
      BY Running DEF IInv, TypeOK, Waiting
    <3>3. Head(code[current]) \in Instr => FALSE
      BY <3>1 DEF Instr, SemaOp, LockOp, CondOp, ThreadOp
    <3>4. current = Idle
      <4>1. code[current] \in Seq(InstrOf(current))
        BY <3>2 DEF TypeOK
      <4>2. Head(code[current]) \in InstrOf(current)
        BY <3>1, <4>1, HeadTail
      <4>3. QED
        BY <3>3, <4>2 DEF InstrOf
    <3>5. Queued'
      <4>1. \A t \in Thread : t \in Elems(ready_list') <=>
                                status'[t] = "READY" /\ t # idle_thread'
        BY <3>1, <3>2, <3>4, ThreadAssumption DEF Queued
      <4>2. QED
        BY <3>1, <3>2, <4>1 DEF Queued
    <3>6. Frame({})
      BY <3>1 DEF Frame
    <3>7. status'[current] \notin {"FREE", "BLOCKED"}
      BY <3>1, <3>2
    <3>8. idle_thread = NULL \/ idle_thread' = idle_thread
      BY <3>1, <3>2, <3>4
    <3>9. QED
      BY <3>1, <3>5, <3>6, <3>7, <3>8, <1>DoneKeeps
  <2>4. QED
    BY <2>1, <2>2, <2>3
\* The code of no thread changes.
<1>CodeKeeps. ASSUME IInv, Waiting, code' = code, Frame({}), Queued', waiters' = waiters,
                     idle_thread' = idle_thread, status'[current] # "FREE",
                     status'[current] = "BLOCKED" => current = idle_thread'
              PROVE  Waiting'
  <2> USE <1>CodeKeeps
  <2> DEFINE rest == code[current]
  <2>1. Continue(rest)
    BY DEF Continue, IInv, TypeOK
  <2>2. Shape(rest)
    BY Running
  <2>3. current = Idle => rest \in IdleCodes
    BY DEF Waiting, IdleCode, IdleCodes
  <2>4. \A t \in Thread :
          /\ Creates(rest, t) => Creates(code[current], t)
          /\ Creates(rest, t) => (rest[1].op = "init_thread"
                                    <=> code[current][1].op = "init_thread")
    OBVIOUS
  <2> HIDE DEF rest
  <2>5. QED
    BY <2>1, <2>2, <2>3, <2>4, <1>GoesOnUnlisted
\* The idle loop and the timer interrupt.
<1>IdleTickWaiting. ASSUME IInv, Waiting, IdleBlock \/ TimerInterrupt
                    PROVE  Waiting'
  <2> USE <1>IdleTickWaiting
  <2>1. CASE IdleBlock
    <3>1. /\ code[current] # <<>> /\ Head(code[current]).op = "block"
          /\ ThreadBlock /\ waiters' = waiters /\ code' = code
          /\ ~At(current, "set_idle")
      BY <2>1 DEF IdleBlock, At, synchVars
    <3>2. /\ Queued' /\ Frame({}) /\ idle_thread' = idle_thread
          /\ current # Idle => status'[current] = "BLOCKED"
          /\ status'[current] # "FREE"
      BY <3>1, <1>BlockQueued DEF Waiting
    <3>3. current = Idle
      <4>1. code[current] \in Seq(InstrOf(current))
        BY DEF IInv, TypeOK
      <4>2. Head(code[current]) \in InstrOf(current)
        BY <3>1, <4>1, HeadTail
      <4>3. Head(code[current]) \in Instr => FALSE
        BY <3>1 DEF Instr, SemaOp, LockOp, CondOp, ThreadOp
      <4>4. QED
        BY <4>2, <4>3 DEF InstrOf
    <3>4. idle_thread = Idle
      BY <3>1, <3>3, NotIdle DEF IInv, TypeOK
    <3>5. QED
      BY <3>1, <3>2, <3>3, <3>4, <1>CodeKeeps
  <2>2. CASE TimerInterrupt
    <3>1. ThreadTick /\ waiters' = waiters /\ code' = code
      BY <2>2 DEF TimerInterrupt, synchVars
    <3>2. /\ Queued' /\ Frame({}) /\ idle_thread' = idle_thread
          /\ status'[current] \notin {"BLOCKED", "FREE"}
      BY <3>1, <1>TickQueued DEF Waiting
    <3>3. QED
      BY <3>1, <3>2, <1>CodeKeeps
  <2>3. QED
    BY <2>1, <2>2
\* A call begins; thread_create gets a page that nobody has.
<1>BeginWaiting. ASSUME IInv, Waiting, BeginCall
                 PROVE  Waiting'
  <2> USE <1>BeginWaiting
  <2>1. PICK body \in Calls : Continue(body)
    BY DEF BeginCall
  <2>2. code[current] = <<>> /\ UNCHANGED schedVars /\ waiters' = waiters
    BY DEF BeginCall
  <2>3. /\ Shape(body)
        /\ \/ \A t \in Thread : ~Creates(body, t)
           \/ \E t \in Thread : /\ Creates(body, t) /\ body[1].op = "init_thread"
                                /\ Allocatable(t)
    BY CallsShape DEF IInv
  <2>4. \A t : ~Creates(code[current], t)
    BY <2>2 DEF Creates
  <2>5. current # Idle
    BY <2>2, <1>IdleOps DEF Waiting
  <2>6. CASE \A t \in Thread : ~Creates(body, t)
    BY <2>1, <2>2, <2>3, <2>4, <2>5, <2>6, <1>OrdinaryKeeps
  <2>7. ASSUME NEW n \in Thread, Creates(body, n), body[1].op = "init_thread",
               Allocatable(n)
        PROVE  Waiting'
    <3>1. /\ TypeOK /\ Queued /\ Listed /\ IdleCode /\ Shapes /\ Creation
          /\ Reachable /\ current \in Thread /\ status[current] = "RUNNING"
      BY Running DEF IInv, Waiting
    <3>2. /\ Queued' /\ Frame({}) /\ idle_thread' = idle_thread
          /\ status'[current] \notin {"FREE", "BLOCKED"} /\ status' = status
      BY <2>2, <3>1, <1>SameThreads DEF schedVars
    <3>3. Shapes' /\ IdleCode'
      BY <2>1, <2>3, <2>5, <3>1, <1>ShapesKept
    <3>4. Listed'
      <4>1. \A s \in Sema : \A x \in {} : x \notin Elems(waiters[s])
        OBVIOUS
      <4>2. QED
        BY <2>1, <2>2, <3>1, <3>2, <4>1, <1>ListedKept
    <3>5. Reachable'
      <4>1. /\ \A s \in Sema : \A t \in Elems(waiters[s]) :
                 t \in Elems(waiters'[s]) \/ t \in {}
            /\ \A x \in {} : status'[x] = "BLOCKED" => code[x] = <<>>
        BY <2>2
      <4>2. QED
        BY <2>1, <3>1, <3>2, <4>1, <1>ReachableKept
    <3>6. \A u \in Thread : ~Creates(code[u], n)
      <4>1. ASSUME NEW u \in Thread, Creates(code[u], n) PROVE FALSE
        <5>1. code[u] \in Seq(Ins)
          BY <3>1 DEF TypeOK, Ins
        <5>2. status[n] = "FREE"
          BY <2>7 DEF Allocatable
        <5>3. code[u][1].op = "init_thread"
          BY <3>1, <4>1, <5>2 DEF Creation
        <5>4. code[u][1] = I("init_thread", n) /\ Len(code[u]) \in Nat /\ Len(code[u]) >= 1
          BY <4>1, <5>1, <5>3, CreatesOne
        <5>5. 1 \in DOMAIN code[u]
          BY <5>1, <5>4, SMT
        <5>6. QED
          BY <2>7, <5>4, <5>5 DEF Allocatable
      <4>2. QED
        BY <4>1
    <3>7. Creation'
      <4>1. \A t : Creates(body, t) => t = n
        <5>1. body \in Seq(Ins)
          BY CallsType, <3>1, SMT DEF Ins
        <5>2. QED
          BY <2>7, <5>1, CreatesOne
      <4>2. n # current /\ status'[n] = "FREE"
        BY <2>7, <3>1, <3>2 DEF Allocatable
      <4>3. \A t \in Thread : Creates(body, t) =>
              /\ t # current
              /\ IF body[1].op = "init_thread" THEN status'[t] = "FREE"
                 ELSE status'[t] = "BLOCKED" /\ code[t] = <<>>
              /\ \A v \in Thread : Creates(code[v], t) => v = current
        BY <2>7, <3>6, <4>1, <4>2
      <4>4. /\ current \notin {}
            /\ \A x \in {} : /\ \A u \in Thread : Creates(code[u], x) => u = current
                             /\ status'[x] = "FREE" => code[x] = <<>>
            /\ status'[current] = "FREE" => body = <<>>
        BY <3>2
      <4>5. QED
        BY <2>1, <3>1, <3>2, <4>3, <4>4, <1>CreationKept
    <3>8. QED
      BY <3>2, <3>3, <3>4, <3>5, <3>7 DEF Waiting
  <2>8. QED
    BY <2>3, <2>6, <2>7
\* The thread that thread_create is working on is blocked on no list.
<1>CreatedApart. ASSUME IInv, Waiting, code[current] # <<>>,
                        Head(code[current]).op \in {"init_thread", "unblock"},
                        NEW n, n = Head(code[current]).arg
                 PROVE  /\ n \in Thread /\ n # current /\ n # Idle /\ code[n] = <<>>
                        /\ Creates(code[current], n)
                        /\ \A u \in Thread : Creates(code[u], n) => u = current
                        /\ \A t \in Thread : Creates(code[current], t) => t = n
                        /\ \A s \in Sema : n \notin Elems(waiters[s])
                        /\ Head(code[current]).op = "unblock" => status[n] = "BLOCKED"
                        /\ Head(code[current]).op = "init_thread" => status[n] = "FREE"
  <2> USE <1>CreatedApart
  <2> DEFINE s == code[current]
  <2>1. /\ s \in Seq(Ins) /\ s # <<>> /\ Shape(s) /\ Head(s) = s[1] /\ s[1] \in Ins
        /\ current \in Thread /\ status[current] = "RUNNING"
    BY Running, Ends
  <2>2. n \in Thread
    BY <2>1, InstrIs
  <2>3. Creates(s, n)
    BY <2>1, <1>TailShape
  <2>4. \A t : Creates(s, t) => t = n
    BY <2>1, <2>3, CreatesOne
  <2>5. Listed /\ IdleCode /\ Creation
    BY DEF Waiting
  <2>6. /\ IF s[1].op = "init_thread" THEN status[n] = "FREE"
           ELSE status[n] = "BLOCKED" /\ code[n] = <<>>
        /\ \A v \in Thread : Creates(code[v], n) => current = v
        /\ status[n] = "FREE" => code[n] = <<>>
    BY <2>1, <2>2, <2>3, <2>5 DEF Creation
  <2>7. n # Idle
    BY <2>1, <2>3, <2>5, <1>IdleApart
  <2>8. code[n] = <<>>
    BY <2>6
  <2>9. \A r \in Sema : n \notin Elems(waiters[r])
    BY <2>5, <2>8 DEF Listed, Sleeps
  <2>10. QED
    BY <2>1, <2>2, <2>3, <2>4, <2>6, <2>7, <2>8, <2>9
\* thread_create works on the thread n.
<1>CreateKeeps. ASSUME IInv, Waiting, code[current] # <<>>, Done,
                       Head(code[current]).op \in {"init_thread", "unblock"},
                       NEW n, n = Head(code[current]).arg,
                       Frame({n}), Queued', waiters' = waiters, idle_thread' = idle_thread,
                       status'[current] \notin {"FREE", "BLOCKED"},
                       \/ status'[n] = "BLOCKED"
                       \/ Head(code[current]).op = "unblock" /\ status'[n] = "READY"
                PROVE  Waiting'
  <2> USE <1>CreateKeeps
  <2> DEFINE s == code[current]
             rest == Tail(code[current])
  <2>1. /\ n \in Thread /\ n # current /\ n # Idle /\ code[n] = <<>>
        /\ Creates(s, n)
        /\ \A u \in Thread : Creates(code[u], n) => u = current
        /\ \A t \in Thread : Creates(s, t) => t = n
        /\ \A r \in Sema : n \notin Elems(waiters[r])
    BY <1>CreatedApart
  <2>2. s \in Seq(Ins) /\ s # <<>> /\ Shape(s) /\ current \in Thread
    BY Running
  <2>3. /\ Shape(rest)
        /\ Head(s).op = "unblock" => rest = <<>>
        /\ Head(s).op # "unblock" =>
             \A t \in Thread : /\ Creates(s, t) <=> Creates(rest, t)
                               /\ Creates(s, t) => rest[1].op # "init_thread"
    BY <2>2, <1>TailShape
  <2>4. Continue(rest)
    BY DEF Done
  <2>5. /\ TypeOK /\ Queued /\ Listed /\ IdleCode /\ Shapes /\ Creation /\ Reachable
    BY DEF IInv, Waiting
  <2>6. current # Idle
    BY <2>5, <1>IdleOps
  <2>7. \A t \in Thread : ~Creates(<<>>, t)
    BY DEF Creates
  <2>8. ASSUME NEW t \in Thread, Creates(rest, t)
        PROVE  t = n /\ Head(s).op = "init_thread" /\ rest[1].op # "init_thread"
    BY <2>1, <2>3, <2>7, <2>8
  <2>9. Head(s).op = "init_thread" => Creates(rest, n)
    BY <2>1, <2>3
  <2> HIDE DEF rest
  <2>10. Shapes' /\ IdleCode'
    BY <2>3, <2>4, <2>5, <2>6, <1>ShapesKept
  <2>11. Listed'
    <3>1. \A r \in Sema : \A x \in {n} : x \notin Elems(waiters[r])
      BY <2>1
    <3>2. QED
      BY <2>4, <2>5, <3>1, <1>ListedKept
  <2>12. Reachable'
    <3>1. /\ \A r \in Sema : \A t \in Elems(waiters[r]) :
               t \in Elems(waiters'[r]) \/ t \in {n}
          /\ \A x \in {n} : status'[x] = "BLOCKED" => code[x] = <<>>
      BY <2>1
    <3>2. QED
      BY <2>4, <2>5, <3>1, <1>ReachableKept
  <2>13. Creation'
    <3>1. \A t \in Thread : Creates(rest, t) =>
            /\ t # current
            /\ IF rest[1].op = "init_thread" THEN status'[t] = "FREE"
               ELSE status'[t] = "BLOCKED" /\ code[t] = <<>>
            /\ \A v \in Thread : Creates(code[v], t) => v = current
      BY <2>1, <2>8
    <3>2. /\ current \notin {n}
          /\ \A x \in {n} : /\ \A u \in Thread : Creates(code[u], x) => u = current
                            /\ status'[x] = "FREE" => code[x] = <<>>
      BY <2>1
    <3>3. QED
      BY <2>4, <2>5, <3>1, <3>2, <1>CreationKept
  <2>14. QED
    BY <2>10, <2>11, <2>12, <2>13 DEF Waiting
\* thread_create: init_thread, and thread_unblock or the failure before it.
<1>CreateWaiting. ASSUME IInv, Waiting, InitThread \/ Unblock \/ CreateFails
                  PROVE  Waiting'
  <2> USE <1>CreateWaiting
  <2>1. PICK n : n = Arg
    OBVIOUS
  <2>2. /\ code[current] # <<>> /\ Done /\ waiters' = waiters
        /\ Head(code[current]).op \in {"init_thread", "unblock"}
        /\ n = Head(code[current]).arg
    BY <2>1 DEF InitThread, Unblock, CreateFails, At, Arg
  <2>3. /\ n \in Thread /\ n # current /\ n # Idle
        /\ Head(code[current]).op = "unblock" => status[n] = "BLOCKED"
        /\ Head(code[current]).op = "init_thread" => status[n] = "FREE"
    BY <2>2, <1>CreatedApart
  <2>4. Queued /\ current \in Thread /\ status[current] = "RUNNING"
    BY Running DEF Waiting
  <2>5. CASE InitThread
    <3>1. /\ Head(code[current]).op = "init_thread"
          /\ status' = [status EXCEPT ![n] = "BLOCKED"]
          /\ ready_list' = ready_list /\ current' = current
          /\ idle_thread' = idle_thread
      BY <2>1, <2>5 DEF InitThread, At
    <3>2. /\ status'[n] = "BLOCKED" /\ status[n] = "FREE"
          /\ \A t \in Thread : t # n => status'[t] = status[t]
      BY <2>2, <2>3, <3>1 DEF IInv, TypeOK
    <3>3. Queued'
      <4>1. \A t \in Thread : status'[t] = "RUNNING" <=> t = current'
        BY <2>3, <2>4, <3>1, <3>2 DEF Queued
      <4>2. \A t \in Thread : t \in Elems(ready_list') <=>
                                status'[t] = "READY" /\ t # idle_thread'
        BY <2>3, <2>4, <3>1, <3>2 DEF Queued
      <4>3. QED
        BY <2>4, <3>1, <4>1, <4>2 DEF Queued
    <3>4. Frame({n})
      BY <3>2 DEF Frame
    <3>5. status'[current] \notin {"FREE", "BLOCKED"}
      BY <2>3, <2>4, <3>2
    <3>6. QED
      BY <2>2, <3>1, <3>2, <3>3, <3>4, <3>5, <1>CreateKeeps
  <2>6. CASE Unblock
    <3>1. Head(code[current]).op = "unblock" /\ ThreadUnblock(n)
      BY <2>1, <2>6 DEF Unblock, At
    <3>2. /\ Queued' /\ Frame({n}) /\ idle_thread' = idle_thread
          /\ status'[n] = "READY" /\ status'[current] = "RUNNING"
      BY <2>3, <2>4, <3>1, <1>UnblockQueued
    <3>3. QED
      BY <2>2, <3>1, <3>2, <1>CreateKeeps
  <2>7. CASE CreateFails
    <3>1. Head(code[current]).op = "unblock" /\ UNCHANGED schedVars
      BY <2>7 DEF CreateFails, At
    <3>2. /\ Queued' /\ Frame({}) /\ idle_thread' = idle_thread
          /\ status'[current] \notin {"FREE", "BLOCKED"} /\ status' = status
      BY <2>4, <3>1, <1>SameThreads DEF IInv, Waiting, schedVars
    <3>3. Frame({n})
      BY <3>2 DEF Frame
    <3>4. QED
      BY <2>2, <2>3, <3>1, <3>2, <3>3, <1>CreateKeeps
  <2>8. QED
    BY <2>5, <2>6, <2>7
\* sema_down blocks.
<1>BlockWaiting. ASSUME IInv, Waiting, SemaDownBlock
                 PROVE  Waiting'
  <2> USE <1>BlockWaiting
  <2> DEFINE c == code[current]
  <2>1. PICK s : s = Arg
    OBVIOUS
  <2> DEFINE x == I("retest", s)
             rest == <<x>> \o Tail(c)
  <2>2. /\ c # <<>> /\ Head(c).op \in {"down", "retest"} /\ Continue(rest)
        /\ waiters' = [waiters EXCEPT ![s] = Append(@, current)]
        /\ ThreadBlock /\ ~At(current, "set_idle") /\ s = Head(c).arg
    BY <2>1 DEF SemaDownBlock, JoinWaiters, At, Arg
  <2>3. /\ TypeOK /\ Queued /\ Listed /\ IdleCode /\ Creation
        /\ current \in Thread /\ status[current] = "RUNNING"
        /\ c \in Seq(Ins) /\ Shape(c) /\ Head(c) \in Ins
    BY <2>2, Running DEF IInv, Waiting
  <2>4. s \in Sema
    <3>1. Head(c) \in Instr
      BY <2>2, <2>3 DEF Ins, IdleInstr
    <3>2. QED
      BY <2>2, <3>1, ArgType DEF SemaOp
  <2>5. x.op = "retest"
    BY InstrIs
  <2>6. /\ Shape(rest)
        /\ \A t \in Thread : Creates(c, t) <=> Creates(rest, t)
        /\ c[1].op # "init_thread" /\ rest[1].op # "init_thread"
    BY <2>2, <2>3, <2>5, <1>RetestShape, SMTT(30)
  <2>7. current # Idle
    BY <2>2, <2>3, <1>IdleOps
  <2>8. /\ Queued' /\ Frame({}) /\ idle_thread' = idle_thread
        /\ status'[current] = "BLOCKED"
    BY <2>2, <2>3, <2>7, <1>BlockQueued
  <2>9. rest # <<>> /\ Head(rest) = x
    <3>1. Tail(c) \in Seq(Ins)
      BY <2>2, <2>3, Ends
    <3>2. QED
      BY <3>1, Join, SMT
  <2> HIDE DEF rest, x
  <2>10. /\ code'[current] = rest
         /\ \A t \in Thread : t # current => code'[t] = code[t]
    BY <2>2, <2>3, NewCode
  <2>11. waiters[s] \in Seq(Thread) /\ \A r \in Sema : waiters[r] \in Seq(Thread)
    BY <2>3, <2>4 DEF TypeOK
  <2>12. /\ waiters'[s] = Append(waiters[s], current)
         /\ \A r \in Sema : r # s => waiters'[r] = waiters[r]
    BY <2>2, <2>3, <2>4 DEF TypeOK
  <2>13. Elems(waiters'[s]) = Elems(waiters[s]) \cup {current}
    BY <2>3, <2>11, <2>12, ElemsAppend, SMT
  <2>14. ASSUME NEW r \in Sema, NEW t \in Elems(waiters[r]) PROVE Sleeps(t, r)'
    <3>1. t \in Thread /\ Sleeps(t, r)
      BY <2>3, <2>11, SMT DEF Listed, Elems
    <3>2. t # current
      BY <2>3, <3>1 DEF Sleeps
    <3>3. t # Idle
      BY <2>3, <1>IdleApart
    <3>4. status'[t] = "BLOCKED"
      BY <2>8, <3>1, <3>2, <3>3 DEF Frame, Sleeps
    <3>5. QED
      BY <2>10, <3>1, <3>2, <3>4 DEF Sleeps
  <2>16. ASSUME NEW t, t = current PROVE Sleeps(t, s)'
    BY <2>8, <2>9, <2>10, <2>16 DEF Sleeps, x
  <2>17. \A i \in DOMAIN waiters[s] : waiters[s][i] # current
    <3>1. current \notin Elems(waiters[s])
      BY <2>3, <2>4 DEF Listed, Sleeps
    <3>2. QED
      BY <3>1 DEF Elems
  <2>18. Distinct(waiters'[s])
    <3>1. current \notin Elems(waiters[s])
      BY <2>17 DEF Elems
    <3>2. Distinct(waiters[s])
      BY <2>3, <2>4 DEF Listed
    <3>3. QED
      BY <2>3, <2>11, <2>12, <3>1, <3>2, DistinctAppend
  <2>19. Listed'
    <3>1. ASSUME NEW r \in Sema PROVE \A t \in Elems(waiters'[r]) : Sleeps(t, r)'
      <4>1. CASE r = s
        BY <2>13, <2>14, <2>16, <4>1
      <4>2. CASE r # s
        BY <2>12, <2>14, <4>2
      <4>3. QED
        BY <4>1, <4>2
    <3>2. \A r \in Sema : Distinct(waiters'[r])
      BY <2>3, <2>12, <2>18 DEF Listed
    <3>3. QED
      BY <3>1, <3>2 DEF Listed
  <2>20. QED
    <3>1. \A t \in Thread :
            /\ Creates(rest, t) => Creates(code[current], t)
            /\ Creates(rest, t) => (rest[1].op = "init_thread"
                                      <=> code[current][1].op = "init_thread")
      BY <2>6
    <3>2. /\ \A r \in Sema : \A t \in Elems(waiters[r]) :
               t \in Elems(waiters'[r]) \/ t \in {}
          /\ \E r \in Sema : current \in Elems(waiters'[r])
      BY <2>4, <2>12, <2>13
    <3>3. /\ current \notin {}
          /\ \A y \in {} : /\ \A u \in Thread : ~Creates(code[u], y)
                           /\ status'[y] \notin {"FREE", "BLOCKED"}
          /\ status'[current] = "FREE" => rest = <<>>
      BY <2>8
    <3>4. /\ current = Idle => rest \in IdleCodes
          /\ idle_thread = NULL \/ idle_thread' = idle_thread
          /\ status'[current] = "BLOCKED" =>
               \/ current = idle_thread'
               \/ \E r \in Sema : current \in Elems(waiters'[r])
      BY <2>7, <2>8, <3>2
    <3>5. Continue(rest) /\ Shape(rest) /\ Queued' /\ Frame({})
      BY <2>2, <2>6, <2>8
    <3>6. QED
      BY <2>19, <3>1, <3>2, <3>3, <3>4, <3>5, <1>GoesOn
\* sema_up takes the first thread off the list.
<1>PopWaiting. ASSUME IInv, Waiting, NEW s \in Sema, waiters[s] # <<>>,
                      ThreadUnblock(Head(waiters[s])),
                      waiters' = [waiters EXCEPT ![s] = Tail(@)],
                      NEW rest, Continue(rest), Shape(rest),
                      current = Idle => rest \in IdleCodes,
                      \A t \in Thread :
                        /\ Creates(rest, t) => Creates(code[current], t)
                        /\ Creates(rest, t) => (rest[1].op = "init_thread"
                                                  <=> code[current][1].op = "init_thread")
               PROVE  Waiting'
  <2> USE <1>PopWaiting
  <2>1. PICK x : x = Head(waiters[s])
    OBVIOUS
  <2>2. /\ TypeOK /\ Queued /\ Listed /\ IdleCode /\ Creation
        /\ current \in Thread /\ status[current] = "RUNNING"
    BY Running DEF IInv, Waiting
  <2>3. waiters[s] \in Seq(Thread) /\ \A r \in Sema : waiters[r] \in Seq(Thread)
    BY <2>2 DEF TypeOK
  <2>4. Elems(waiters[s]) = {x} \cup Elems(Tail(waiters[s]))
    BY <2>1, <2>3, ElemsTail
  <2>5. /\ Distinct(Tail(waiters[s])) /\ x \notin Elems(Tail(waiters[s]))
    BY <2>1, <2>2, <2>3, DistinctTail DEF Listed
  <2>6. x \in Thread /\ x # Idle /\ Sleeps(x, s)
    BY <2>1, <2>2, <2>3, <2>4, <1>IdleApart, SMT DEF Listed
  <2>7. /\ Queued' /\ Frame({x}) /\ idle_thread' = idle_thread
        /\ status'[x] = "READY" /\ status'[current] = "RUNNING"
    BY <2>1, <2>2, <2>6, <1>UnblockQueued DEF Sleeps
  <2>8. /\ waiters'[s] = Tail(waiters[s])
        /\ \A r \in Sema : r # s => waiters'[r] = waiters[r]
    BY <2>2 DEF TypeOK
  <2>9. \A r \in Sema : r # s => x \notin Elems(waiters[r])
    BY <2>2, <2>6, InstrIs, SMT DEF Listed, Sleeps
  <2>10. \A t \in Thread : t # current => code'[t] = code[t]
    BY <2>2, NewCode
  <2>11. ASSUME NEW r \in Sema, NEW t \in Elems(waiters[r]), t # x
         PROVE  Sleeps(t, r)'
    <3>1. t \in Thread /\ Sleeps(t, r)
      BY <2>2, <2>3, SMT DEF Listed, Elems
    <3>2. t # current
      BY <2>2, <3>1 DEF Sleeps
    <3>3. t # Idle
      BY <2>2, <1>IdleApart
    <3>4. status'[t] = "BLOCKED"
      BY <2>7, <2>11, <3>1, <3>2, <3>3 DEF Frame, Sleeps
    <3>5. QED
      BY <2>10, <3>1, <3>2, <3>4 DEF Sleeps
  <2>12. Listed'
    <3>1. ASSUME NEW r \in Sema PROVE \A t \in Elems(waiters'[r]) : Sleeps(t, r)'
      <4>1. CASE r = s
        BY <2>4, <2>5, <2>8, <2>11, <4>1
      <4>2. CASE r # s
        BY <2>8, <2>9, <2>11, <4>2
      <4>3. QED
        BY <4>1, <4>2
    <3>2. \A r \in Sema : Distinct(waiters'[r])
      BY <2>2, <2>5, <2>8 DEF Listed
    <3>3. QED
      BY <3>1, <3>2 DEF Listed
  <2>13. \A u \in Thread : ~Creates(code[u], x)
    BY <2>2, <2>6 DEF Creation, Sleeps
  <2>14. /\ current \notin {x}
         /\ \A y \in {x} : /\ \A u \in Thread : ~Creates(code[u], y)
                           /\ status'[y] \notin {"FREE", "BLOCKED"}
         /\ status'[current] = "FREE" => rest = <<>>
    BY <2>2, <2>6, <2>7, <2>13 DEF Sleeps
  <2>15. \A r \in Sema : \A t \in Elems(waiters[r]) :
           t \in Elems(waiters'[r]) \/ t \in {x}
    BY <2>4, <2>8
  <2>16. QED
    BY <2>7, <2>12, <2>14, <2>15, <1>GoesOn
\* sema_up, by a thread.
<1>UpWaiting. ASSUME IInv, Waiting, SemaUp
              PROVE  Waiting'
  <2> USE <1>UpWaiting
  <2>1. PICK s : s = Arg
    OBVIOUS
  <2> DEFINE c == code[current]
             rest == Tail(code[current])
  <2>2. c # <<>> /\ Head(c).op = "up" /\ Done /\ Up(s) /\ s = Head(c).arg
    BY <2>1 DEF SemaUp, At, Arg
  <2>3. c \in Seq(Ins) /\ Shape(c) /\ Head(c) \in Ins /\ Head(c) = c[1]
    BY <2>2, Running, Ends
  <2>4. s \in Sema
    <3>1. Head(c) \in Instr
      BY <2>2, <2>3 DEF Ins, IdleInstr
    <3>2. QED
      BY <2>2, <3>1, ArgType DEF SemaOp
  <2>5. CASE waiters[s] = <<>>
    <3>1. UNCHANGED schedVars /\ waiters' = waiters
      BY <2>2, <2>5 DEF Up
    <3>2. QED
      BY <2>2, <3>1, <1>QuietKeeps
  <2>6. CASE waiters[s] # <<>>
    <3>1. /\ ThreadUnblock(Head(waiters[s]))
          /\ waiters' = [waiters EXCEPT ![s] = Tail(@)]
      BY <2>2, <2>6 DEF Up
    <3>2. /\ Shape(rest)
          /\ \A t \in Thread : /\ Creates(c, t) <=> Creates(rest, t)
                               /\ Creates(c, t) => rest[1].op # "init_thread"
      BY <2>2, <2>3, <1>TailShape
    <3>3. Continue(rest)
      BY <2>2 DEF Done
    <3>4. current = Idle => rest \in IdleCodes
      BY <2>2, <1>IdleTail DEF Waiting
    <3>5. \A t \in Thread :
            /\ Creates(rest, t) => Creates(code[current], t)
            /\ Creates(rest, t) => (rest[1].op = "init_thread"
                                      <=> code[current][1].op = "init_thread")
      BY <2>2, <2>3, <3>2
    <3>6. Shape(rest)
      BY <3>2
    <3> HIDE DEF rest, c
    <3>7. QED
      BY <2>4, <2>6, <3>1, <3>3, <3>4, <3>5, <3>6, <1>PopWaiting
  <2>7. QED
    BY <2>5, <2>6
\* sema_up, by an interrupt handler.
<1>DeviceWaiting. ASSUME IInv, Waiting, DeviceInterrupt
                  PROVE  Waiting'
  <2> USE <1>DeviceWaiting
  <2>1. PICK s \in IntrSema : Up(s)
    BY DEF DeviceInterrupt
  <2>2. s \in Sema /\ code' = code
    BY SynchAssumption DEF DeviceInterrupt, Sema
  <2>3. CASE waiters[s] = <<>>
    <3>1. UNCHANGED schedVars /\ waiters' = waiters
      BY <2>1, <2>3 DEF Up
    <3>2. /\ Queued' /\ Frame({}) /\ idle_thread' = idle_thread
          /\ status'[current] \notin {"FREE", "BLOCKED"}
      BY <3>1, <1>SameThreads DEF IInv, Waiting, schedVars
    <3>3. QED
      BY <2>2, <3>1, <3>2, <1>CodeKeeps
  <2>4. CASE waiters[s] # <<>>
    <3> DEFINE rest == code[current]
    <3>1. /\ ThreadUnblock(Head(waiters[s]))
          /\ waiters' = [waiters EXCEPT ![s] = Tail(@)]
      BY <2>1, <2>4 DEF Up
    <3>2. Continue(rest)
      BY <2>2 DEF Continue, IInv, TypeOK
    <3>3. Shape(rest)
      BY Running
    <3>4. current = Idle => rest \in IdleCodes
      BY DEF Waiting, IdleCode, IdleCodes
    <3>5. \A t \in Thread :
            /\ Creates(rest, t) => Creates(code[current], t)
            /\ Creates(rest, t) => (rest[1].op = "init_thread"
                                      <=> code[current][1].op = "init_thread")
      OBVIOUS
    <3> HIDE DEF rest
    <3>6. QED
      BY <2>2, <2>4, <3>1, <3>2, <3>3, <3>4, <3>5, <1>PopWaiting
  <2>5. QED
    BY <2>3, <2>4
<1> SUFFICES ASSUME IInv, Waiting, [Next]_vars PROVE Waiting'
  OBVIOUS
<1>1. CASE UNCHANGED vars
  BY <1>1 DEF vars, Waiting, Queued, Listed, Sleeps, IdleCode, Shapes, Creation,
              Reachable
<1>2. CASE SemaDownBlock
  BY <1>2, <1>BlockWaiting
<1>3. CASE SemaDownTake
  BY <1>3, <1>TakeWaiting
<1>4. CASE SemaTryDown
  BY <1>4, <1>TryWaiting
<1>5. CASE SemaUp
  BY <1>5, <1>UpWaiting
<1>6. CASE SetHolder \/ ClearHolder \/ CondPush \/ ReadTid \/ WriteTid
  BY <1>6, <1>OtherWaiting
<1>7. CASE CondSignal \/ CondBroadcast
  BY <1>7, <1>CondWaiting
<1>8. CASE InitThread \/ Unblock \/ CreateFails
  BY <1>8, <1>CreateWaiting
<1>9. CASE Yield \/ Exit \/ SetIdle
  BY <1>9, <1>LeaveWaiting
<1>10. CASE IdleBlock \/ TimerInterrupt
  BY <1>10, <1>IdleTickWaiting
<1>11. CASE BeginCall
  BY <1>11, <1>BeginWaiting
<1>12. CASE DeviceInterrupt
  BY <1>12, <1>DeviceWaiting
<1>13. QED
  BY <1>1, <1>2, <1>3, <1>4, <1>5, <1>6, <1>7, <1>8, <1>9, <1>10, <1>11, <1>12
     DEF Next

\* WInv always holds.
THEOREM WaitInvariant == Spec => []WInv
<1>1. Init => WInv
  BY InitInv, InitWaiting DEF WInv
<1>2. WInv /\ [Next]_vars => WInv'
  BY NextInv, StepWaiting DEF WInv
<1>3. QED
  BY <1>1, <1>2, PTL DEF Spec
(***************************************************************************)
(* Code that acquires and releases locks.                                  *)
(***************************************************************************)
\* The ways in which sema_down and sema_try_down stand in code.
DownOp == {"down", "retest", "try_down"}

\* How the instructions on locks follow each other: holder is set right after
\* the semaphore was taken and cleared right before it is given back, and no
\* call releases two locks.
WellFormed(s) ==
  /\ \A i \in 1 .. Len(s) :
       /\ s[i].op = "set_holder" /\ i > 1 =>
            s[i - 1].op \in DownOp /\ s[i - 1].arg = s[i].arg
       /\ s[i].op \in DownOp /\ s[i].arg \in Lock =>
            i + 1 <= Len(s) /\ s[i + 1] = I("set_holder", s[i].arg)
       /\ s[i].op = "up" /\ s[i].arg \in Lock /\ i > 1 =>
            s[i - 1] = I("clear_holder", s[i].arg)
       /\ s[i].op = "clear_holder" =>
            i + 1 <= Len(s) /\ s[i + 1] = I("up", s[i].arg)
  /\ \A i, j \in 1 .. Len(s) :
       s[i].op = "clear_holder" /\ s[j].op = "clear_holder" => i = j

\* The code releases l, and does not take it before.
Sets(s, i, l) == \E j \in 1 .. i - 1 : s[j] = I("set_holder", l)
Needs(s, l) == \E i \in 1 .. Len(s) : s[i] = I("clear_holder", l) /\ ~Sets(s, i, l)

(***************************************************************************)
(* Code.                                                                   *)
(***************************************************************************)
\* The thread does not own a lock by the place it is at.
Quiet(s) == s # <<>> => /\ Head(s).op # "set_holder"
                        /\ ~(Head(s).op = "up" /\ Head(s).arg \in Lock)

\* An instruction is its op and its argument.
LEMMA InstrParts ==
  /\ \A op, arg : I(op, arg).op = op /\ I(op, arg).arg = arg
  /\ \A x \in Ins : x = I(x.op, x.arg)
  /\ \A x \in Ins : x.op \in {"set_holder", "clear_holder"} => x.arg \in Lock
BY SMT DEF I, Ins, Instr, IdleInstr, SemaOp, LockOp, CondOp, ThreadOp

(***************************************************************************)
(* The bodies of the calls.                                                *)
(***************************************************************************)
\* One instruction that is not on a lock.
LEMMA OneForm ==
  ASSUME NEW op, NEW arg, op \notin {"set_holder", "clear_holder"},
         op \in {"up"} \cup DownOp => arg \notin Lock
  PROVE  LET r == <<I(op, arg)>>
         IN  WellFormed(r) /\ Quiet(r) /\ \A l \in Lock : ~Needs(r, l)
<1> DEFINE r == <<I(op, arg)>>
<1>1. Len(r) = 1 /\ r[1].op = op /\ r[1].arg = arg /\ Head(r) = r[1]
  BY InstrParts, SMT
<1> HIDE DEF r
<1>2. WellFormed(r) /\ Quiet(r)
  BY <1>1, SMT DEF WellFormed, Quiet
<1>3. \A l \in Lock : ~Needs(r, l)
  BY <1>1, InstrParts, SMT DEF Needs
<1>4. QED
  BY <1>2, <1>3 DEF r

\* The instructions of cond_wait and of thread_create.
WaitCode(r, l, t) ==
  /\ Len(r) = 6 /\ Head(r) = r[1] /\ r[1].op = "cond_push"
  /\ r[2] = I("clear_holder", l) /\ r[2].op = "clear_holder" /\ r[2].arg = l
  /\ r[3] = I("up", l) /\ r[3].op = "up" /\ r[3].arg = l
  /\ r[4].op = "down" /\ r[4].arg = t
  /\ r[5].op = "down" /\ r[5].arg = l
  /\ r[6] = I("set_holder", l) /\ r[6].op = "set_holder" /\ r[6].arg = l

CreateCode(r, l) ==
  /\ Len(r) = 8 /\ Head(r) = r[1] /\ r[1].op = "init_thread"
  /\ r[2].op = "down" /\ r[2].arg = l
  /\ r[3] = I("set_holder", l) /\ r[3].op = "set_holder" /\ r[3].arg = l
  /\ r[4].op = "read_tid" /\ r[5].op = "write_tid"
  /\ r[6] = I("clear_holder", l) /\ r[6].op = "clear_holder" /\ r[6].arg = l
  /\ r[7] = I("up", l) /\ r[7].op = "up" /\ r[7].arg = l
  /\ r[8].op = "unblock"

\* cond_wait executes the former.
LEMMA CondWaitIs ==
  ASSUME NEW c \in Cond, NEW t \in Thread
  PROVE  \E r, l : /\ CondWait(c, t) = r /\ LockOf[c] = l /\ l \in Lock
                  /\ WaitCode(r, l, t)
<1> DEFINE l == LockOf[c]
           a == <<I("cond_push", c)>>
           d == <<I("down", t)>>
           p == a \o LockRelease(l)
           q == p \o d
           r == q \o LockAcquire(l)
<1>1. CondWait(c, t) = r
  BY DEF CondWait
<1>2. l \in Lock /\ t \notin Lock
  BY SynchAssumption
<1> HIDE DEF l
<1>a. /\ a \in Seq(Instr) /\ Len(a) = 1 /\ a[1] = I("cond_push", c) /\ a # <<>>
      /\ d \in Seq(Instr) /\ Len(d) = 1 /\ d[1] = I("down", t)
  BY InstrType, SMT DEF CondOp, SemaOp, Sema
<1>b. /\ LockAcquire(l) \in Seq(Instr) /\ LockRelease(l) \in Seq(Instr)
      /\ Len(LockAcquire(l)) = 2 /\ LockAcquire(l)[1] = I("down", l)
      /\ LockAcquire(l)[2] = I("set_holder", l)
      /\ Len(LockRelease(l)) = 2 /\ LockRelease(l)[1] = I("clear_holder", l)
      /\ LockRelease(l)[2] = I("up", l)
  <2>1. LockAcquire(l) \in Seq(Instr) /\ LockRelease(l) \in Seq(Instr)
    BY <1>2, BodyType
  <2>2. QED
    BY <2>1 DEF LockAcquire, LockRelease
<1> HIDE DEF a, d
<1>p. /\ p \in Seq(Instr) /\ Len(p) = 3 /\ p[1] = I("cond_push", c)
      /\ p[2] = I("clear_holder", l) /\ p[3] = I("up", l) /\ p # <<>>
  <2>t. a \in Seq(Instr) /\ LockRelease(l) \in Seq(Instr) /\ a # <<>>
    BY <1>a, <1>b
  <2>0. /\ p \in Seq(Instr) /\ Len(p) = Len(a) + Len(LockRelease(l))
        /\ p # <<>>
        /\ \A i \in 1 .. Len(a) : p[i] = a[i]
        /\ \A i \in 1 .. Len(LockRelease(l)) : p[Len(a) + i] = LockRelease(l)[i]
    BY <2>t, JoinAt
  <2> HIDE DEF p
  <2>1. /\ p \in Seq(Instr) /\ Len(p) = 1 + 2 /\ p # <<>>
        /\ \A i \in 1 .. 1 : p[i] = a[i]
        /\ \A i \in 1 .. 2 : p[1 + i] = LockRelease(l)[i]
    BY <1>a, <1>b, <2>0
  <2>2. p[1] = a[1] /\ p[1 + 1] = LockRelease(l)[1] /\ p[1 + 2] = LockRelease(l)[2]
    BY <2>1, SMT
  <2>3. QED
    BY <1>a, <1>b, <2>1, <2>2, SMT
<1> HIDE DEF p
<1>q. /\ q \in Seq(Instr) /\ Len(q) = 4 /\ q[4] = I("down", t) /\ q # <<>>
      /\ \A i \in 1 .. 3 : q[i] = p[i]
  <2>t. p \in Seq(Instr) /\ d \in Seq(Instr) /\ p # <<>>
    BY <1>a, <1>p
  <2>0. /\ q \in Seq(Instr) /\ Len(q) = Len(p) + Len(d)
        /\ q # <<>>
        /\ \A i \in 1 .. Len(p) : q[i] = p[i]
        /\ \A i \in 1 .. Len(d) : q[Len(p) + i] = d[i]
    BY <2>t, JoinAt
  <2> HIDE DEF q
  <2>1. /\ q \in Seq(Instr) /\ Len(q) = 3 + 1 /\ q # <<>>
        /\ \A i \in 1 .. 3 : q[i] = p[i]
        /\ \A i \in 1 .. 1 : q[3 + i] = d[i]
    BY <1>a, <1>p, <2>0
  <2>2. q[3 + 1] = d[1]
    BY <2>1, SMT
  <2>3. QED
    BY <1>a, <2>1, <2>2, SMT
<1> HIDE DEF q
<1>r. /\ Len(r) = 6 /\ r[5] = I("down", l) /\ r[6] = I("set_holder", l)
      /\ Head(r) = r[1] /\ r # <<>>
      /\ \A i \in 1 .. 4 : r[i] = q[i]
  <2>t. q \in Seq(Instr) /\ LockAcquire(l) \in Seq(Instr) /\ q # <<>>
    BY <1>b, <1>q
  <2>0. /\ r \in Seq(Instr) /\ Len(r) = Len(q) + Len(LockAcquire(l))
        /\ r # <<>> /\ Head(r) = r[1]
        /\ \A i \in 1 .. Len(q) : r[i] = q[i]
        /\ \A i \in 1 .. Len(LockAcquire(l)) : r[Len(q) + i] = LockAcquire(l)[i]
    BY <2>t, JoinAt
  <2> HIDE DEF r
  <2>1. /\ Len(r) = 4 + 2 /\ Head(r) = r[1] /\ r # <<>>
        /\ \A i \in 1 .. 4 : r[i] = q[i]
        /\ \A i \in 1 .. 2 : r[4 + i] = LockAcquire(l)[i]
    BY <1>b, <1>q, <2>0
  <2>2. r[4 + 1] = LockAcquire(l)[1] /\ r[4 + 2] = LockAcquire(l)[2]
    BY <2>1, SMT
  <2>3. QED
    BY <1>b, <2>1, <2>2, SMT
<1> HIDE DEF r
<1>3. WaitCode(r, l, t)
  BY <1>p, <1>q, <1>r, InstrParts, SMT DEF WaitCode
<1>4. QED
  BY <1>1, <1>2, <1>3 DEF l

\* thread_create executes the latter.
LEMMA CreateIs ==
  ASSUME NEW t \in Thread
  PROVE  \E r, l : /\ ThreadCreate(t) = r /\ l \in Lock
                  /\ CreateCode(r, l)
<1> DEFINE l == tid_lock
           m == <<I("read_tid", t), I("write_tid", t)>>
           p == LockAcquire(l) \o m
           q == p \o LockRelease(l)
           a == <<I("init_thread", t)>>
           w == a \o q
           d == <<I("unblock", t)>>
           r == w \o d
<1>1. ThreadCreate(t) = r
  BY DEF ThreadCreate, AllocateTid
<1>2. l \in Lock
  BY SynchAssumption
<1> HIDE DEF l
<1>b. /\ LockAcquire(l) \in Seq(Instr) /\ LockRelease(l) \in Seq(Instr)
      /\ Len(LockAcquire(l)) = 2 /\ LockAcquire(l)[1] = I("down", l)
      /\ LockAcquire(l)[2] = I("set_holder", l)
      /\ Len(LockRelease(l)) = 2 /\ LockRelease(l)[1] = I("clear_holder", l)
      /\ LockRelease(l)[2] = I("up", l)
  <2>1. LockAcquire(l) \in Seq(Instr) /\ LockRelease(l) \in Seq(Instr)
    BY <1>2, BodyType
  <2>2. QED
    BY <2>1 DEF LockAcquire, LockRelease
<1>m. /\ m \in Seq(Instr) /\ Len(m) = 2 /\ m[1] = I("read_tid", t)
      /\ m[2] = I("write_tid", t)
  BY InstrType, SMT DEF ThreadOp
<1>a. /\ a \in Seq(Instr) /\ Len(a) = 1 /\ a[1] = I("init_thread", t) /\ a # <<>>
      /\ d \in Seq(Instr) /\ Len(d) = 1 /\ d[1] = I("unblock", t)
  BY InstrType, SMT DEF ThreadOp
<1> HIDE DEF m, a, d
<1>p. /\ p \in Seq(Instr) /\ Len(p) = 4 /\ p[1] = I("down", l)
      /\ p[2] = I("set_holder", l) /\ p[3] = I("read_tid", t)
      /\ p[4] = I("write_tid", t)
  <2>t. LockAcquire(l) \in Seq(Instr) /\ m \in Seq(Instr)
    BY <1>b, <1>m
  <2>0. /\ p \in Seq(Instr) /\ Len(p) = Len(LockAcquire(l)) + Len(m)
        /\ \A i \in 1 .. Len(LockAcquire(l)) : p[i] = LockAcquire(l)[i]
        /\ \A i \in 1 .. Len(m) : p[Len(LockAcquire(l)) + i] = m[i]
    BY <2>t, JoinAt
  <2> HIDE DEF p
  <2>1. /\ p \in Seq(Instr) /\ Len(p) = 2 + 2
        /\ \A i \in 1 .. 2 : p[i] = LockAcquire(l)[i]
        /\ \A i \in 1 .. 2 : p[2 + i] = m[i]
    BY <1>b, <1>m, <2>0
  <2>2. /\ p[1] = LockAcquire(l)[1] /\ p[2] = LockAcquire(l)[2]
        /\ p[2 + 1] = m[1] /\ p[2 + 2] = m[2]
    BY <2>1, SMT
  <2>3. QED
    BY <1>b, <1>m, <2>1, <2>2, SMT
<1> HIDE DEF p
<1>q. /\ q \in Seq(Instr) /\ Len(q) = 6 /\ q[5] = I("clear_holder", l)
      /\ q[6] = I("up", l) /\ \A i \in 1 .. 4 : q[i] = p[i]
  <2>t. p \in Seq(Instr) /\ LockRelease(l) \in Seq(Instr)
    BY <1>b, <1>p
  <2>0. /\ q \in Seq(Instr) /\ Len(q) = Len(p) + Len(LockRelease(l))
        /\ \A i \in 1 .. Len(p) : q[i] = p[i]
        /\ \A i \in 1 .. Len(LockRelease(l)) : q[Len(p) + i] = LockRelease(l)[i]
    BY <2>t, JoinAt
  <2> HIDE DEF q
  <2>1. /\ q \in Seq(Instr) /\ Len(q) = 4 + 2
        /\ \A i \in 1 .. 4 : q[i] = p[i]
        /\ \A i \in 1 .. 2 : q[4 + i] = LockRelease(l)[i]
    BY <1>b, <1>p, <2>0
  <2>2. q[4 + 1] = LockRelease(l)[1] /\ q[4 + 2] = LockRelease(l)[2]
    BY <2>1, SMT
  <2>3. QED
    BY <1>b, <2>1, <2>2, SMTT(30)
<1> HIDE DEF q
<1>w. /\ w \in Seq(Instr) /\ Len(w) = 7 /\ w[1] = I("init_thread", t) /\ w # <<>>
      /\ \A i \in 1 .. 6 : w[1 + i] = q[i]
  <2>t. a \in Seq(Instr) /\ q \in Seq(Instr) /\ a # <<>>
    BY <1>a, <1>q
  <2>0. /\ w \in Seq(Instr) /\ Len(w) = Len(a) + Len(q)
        /\ w # <<>>
        /\ \A i \in 1 .. Len(a) : w[i] = a[i]
        /\ \A i \in 1 .. Len(q) : w[Len(a) + i] = q[i]
    BY <2>t, JoinAt
  <2> HIDE DEF w
  <2>1. /\ w \in Seq(Instr) /\ Len(w) = 1 + 6 /\ w # <<>>
        /\ \A i \in 1 .. 1 : w[i] = a[i]
        /\ \A i \in 1 .. 6 : w[1 + i] = q[i]
    BY <1>a, <1>q, <2>0
  <2>2. QED
    BY <1>a, <2>1, SMT
<1> HIDE DEF w
<1>r. /\ Len(r) = 8 /\ r[8] = I("unblock", t) /\ Head(r) = r[1] /\ r # <<>>
      /\ \A i \in 1 .. 7 : r[i] = w[i]
  <2>t. w \in Seq(Instr) /\ d \in Seq(Instr) /\ w # <<>>
    BY <1>a, <1>w
  <2>0. /\ r \in Seq(Instr) /\ Len(r) = Len(w) + Len(d)
        /\ r # <<>> /\ Head(r) = r[1]
        /\ \A i \in 1 .. Len(w) : r[i] = w[i]
        /\ \A i \in 1 .. Len(d) : r[Len(w) + i] = d[i]
    BY <2>t, JoinAt
  <2> HIDE DEF r
  <2>1. /\ Len(r) = 7 + 1 /\ Head(r) = r[1] /\ r # <<>>
        /\ \A i \in 1 .. 7 : r[i] = w[i]
        /\ \A i \in 1 .. 1 : r[7 + i] = d[i]
    BY <1>a, <1>w, <2>0
  <2>2. r[7 + 1] = d[1]
    BY <2>1, SMT
  <2>3. QED
    BY <1>a, <2>1, <2>2, SMT
<1> HIDE DEF r
<1>e. /\ w[1 + 1] = q[1] /\ w[1 + 2] = q[2] /\ w[1 + 3] = q[3] /\ w[1 + 4] = q[4]
      /\ w[1 + 5] = q[5] /\ w[1 + 6] = q[6]
  BY <1>w, SMT
<1>f. /\ r[1] = I("init_thread", t) /\ r[2] = I("down", l)
      /\ r[3] = I("set_holder", l) /\ r[4] = I("read_tid", t)
      /\ r[5] = I("write_tid", t) /\ r[6] = I("clear_holder", l)
      /\ r[7] = I("up", l)
  BY <1>p, <1>q, <1>w, <1>r, <1>e, SMT
<1>3. CreateCode(r, l)
  BY <1>r, <1>f, InstrParts, SMT DEF CreateCode
<1>4. QED
  BY <1>1, <1>2, <1>3

\* What a thread releases in a call is what it holds.
LEMMA CallsForm ==
  ASSUME TypeOK, NEW body \in Calls
  PROVE  /\ WellFormed(body) /\ Quiet(body)
         /\ \A l \in Lock : Needs(body, l) => holder[l] = current
\* lock_acquire, lock_try_acquire and lock_release.
<1>LockForm. ASSUME NEW l \in Lock
             PROVE  /\ \A r \in {LockAcquire(l), LockTryAcquire(l), LockRelease(l)} :
                         WellFormed(r) /\ Quiet(r)
                    /\ \A r \in {LockAcquire(l), LockTryAcquire(l)} :
                         \A k \in Lock : ~Needs(r, k)
                    /\ \A k \in Lock : Needs(LockRelease(l), k) => k = l
  <2> USE <1>LockForm
  <2>1. ASSUME NEW op \in {"down", "try_down"}
        PROVE  LET r == <<I(op, l), I("set_holder", l)>>
               IN  WellFormed(r) /\ Quiet(r) /\ \A k \in Lock : ~Needs(r, k)
    <3> DEFINE r == <<I(op, l), I("set_holder", l)>>
    <3>1. /\ Len(r) = 2 /\ r[1].op = op /\ r[1].arg = l /\ Head(r) = r[1]
          /\ r[2] = I("set_holder", l) /\ r[2].op = "set_holder" /\ r[2].arg = l
      BY InstrParts, SMT
    <3> HIDE DEF r
    <3>2. \A i \in 1 .. Len(r) : i = 1 \/ i = 2
      BY <3>1, SMT
    <3>3. WellFormed(r)
      BY <3>1, <3>2, SMT DEF WellFormed, DownOp
    <3>4. Quiet(r)
      BY <3>1 DEF Quiet
    <3>5. \A k \in Lock : ~Needs(r, k)
      BY <3>1, <3>2, InstrParts, SMT DEF Needs
    <3>6. QED
      BY <3>3, <3>4, <3>5 DEF r
  <2>2. /\ WellFormed(LockRelease(l)) /\ Quiet(LockRelease(l))
        /\ \A k \in Lock : Needs(LockRelease(l), k) => k = l
    <3> DEFINE r == <<I("clear_holder", l), I("up", l)>>
    <3>1. /\ Len(r) = 2 /\ r[1].op = "clear_holder" /\ r[1].arg = l /\ Head(r) = r[1]
          /\ r[1] = I("clear_holder", l)
          /\ r[2] = I("up", l) /\ r[2].op = "up" /\ r[2].arg = l
      BY InstrParts, SMT
    <3> HIDE DEF r
    <3>2. \A i \in 1 .. Len(r) : i = 1 \/ i = 2
      BY <3>1, SMT
    <3>3. WellFormed(r)
      BY <3>1, <3>2, SMT DEF WellFormed, DownOp
    <3>4. Quiet(r)
      BY <3>1 DEF Quiet
    <3>5. ASSUME NEW k \in Lock, Needs(r, k) PROVE k = l
      BY <3>1, <3>2, <3>5, InstrParts, SMT DEF Needs
    <3>6. QED
      BY <3>3, <3>4, <3>5 DEF r, LockRelease
  <2>3. QED
    BY <2>1, <2>2 DEF LockAcquire, LockTryAcquire
\* cond_wait.
<1>CondWaitForm. ASSUME NEW c \in Cond, NEW t \in Thread
                 PROVE  /\ WellFormed(CondWait(c, t)) /\ Quiet(CondWait(c, t))
                        /\ \A k \in Lock : Needs(CondWait(c, t), k) => k = LockOf[c]
  <2> USE <1>CondWaitForm
  <2>1. PICK r, l : /\ CondWait(c, t) = r /\ LockOf[c] = l /\ l \in Lock
                     /\ WaitCode(r, l, t)
    BY CondWaitIs
  <2>2. t \notin Lock
    BY SynchAssumption
  <2>3. CondWait(c, t) = r /\ LockOf[c] = l /\ l \in Lock
    BY <2>1
  <2>4. \A i \in 1 .. Len(r) : i = 1 \/ i = 2 \/ i = 3 \/ i = 4 \/ i = 5 \/ i = 6
    BY <2>1, SMT DEF WaitCode
  <2>5. WellFormed(r)
    BY <2>1, <2>2, <2>4, SMTT(30) DEF WaitCode, WellFormed, DownOp
  <2>6. Quiet(r)
    BY <2>1 DEF WaitCode, Quiet
  <2>7. ASSUME NEW k \in Lock, Needs(r, k) PROVE k = l
    BY <2>1, <2>4, <2>7, InstrParts, SMT DEF WaitCode, Needs
  <2>8. QED
    BY <2>3, <2>5, <2>6, <2>7
\* thread_create: the lock of allocate_tid is taken and given back.
<1>CreateForm. ASSUME NEW t \in Thread
               PROVE  /\ WellFormed(ThreadCreate(t)) /\ Quiet(ThreadCreate(t))
                      /\ \A k \in Lock : ~Needs(ThreadCreate(t), k)
  <2> USE <1>CreateForm
  <2>1. PICK r, l : ThreadCreate(t) = r /\ l \in Lock /\ CreateCode(r, l)
    BY CreateIs
  <2>2. ThreadCreate(t) = r /\ l \in Lock
    BY <2>1
  <2>3. \A i \in 1 .. Len(r) : \/ i = 1 \/ i = 2 \/ i = 3 \/ i = 4
                               \/ i = 5 \/ i = 6 \/ i = 7 \/ i = 8
    BY <2>1, SMT DEF CreateCode
  <2>4. WellFormed(r)
    BY <2>1, <2>3, SMTT(30) DEF CreateCode, WellFormed, DownOp
  <2>5. Quiet(r)
    BY <2>1 DEF CreateCode, Quiet
  <2>6. ASSUME NEW k \in Lock, Needs(r, k) PROVE FALSE
    <3>1. PICK i \in 1 .. Len(r) : r[i] = I("clear_holder", k) /\ ~Sets(r, i, k)
      BY <2>6 DEF Needs
    <3>2. r[i].op = "clear_holder" /\ r[i].arg = k
      BY <3>1, InstrParts, SMT
    <3>3. i = 6 /\ k = l
      BY <2>1, <2>3, <3>2 DEF CreateCode
    <3>4. QED
      BY <2>1, <3>1, <3>3, SMT DEF CreateCode, Sets
  <2>7. QED
    BY <2>2, <2>4, <2>5, <2>6
<1>1. current \in Thread
  BY DEF TypeOK
<1>2. \/ \E op \in {"down", "try_down", "up"} :
           \E s \in Plain : body = <<I(op, s)>>
      \/ \E l \in Lock : body \in {LockAcquire(l), LockTryAcquire(l)}
      \/ \E l \in Lock : body = LockRelease(l) /\ holder[l] = current
      \/ \E c \in Cond : body = CondWait(c, current) /\ holder[LockOf[c]] = current
      \/ \E c \in Cond : body \in {<<I("signal", c)>>, <<I("broadcast", c)>>}
      \/ \E t \in Thread : body = ThreadCreate(t)
      \/ body \in {<<I("yield", current)>>, <<I("exit", current)>>}
  BY DEF Calls, UserLock
<1>3. CASE \E op \in {"down", "try_down", "up"} :
             \E s \in Plain : body = <<I(op, s)>>
  <2>1. PICK op \in {"down", "try_down", "up"}, s \in Plain : body = <<I(op, s)>>
    BY <1>3
  <2>2. op \notin {"set_holder", "clear_holder"} /\ s \notin Lock
    BY SynchAssumption
  <2>3. QED
    BY <2>1, <2>2, OneForm
<1>4. CASE \E l \in Lock : body \in {LockAcquire(l), LockTryAcquire(l)}
  BY <1>4, <1>LockForm
<1>5. CASE \E l \in Lock : body = LockRelease(l) /\ holder[l] = current
  BY <1>5, <1>LockForm
<1>6. CASE \E c \in Cond : body = CondWait(c, current) /\ holder[LockOf[c]] = current
  BY <1>1, <1>6, <1>CondWaitForm
<1>7. CASE \E c \in Cond : body \in {<<I("signal", c)>>, <<I("broadcast", c)>>}
  <2>1. PICK c \in Cond : body \in {<<I("signal", c)>>, <<I("broadcast", c)>>}
    BY <1>7
  <2>2. QED
    BY <2>1, OneForm DEF DownOp
<1>8. CASE \E t \in Thread : body = ThreadCreate(t)
  BY <1>8, <1>CreateForm
<1>9. CASE body \in {<<I("yield", current)>>, <<I("exit", current)>>}
  <2>1. current \notin Lock
    BY <1>1, SynchAssumption
  <2>2. QED
    BY <1>9, <2>1, OneForm
<1>10. QED
  BY <1>2, <1>3, <1>4, <1>5, <1>6, <1>7, <1>8, <1>9

(***************************************************************************)
(* The invariant.                                                          *)
(***************************************************************************)
\* The instructions on locks stand in the order the bodies have.
Forms == \A t \in Thread : WellFormed(code[t])

\* A thread that is going to release a lock it does not take before holds it.
Owned == \A t \in Thread, l \in Lock : Needs(code[t], l) => holder[l] = t

\* Between the two steps of lock_release holder does not name the owner.
Released ==
  \A t \in Thread, l \in Lock :
    code[t] # <<>> /\ Head(code[t]) = I("up", l) => holder[l] # t

\* LockExclusion without counting.
Excl(l) ==
  \/ value[l] = 1 /\ Owners(l) = {}
  \/ value[l] = 0 /\ \E t \in Thread : Owners(l) = {t}

Exclusive == \A l \in Lock : Excl(l)

Locking == Forms /\ Owned /\ Released /\ Exclusive

LInv == IInv /\ Locking

\* What a step does to a lock.
Same(l) == value'[l] = value[l] /\ Owners(l)' = Owners(l)
Takes(l) == value[l] = 1 /\ value'[l] = 0 /\ Owners(l)' = {current}
Gives(l) == value[l] = 0 /\ value'[l] = 1 /\ Owners(l) = {current}

Change == \/ \A l \in Lock : Same(l)
          \/ /\ UNCHANGED current
             /\ \E l \in Lock : /\ Takes(l) \/ Gives(l)
                               /\ \A k \in Lock \ {l} : Same(k)

(***************************************************************************)
(* Steps.                                                                  *)
(***************************************************************************)
\* The thread is at a place where it owns l.
Marked(s, l) == s # <<>> /\ Head(s) \in {I("set_holder", l), I("up", l)}

\* Owners by place.
LEMMA OwnersAre ==
  \A l : Owners(l) = {t \in Thread : holder[l] = t \/ Marked(code[t], l)}
BY DEF Owners, Marked

\* A quiet thread owns by holder alone.
LEMMA QuietUnmarked ==
  ASSUME NEW s, Quiet(s), NEW l \in Lock
  PROVE  ~Marked(s, l)
BY InstrParts, SMT DEF Quiet, Marked

\* The running thread goes on with other code.
LEMMA CodeStep ==
  ASSUME TypeOK, NEW rest, Continue(rest)
  PROVE  /\ code'[current] = rest
         /\ \A t \in Thread : t # current => code'[t] = code[t]
BY DEF TypeOK, Continue

(***************************************************************************)
(* The invariant and the abstract lock.                                    *)
(***************************************************************************)
\* No lock is owned when the system starts.
LEMMA InitLocking == Init => Locking
<1> SUFFICES ASSUME Init PROVE Locking
  OBVIOUS
<1>1. \A t \in Thread : /\ WellFormed(code[t]) /\ Quiet(code[t])
                        /\ \A l \in Lock : ~Needs(code[t], l)
  <2>1. idle_started \notin Lock
    BY SynchAssumption
  <2>2. WellFormed(<<>>) /\ Quiet(<<>>) /\ \A l \in Lock : ~Needs(<<>>, l)
    BY SMT DEF WellFormed, Quiet, Needs
  <2>3. LET s == <<I("down", idle_started)>>
        IN  WellFormed(s) /\ Quiet(s) /\ \A l \in Lock : ~Needs(s, l)
    BY <2>1, OneForm
  <2>4. WellFormed(IdleBody) /\ Quiet(IdleBody) /\ \A l \in Lock : ~Needs(IdleBody, l)
    <3> DEFINE r == IdleBody
    <3>1. /\ Len(r) = 3 /\ r[1].op = "set_idle" /\ r[2].op = "up"
          /\ r[2].arg = idle_started /\ r[3].op = "block" /\ Head(r) = r[1]
      BY InstrParts, SMT DEF IdleBody
    <3> HIDE DEF r
    <3>2. \A i \in 1 .. Len(r) : i = 1 \/ i = 2 \/ i = 3
      BY <3>1, SMT
    <3>3. WellFormed(r) /\ Quiet(r)
      BY <2>1, <3>1, <3>2 DEF WellFormed, Quiet, DownOp
    <3>4. \A l \in Lock : ~Needs(r, l)
      BY <3>1, <3>2, InstrParts, SMT DEF Needs
    <3>5. QED
      BY <3>3, <3>4 DEF r
  <2>5. ASSUME NEW t \in Thread
        PROVE  code[t] \in {<<>>, <<I("down", idle_started)>>, IdleBody}
    BY DEF Init
  <2>6. QED
    BY <2>2, <2>3, <2>4, <2>5
<1>2. \A l \in Lock : value[l] = 1 /\ holder[l] = NULL
  BY DEF Init, Sema
<1>3. \A l \in Lock : Owners(l) = {}
  BY <1>1, <1>2, OwnersAre, QuietUnmarked, ThreadAssumption
<1>4. Forms /\ Owned /\ Released
  BY <1>1, <1>2, ThreadAssumption DEF Forms, Owned, Released
<1>5. Exclusive
  BY <1>2, <1>3 DEF Exclusive, Excl
<1>6. QED
  BY <1>4, <1>5 DEF Locking

\* Every step of the kernel keeps the locks in order and takes or gives back
\* one of them at most.
LEMMA LockStep == IInv /\ Locking /\ [Next]_vars => Locking' /\ Change
\* What remains after an instruction.
<1>TailForm. ASSUME NEW s \in Seq(Ins), s # <<>>, WellFormed(s)
             PROVE  /\ WellFormed(Tail(s)) /\ Tail(s) \in Seq(Ins)
                    /\ \A l \in Lock : Needs(Tail(s), l) =>
                         Needs(s, l) \/ Head(s) = I("set_holder", l)
                    /\ Head(s).op = "clear_holder" => \A l \in Lock : ~Needs(Tail(s), l)
  <2> USE <1>TailForm
  <2> DEFINE r == Tail(s)
  <2>1. /\ r \in Seq(Ins) /\ Len(s) \in Nat /\ Len(s) > 0 /\ Len(r) = Len(s) - 1
        /\ \A i \in 1 .. Len(r) : r[i] = s[i + 1] /\ i + 1 \in 1 .. Len(s)
        /\ Head(s) = s[1]
    BY HeadTail, EmptyList, SMT
  <2> HIDE DEF r
  <2>2. WellFormed(r)
    <3>1. ASSUME NEW i \in 1 .. Len(r)
          PROVE  /\ r[i].op = "set_holder" /\ i > 1 =>
                      r[i - 1].op \in DownOp /\ r[i - 1].arg = r[i].arg
                 /\ r[i].op \in DownOp /\ r[i].arg \in Lock =>
                      i + 1 <= Len(r) /\ r[i + 1] = I("set_holder", r[i].arg)
                 /\ r[i].op = "up" /\ r[i].arg \in Lock /\ i > 1 =>
                      r[i - 1] = I("clear_holder", r[i].arg)
                 /\ r[i].op = "clear_holder" =>
                      i + 1 <= Len(r) /\ r[i + 1] = I("up", r[i].arg)
      <4>1. i + 1 \in 1 .. Len(s) /\ r[i] = s[i + 1]
        BY <2>1
      <4>2. i > 1 => r[i - 1] = s[i]
        BY <2>1, SMT
      <4>3. i + 1 <= Len(r) <=> i + 2 <= Len(s)
        BY <2>1, SMT
      <4>4. i + 1 <= Len(r) => r[i + 1] = s[i + 2]
        BY <2>1, SMT
      <4>5. i + 1 - 1 = i /\ i + 1 + 1 = i + 2 /\ i + 1 > 1
        BY <2>1, SMT
      <4>6. /\ s[i + 1].op = "set_holder" => s[i].op \in DownOp /\ s[i].arg = s[i + 1].arg
            /\ s[i + 1].op \in DownOp /\ s[i + 1].arg \in Lock =>
                 i + 2 <= Len(s) /\ s[i + 2] = I("set_holder", s[i + 1].arg)
            /\ s[i + 1].op = "up" /\ s[i + 1].arg \in Lock =>
                 s[i] = I("clear_holder", s[i + 1].arg)
            /\ s[i + 1].op = "clear_holder" =>
                 i + 2 <= Len(s) /\ s[i + 2] = I("up", s[i + 1].arg)
        BY <4>1, <4>5, SMT DEF WellFormed
      <4>7. QED
        BY <4>1, <4>2, <4>3, <4>4, <4>6
    <3>2. ASSUME NEW i \in 1 .. Len(r), NEW j \in 1 .. Len(r),
                 r[i].op = "clear_holder", r[j].op = "clear_holder"
          PROVE  i = j
      <4>1. i + 1 = j + 1
        BY <2>1, <3>2, SMT DEF WellFormed
      <4>2. QED
        BY <4>1, SMT
    <3>3. QED
      BY <3>1, <3>2 DEF WellFormed
  <2>3. ASSUME NEW l \in Lock, Needs(r, l)
        PROVE  Needs(s, l) \/ Head(s) = I("set_holder", l)
    <3>1. PICK i \in 1 .. Len(r) : r[i] = I("clear_holder", l) /\ ~Sets(r, i, l)
      BY <2>3 DEF Needs
    <3>2. i + 1 \in 1 .. Len(s) /\ s[i + 1] = I("clear_holder", l)
      BY <2>1, <3>1
    <3>3. ASSUME Sets(s, i + 1, l), s[1] # I("set_holder", l) PROVE FALSE
      <4>1. PICK j \in 1 .. i : s[j] = I("set_holder", l)
        BY <3>3, SMT DEF Sets
      <4>2. j - 1 \in 1 .. i - 1 /\ j - 1 \in 1 .. Len(r) /\ j - 1 + 1 = j
        BY <2>1, <3>3, <4>1, SMT
      <4>3. r[j - 1] = I("set_holder", l)
        BY <2>1, <4>1, <4>2
      <4>4. QED
        BY <3>1, <4>2, <4>3 DEF Sets
    <3>4. QED
      BY <2>1, <3>2, <3>3 DEF Needs
  <2>4. ASSUME Head(s).op = "clear_holder", NEW l \in Lock, Needs(r, l) PROVE FALSE
    <3>1. PICK i \in 1 .. Len(r) : r[i] = I("clear_holder", l)
      BY <2>4 DEF Needs
    <3>2. i + 1 \in 1 .. Len(s) /\ s[i + 1].op = "clear_holder" /\ 1 \in 1 .. Len(s)
      BY <2>1, <3>1, InstrParts, SMT
    <3>3. i + 1 = 1
      BY <2>1, <2>4, <3>2 DEF WellFormed
    <3>4. QED
      BY <3>3, SMT
  <2>5. QED
    BY <2>1, <2>2, <2>3, <2>4 DEF r
\* The instruction after the next one.
<1>SecondInstr. ASSUME NEW s \in Seq(Ins), 2 <= Len(s)
                PROVE  Tail(s) # <<>> /\ Head(Tail(s)) = s[2]
  <2> USE <1>SecondInstr
  <2>1. s # <<>>
    BY EmptyList, SMT
  <2>2. /\ Tail(s) \in Seq(Ins) /\ Len(Tail(s)) = Len(s) - 1
        /\ \A i \in 1 .. Len(Tail(s)) : Tail(s)[i] = s[i + 1]
    BY <2>1, HeadTail
  <2> DEFINE r == Tail(s)
  <2>3. r[1] = s[1 + 1]
    BY <2>2, SMT
  <2> HIDE DEF r
  <2>4. r # <<>> /\ Head(r) = r[1]
    <3>1. r \in Seq(Ins) /\ Len(r) >= 1
      BY <2>2, SMT DEF r
    <3>2. r # <<>>
      BY <3>1, EmptyList, SMT
    <3>3. QED
      BY <3>1, <3>2, HeadTail, SMT
  <2>5. QED
    BY <2>3, <2>4, SMT DEF r
\* After an instruction that neither takes nor begins to release a lock.
<1>TailQuiet. ASSUME NEW s \in Seq(Ins), s # <<>>, WellFormed(s),
                     Head(s).op # "clear_holder",
                     ~(Head(s).op \in DownOp /\ Head(s).arg \in Lock)
              PROVE  Quiet(Tail(s))
  <2> USE <1>TailQuiet
  <2>1. CASE Tail(s) = <<>>
    BY <2>1 DEF Quiet
  <2>2. CASE Tail(s) # <<>>
    <3>1. 2 \in 1 .. Len(s) /\ Head(Tail(s)) = s[2] /\ Head(s) = s[1] /\ s[2] \in Ins
      BY <2>2, HeadTail, EmptyList, SMT
    <3>2. /\ s[2].op = "set_holder" => s[1].op \in DownOp /\ s[1].arg = s[2].arg
          /\ s[2].op = "up" /\ s[2].arg \in Lock => s[1] = I("clear_holder", s[2].arg)
      BY <3>1, SMT DEF WellFormed
    <3>3. QED
      BY <3>1, <3>2, InstrParts, SMT DEF Quiet
  <2>3. QED
    BY <2>1, <2>2
\* An instruction put in front that is not on a lock.
<1>PrependForm. ASSUME NEW s \in Seq(Ins), WellFormed(s), Quiet(s), NEW x \in Ins,
                       x.op \notin {"set_holder", "clear_holder"},
                       x.op \in {"up"} \cup DownOp => x.arg \notin Lock
                PROVE  /\ WellFormed(<<x>> \o s) /\ Quiet(<<x>> \o s)
                       /\ \A l \in Lock : Needs(<<x>> \o s, l) => Needs(s, l)
  <2> USE <1>PrependForm
  <2> DEFINE r == <<x>> \o s
  <2>1. /\ r \in Seq(Ins) /\ Len(s) \in Nat /\ Len(r) = Len(s) + 1
        /\ r[1] = x /\ Head(r) = x /\ r # <<>>
        /\ \A i \in 1 .. Len(r) : i = 1 \/ (i - 1 \in 1 .. Len(s) /\ r[i] = s[i - 1])
    BY Join, SMT
  <2>a. Len(s) > 0 => s # <<>> /\ Head(s) = s[1]
    BY HeadTail, EmptyList, SMT
  <2> HIDE DEF r
  <2>2. WellFormed(r)
    <3>1. ASSUME NEW i \in 1 .. Len(r)
          PROVE  /\ r[i].op = "set_holder" /\ i > 1 =>
                      r[i - 1].op \in DownOp /\ r[i - 1].arg = r[i].arg
                 /\ r[i].op \in DownOp /\ r[i].arg \in Lock =>
                      i + 1 <= Len(r) /\ r[i + 1] = I("set_holder", r[i].arg)
                 /\ r[i].op = "up" /\ r[i].arg \in Lock /\ i > 1 =>
                      r[i - 1] = I("clear_holder", r[i].arg)
                 /\ r[i].op = "clear_holder" =>
                      i + 1 <= Len(r) /\ r[i + 1] = I("up", r[i].arg)
      <4>1. CASE i = 1
        BY <2>1, <4>1
      <4>2. CASE i > 1
        <5>1. i - 1 \in 1 .. Len(s) /\ r[i] = s[i - 1] /\ i - 1 + 1 = i
          BY <2>1, <4>2, SMTT(30)
        <5>2. i + 1 <= Len(r) <=> i <= Len(s)
          BY <2>1, SMT
        <5>3. i + 1 <= Len(r) => r[i + 1] = s[i]
          BY <2>1, <4>2, SMT
        <5>4. i - 1 > 1 => r[i - 1] = s[i - 1 - 1]
          BY <2>1, <4>2, SMT
        <5>5. /\ r[i].op \in DownOp /\ r[i].arg \in Lock =>
                   i <= Len(s) /\ s[i] = I("set_holder", r[i].arg)
              /\ r[i].op = "clear_holder" =>
                   i <= Len(s) /\ s[i] = I("up", r[i].arg)
          BY <5>1 DEF WellFormed
        <5>6. i - 1 > 1 =>
                /\ r[i].op = "set_holder" =>
                     s[i - 1 - 1].op \in DownOp /\ s[i - 1 - 1].arg = r[i].arg
                /\ r[i].op = "up" /\ r[i].arg \in Lock =>
                     s[i - 1 - 1] = I("clear_holder", r[i].arg)
          BY <5>1 DEF WellFormed
        <5>7. i - 1 = 1 => /\ r[i].op # "set_holder"
                           /\ ~(r[i].op = "up" /\ r[i].arg \in Lock)
          BY <2>1, <2>a, <5>1, SMT DEF Quiet
        <5>8. i - 1 > 1 \/ i - 1 = 1
          BY <4>2, SMT
        <5>9. QED
          BY <5>2, <5>3, <5>4, <5>5, <5>6, <5>7, <5>8
      <4>3. QED
        BY <4>1, <4>2, SMTT(30)
    <3>2. ASSUME NEW i \in 1 .. Len(r), NEW j \in 1 .. Len(r),
                 r[i].op = "clear_holder", r[j].op = "clear_holder"
          PROVE  i = j
      <4>1. /\ i - 1 \in 1 .. Len(s) /\ s[i - 1].op = "clear_holder"
            /\ j - 1 \in 1 .. Len(s) /\ s[j - 1].op = "clear_holder"
        BY <2>1, <3>2
      <4>2. i - 1 = j - 1
        BY <4>1 DEF WellFormed
      <4>3. QED
        BY <4>2, SMT
    <3>3. QED
      BY <3>1, <3>2 DEF WellFormed
  <2>3. Quiet(r)
    BY <2>1 DEF Quiet
  <2>4. ASSUME NEW l \in Lock, Needs(r, l) PROVE Needs(s, l)
    <3>1. PICK i \in 1 .. Len(r) : r[i] = I("clear_holder", l) /\ ~Sets(r, i, l)
      BY <2>4 DEF Needs
    <3>2. i # 1
      BY <2>1, <3>1, InstrParts, SMT
    <3>3. i - 1 \in 1 .. Len(s) /\ s[i - 1] = I("clear_holder", l)
      BY <2>1, <3>1, <3>2
    <3>4. ASSUME Sets(s, i - 1, l) PROVE FALSE
      <4>1. PICK j \in 1 .. i - 1 - 1 : s[j] = I("set_holder", l)
        BY <3>4 DEF Sets
      <4>2. j + 1 \in 1 .. i - 1 /\ j + 1 \in 1 .. Len(r) /\ j + 1 # 1 /\ j + 1 - 1 = j
        BY <2>1, <3>3, <4>1, SMT
      <4>3. r[j + 1] = I("set_holder", l)
        BY <2>1, <4>1, <4>2, SMT
      <4>4. QED
        BY <3>1, <4>2, <4>3 DEF Sets
    <3>5. QED
      BY <3>3, <3>4 DEF Needs
  <2>5. QED
    BY <2>2, <2>3, <2>4 DEF r
\* sema_down that blocks: the test is made again.
<1>RetestForm. ASSUME NEW s \in Seq(Ins), s # <<>>, WellFormed(s),
                      Head(s).op \in {"down", "retest"}
               PROVE  LET r == <<I("retest", Head(s).arg)>> \o Tail(s)
                      IN  /\ WellFormed(r) /\ Quiet(r)
                          /\ \A l \in Lock : Needs(r, l) => Needs(s, l)
  <2> USE <1>RetestForm
  <2> DEFINE x == I("retest", Head(s).arg)
             r == <<x>> \o Tail(s)
  <2>1. /\ Len(s) \in Nat /\ Len(s) > 0 /\ Len(r) = Len(s) /\ r # <<>>
        /\ r[1] = x /\ Head(r) = x /\ Head(s) = s[1]
        /\ \A i \in 1 .. Len(s) : i = 1 \/ r[i] = s[i]
    BY HeadTail, EmptyList, Join, SMT
  <2>2. x.op = "retest" /\ x.arg = s[1].arg
    BY <2>1, InstrParts, SMT
  <2> HIDE DEF x, r
  <2>3. WellFormed(r)
    <3>1. ASSUME NEW i \in 1 .. Len(r)
          PROVE  /\ r[i].op = "set_holder" /\ i > 1 =>
                      r[i - 1].op \in DownOp /\ r[i - 1].arg = r[i].arg
                 /\ r[i].op \in DownOp /\ r[i].arg \in Lock =>
                      i + 1 <= Len(r) /\ r[i + 1] = I("set_holder", r[i].arg)
                 /\ r[i].op = "up" /\ r[i].arg \in Lock /\ i > 1 =>
                      r[i - 1] = I("clear_holder", r[i].arg)
                 /\ r[i].op = "clear_holder" =>
                      i + 1 <= Len(r) /\ r[i + 1] = I("up", r[i].arg)
      <4>0. i \in 1 .. Len(s) /\ (i + 1 <= Len(r) <=> i + 1 <= Len(s))
        BY <2>1
      <4>1. CASE i = 1
        <5>1. s[1].op \in DownOp /\ s[1].arg \in Lock =>
                1 + 1 <= Len(s) /\ s[1 + 1] = I("set_holder", s[1].arg)
          BY <2>1, SMT DEF WellFormed
        <5>2. s[1].op \in DownOp
          BY <2>1 DEF DownOp
        <5>3. 1 + 1 <= Len(s) => r[1 + 1] = s[1 + 1]
          BY <2>1, SMT
        <5>4. QED
          BY <2>1, <2>2, <4>1, <5>1, <5>2, <5>3
      <4>2. CASE i > 1
        <5>1. r[i] = s[i] /\ (i + 1 <= Len(s) => r[i + 1] = s[i + 1])
          BY <2>1, <4>0, <4>2, SMT
        <5>2. i - 1 > 1 => r[i - 1] = s[i - 1]
          BY <2>1, <4>0, <4>2, SMT
        <5>3. i - 1 = 1 => /\ r[i - 1].op \in DownOp /\ r[i - 1].arg = s[i - 1].arg
                           /\ s[i - 1].op # "clear_holder"
          BY <2>1, <2>2 DEF DownOp
        <5>4. /\ s[i].op = "set_holder" =>
                   s[i - 1].op \in DownOp /\ s[i - 1].arg = s[i].arg
              /\ s[i].op \in DownOp /\ s[i].arg \in Lock =>
                   i + 1 <= Len(s) /\ s[i + 1] = I("set_holder", s[i].arg)
              /\ s[i].op = "up" /\ s[i].arg \in Lock =>
                   s[i - 1] = I("clear_holder", s[i].arg)
              /\ s[i].op = "clear_holder" =>
                   i + 1 <= Len(s) /\ s[i + 1] = I("up", s[i].arg)
          BY <4>0, <4>2 DEF WellFormed
        <5>5. i - 1 > 1 \/ i - 1 = 1
          BY <4>2, SMT
        <5>6. I("clear_holder", s[i].arg).op = "clear_holder"
          BY InstrParts
        <5>7. QED
          BY <4>0, <5>1, <5>2, <5>3, <5>4, <5>5, <5>6
      <4>3. QED
        BY <4>1, <4>2, SMTT(30)
    <3>2. ASSUME NEW i \in 1 .. Len(r), NEW j \in 1 .. Len(r),
                 r[i].op = "clear_holder", r[j].op = "clear_holder"
          PROVE  i = j
      BY <2>1, <2>2, <3>2 DEF WellFormed
    <3>3. QED
      BY <3>1, <3>2 DEF WellFormed
  <2>4. Quiet(r)
    BY <2>1, <2>2 DEF Quiet
  <2>5. ASSUME NEW l \in Lock, Needs(r, l) PROVE Needs(s, l)
    <3>1. PICK i \in 1 .. Len(r) : r[i] = I("clear_holder", l) /\ ~Sets(r, i, l)
      BY <2>5 DEF Needs
    <3>2. i # 1
      BY <2>1, <2>2, <3>1, InstrParts, SMT
    <3>3. i \in 1 .. Len(s) /\ s[i] = I("clear_holder", l)
      BY <2>1, <3>1, <3>2
    <3>4. ASSUME NEW j \in 1 .. i - 1, s[j] = I("set_holder", l) PROVE FALSE
      <4>1. j # 1
        BY <2>1, <3>4, InstrParts, SMT
      <4>2. r[j] = s[j]
        BY <2>1, <3>3, <4>1, SMT
      <4>3. QED
        BY <3>1, <3>4, <4>2 DEF Sets
    <3>5. QED
      BY <3>3, <3>4 DEF Needs, Sets
  <2>6. QED
    BY <2>3, <2>4, <2>5 DEF r, x
\* A lock that a step does not touch.
<1>SameKeeps. ASSUME NEW l \in Lock, Same(l), Excl(l)
              PROVE  Excl(l)'
  BY <1>SameKeeps DEF Same, Excl
\* A step that changes neither code nor locks.
<1>NoStep. ASSUME Locking, code' = code, holder' = holder,
                  \A l \in Lock : value'[l] = value[l]
           PROVE  Locking' /\ Change
  <2> USE <1>NoStep
  <2>1. Forms' /\ Owned' /\ Released'
    BY DEF Locking, Forms, Owned, Released
  <2>2. \A l \in Lock : Same(l)
    BY DEF Same, Owners
  <2>3. Exclusive'
    BY <2>2, <1>SameKeeps DEF Locking, Exclusive
  <2>4. QED
    BY <2>1, <2>2, <2>3 DEF Locking, Change
\* A step of a thread between two places where it owns by holder alone.
<1>QuietStep. ASSUME TypeOK, Locking, NEW rest, Continue(rest),
                     holder' = holder, \A l \in Lock : value'[l] = value[l],
                     WellFormed(rest), Quiet(rest), Quiet(code[current]),
                     \A l \in Lock : Needs(rest, l) => holder[l] = current
              PROVE  Locking' /\ Change
  <2> USE <1>QuietStep
  <2>1. /\ code'[current] = rest
        /\ \A t \in Thread : t # current => code'[t] = code[t]
    BY CodeStep
  <2>2. Forms'
    BY <2>1 DEF Locking, Forms
  <2>3. Owned'
    BY <2>1 DEF Locking, Owned
  <2>4. Released'
    <3>1. ASSUME NEW t \in Thread, NEW l \in Lock, code'[t] # <<>>,
                 Head(code'[t]) = I("up", l)
          PROVE  holder[l] # t
      <4>1. Marked(code'[t], l)
        BY <3>1 DEF Marked
      <4>2. t # current
        BY <2>1, <4>1, QuietUnmarked
      <4>3. QED
        BY <2>1, <3>1, <4>2 DEF Locking, Released
    <3>2. QED
      BY <3>1 DEF Released
  <2>5. ASSUME NEW l \in Lock PROVE Same(l)
    <3>1. ~Marked(rest, l) /\ ~Marked(code[current], l)
      BY QuietUnmarked
    <3>2. \A t \in Thread : Marked(code'[t], l) <=> Marked(code[t], l)
      BY <2>1, <3>1
    <3>3. Owners(l)' = Owners(l)
      BY <3>2 DEF Owners, Marked
    <3>4. QED
      BY <3>3 DEF Same
  <2>6. Exclusive'
    BY <2>5, <1>SameKeeps DEF Locking, Exclusive
  <2>7. QED
    BY <2>2, <2>3, <2>4, <2>5, <2>6 DEF Locking, Change
\* An instruction that is not on a lock.
<1>OtherStep. ASSUME TypeOK, Locking, Done, code[current] # <<>>,
                     holder' = holder, \A l \in Lock : value'[l] = value[l],
                     Head(code[current]).op \notin {"set_holder", "clear_holder"},
                     Head(code[current]).op \in {"up"} \cup DownOp =>
                       Head(code[current]).arg \notin Lock
              PROVE  Locking' /\ Change
  <2> USE <1>OtherStep
  <2> DEFINE s == code[current]
             r == Tail(s)
  <2>1. s \in Seq(Ins) /\ WellFormed(s) /\ current \in Thread
    BY DEF TypeOK, Ins, Locking, Forms
  <2>2. /\ WellFormed(r) /\ Quiet(r) /\ Quiet(s)
        /\ \A l \in Lock : Needs(r, l) => Needs(s, l)
    <3>1. Quiet(s)
      BY DEF Quiet
    <3> HIDE DEF s
    <3>2. Quiet(r)
      BY <2>1, <1>TailQuiet DEF s
    <3>3. /\ WellFormed(r)
          /\ \A l \in Lock : Needs(r, l) => Needs(s, l) \/ Head(s) = I("set_holder", l)
      BY <2>1, <1>TailForm DEF s
    <3>4. \A l \in Lock : Head(s) # I("set_holder", l)
      BY InstrParts, SMT DEF s
    <3>5. QED
      BY <3>1, <3>2, <3>3, <3>4
  <2>3. \A l \in Lock : Needs(r, l) => holder[l] = current
    BY <2>1, <2>2 DEF Locking, Owned
  <2>4. Continue(r)
    BY DEF Done
  <2> HIDE DEF r
  <2>5. QED
    BY <2>2, <2>3, <2>4, <1>QuietStep
\* The code of the running thread before and after one of its instructions.
<1>DoneFacts. ASSUME TypeOK, Locking, Done, code[current] # <<>>
              PROVE  /\ current \in Thread
                     /\ code[current] \in Seq(Ins) /\ WellFormed(code[current])
                     /\ Head(code[current]) \in Ins
                     /\ Head(code[current]) = I(Head(code[current]).op, Arg)
                     /\ code'[current] = Tail(code[current])
                     /\ \A t \in Thread : t # current => code'[t] = code[t]
                     /\ WellFormed(Tail(code[current]))
                     /\ Forms'
  <2> USE <1>DoneFacts
  <2>1. /\ current \in Thread /\ code[current] \in Seq(Ins)
        /\ WellFormed(code[current])
    BY DEF TypeOK, Ins, Locking, Forms
  <2>2. Head(code[current]) \in Ins
    BY <2>1, HeadTail
  <2>3. Head(code[current]) = I(Head(code[current]).op, Arg)
    BY <2>2, InstrParts DEF Arg
  <2>4. /\ code'[current] = Tail(code[current])
        /\ \A t \in Thread : t # current => code'[t] = code[t]
    BY CodeStep DEF Done
  <2>5. WellFormed(Tail(code[current]))
    BY <2>1, <1>TailForm
  <2>6. Forms'
    BY <2>4, <2>5 DEF Locking, Forms
  <2>7. QED
    BY <2>1, <2>2, <2>3, <2>4, <2>5, <2>6
\* Every lock but l is as before when only the running thread and l change.
<1>OtherLocks. ASSUME TypeOK, NEW l \in Lock, NEW k \in Lock, k # l,
                      value'[k] = value[k], holder'[k] = holder[k],
                      \A t \in Thread : t # current => code'[t] = code[t],
                      ~Marked(code[current], k), ~Marked(code'[current], k)
               PROVE  Same(k)
  <2> USE <1>OtherLocks
  <2>1. \A t \in Thread : Marked(code'[t], k) <=> Marked(code[t], k)
    OBVIOUS
  <2>2. Owners(k)' = Owners(k)
    BY <2>1 DEF Owners, Marked
  <2>3. QED
    BY <2>2 DEF Same
\* What marks a lock names it.
<1>MarkedBy. ASSUME NEW s, NEW k
             PROVE  /\ Marked(s, k) => Head(s).op \in {"set_holder", "up"} /\ Head(s).arg = k
                    /\ Marked(s, k) => s # <<>>
  BY <1>MarkedBy, InstrParts, SMT DEF Marked
\* sema_down or sema_try_down takes the semaphore of a lock.
<1>TakeStep. ASSUME TypeOK, Locking, Done, code[current] # <<>>,
                    Head(code[current]).op \in DownOp, NEW l \in Lock, Arg = l, value[l] > 0,
                    value' = [value EXCEPT ![l] = @ - 1], holder' = holder,
                    current' = current
             PROVE  Locking' /\ Change
  <2> USE <1>TakeStep
  <2> DEFINE s == code[current]
             r == Tail(s)
  <2>0. l \in Lock /\ l \in Sema
    BY DEF Sema
  <2>1. /\ current \in Thread /\ s \in Seq(Ins) /\ WellFormed(s) /\ s # <<>>
        /\ code'[current] = r
        /\ \A t \in Thread : t # current => code'[t] = code[t]
        /\ Forms'
    BY <1>DoneFacts
  <2>2. Head(s).op \in DownOp /\ Head(s).arg = l
    BY DEF Arg
  <2>3. value[l] = 1 /\ Owners(l) = {}
    BY SMT DEF Locking, Exclusive, Excl
  <2>4. value'[l] = 0 /\ \A k \in Lock : k # l => value'[k] = value[k]
    <3>1. value \in [Sema -> Nat] /\ Lock \subseteq Sema
      BY DEF TypeOK, Sema
    <3>2. QED
      BY <2>0, <2>3, <3>1, SMT
  <2> HIDE DEF s
  <2>5. r # <<>> /\ Head(r) = I("set_holder", l)
    <3>1. 1 \in 1 .. Len(s) /\ Head(s) = s[1]
      BY <2>1, HeadTail, EmptyList, SMT
    <3>2. 1 + 1 <= Len(s) /\ s[1 + 1] = I("set_holder", l)
      BY <2>0, <2>1, <2>2, <3>1 DEF WellFormed
    <3>3. QED
      BY <2>1, <3>2, <1>SecondInstr, SMT
  <2>6. \A k \in Lock : Needs(r, k) => Needs(s, k)
    <3>1. \A k \in Lock : Needs(r, k) => Needs(s, k) \/ Head(s) = I("set_holder", k)
      BY <2>1, <1>TailForm
    <3>2. \A k \in Lock : Head(s) # I("set_holder", k)
      BY <2>2, InstrParts, SMT DEF DownOp
    <3>3. QED
      BY <3>1, <3>2
  <2> HIDE DEF r
  <2>7. Owned'
    BY <2>1, <2>6 DEF Locking, Owned, s
  <2>8. Released'
    <3>1. \A k : Head(r) # I("up", k)
      BY <2>5, InstrParts, SMT
    <3>2. QED
      BY <2>1, <3>1 DEF Locking, Released
  <2>9. ASSUME NEW k \in Lock \ {l} PROVE Same(k)
    <3>1. ~Marked(s, k)
      BY <2>2, <1>MarkedBy DEF DownOp
    <3>2. ~Marked(r, k)
      BY <2>5, <1>MarkedBy, InstrParts, SMT
    <3>3. value'[k] = value[k]
      BY <2>4
    <3>4. QED
      BY <2>0, <2>1, <3>1, <3>2, <3>3, <1>OtherLocks DEF s
  <2>10. Owners(l)' = {current}
    <3>1. ASSUME NEW t \in Thread PROVE ~(holder[l] = t) /\ ~Marked(code[t], l)
      BY <2>3, OwnersAre
    <3>2. Marked(code'[current], l)
      BY <2>1, <2>5 DEF Marked
    <3>3. \A t \in Thread : holder'[l] = t \/ Marked(code'[t], l) <=> t = current
      BY <2>1, <3>1, <3>2
    <3>4. Owners(l)' = {t \in Thread : holder'[l] = t \/ Marked(code'[t], l)}
      BY DEF Owners, Marked
    <3>5. QED
      BY <2>1, <3>3, <3>4
  <2>11. Takes(l) /\ Excl(l)'
    BY <2>1, <2>3, <2>4, <2>10 DEF Takes, Excl
  <2>12. Exclusive'
    BY <2>9, <2>11, <1>SameKeeps DEF Locking, Exclusive
  <2>13. QED
    BY <2>0, <2>1, <2>7, <2>8, <2>9, <2>11, <2>12 DEF Locking, Change
\* sema_up gives the semaphore of a lock back.
<1>GiveStep. ASSUME TypeOK, Locking, Done, code[current] # <<>>,
                    Head(code[current]).op = "up", NEW l \in Lock, Arg = l,
                    value' = [value EXCEPT ![l] = @ + 1], holder' = holder,
                    current' = current
             PROVE  Locking' /\ Change
  <2> USE <1>GiveStep
  <2> DEFINE s == code[current]
             r == Tail(s)
  <2>1. /\ current \in Thread /\ s \in Seq(Ins) /\ WellFormed(s) /\ s # <<>>
        /\ Head(s) = I("up", l)
        /\ code'[current] = r
        /\ \A t \in Thread : t # current => code'[t] = code[t]
        /\ Forms'
    BY <1>DoneFacts
  <2>2. Head(s).op = "up" /\ Head(s).arg = l
    BY DEF Arg
  <2> HIDE DEF s
  <2>3. value[l] = 0 /\ Owners(l) = {current}
    <3>1. current \in Owners(l)
      BY <2>1, OwnersAre DEF Marked, s
    <3>2. QED
      BY <3>1 DEF Locking, Exclusive, Excl
  <2>4. value'[l] = 1 /\ \A k \in Lock : k # l => value'[k] = value[k]
    <3>1. value \in [Sema -> Nat] /\ Lock \subseteq Sema
      BY DEF TypeOK, Sema
    <3>2. QED
      BY <2>3, <3>1, SMT
  <2>5. Quiet(r)
    BY <2>1, <2>2, <1>TailQuiet DEF DownOp
  <2>6. \A k \in Lock : Needs(r, k) => Needs(s, k)
    <3>1. \A k \in Lock : Needs(r, k) => Needs(s, k) \/ Head(s) = I("set_holder", k)
      BY <2>1, <1>TailForm
    <3>2. \A k \in Lock : Head(s) # I("set_holder", k)
      BY <2>2, InstrParts, SMT
    <3>3. QED
      BY <3>1, <3>2
  <2> HIDE DEF r
  <2>7. Owned'
    BY <2>1, <2>6 DEF Locking, Owned, s
  <2>8. Released'
    <3>1. \A k \in Lock : r # <<>> => Head(r) # I("up", k)
      BY <2>5, QuietUnmarked DEF Marked
    <3>2. QED
      BY <2>1, <3>1 DEF Locking, Released
  <2>9. ASSUME NEW k \in Lock \ {l} PROVE Same(k)
    <3>1. ~Marked(s, k)
      BY <2>2, <1>MarkedBy
    <3>2. ~Marked(r, k)
      BY <2>5, QuietUnmarked
    <3>3. value'[k] = value[k]
      BY <2>4
    <3>4. QED
      BY <2>1, <3>1, <3>2, <3>3, <1>OtherLocks DEF s
  <2>10. Owners(l)' = {}
    <3>1. holder[l] # current
      BY <2>1 DEF Locking, Released, s
    <3>2. \A t \in Thread : t # current => ~(holder[l] = t) /\ ~Marked(code[t], l)
      BY <2>3, OwnersAre
    <3>3. ~Marked(code'[current], l)
      BY <2>1, <2>5, QuietUnmarked
    <3>4. \A t \in Thread : ~(holder'[l] = t \/ Marked(code'[t], l))
      BY <2>1, <3>1, <3>2, <3>3
    <3>5. Owners(l)' = {t \in Thread : holder'[l] = t \/ Marked(code'[t], l)}
      BY DEF Owners, Marked
    <3>6. QED
      BY <3>4, <3>5
  <2>11. Gives(l) /\ Excl(l)'
    BY <2>3, <2>4, <2>10 DEF Gives, Excl
  <2>12. Exclusive'
    BY <2>9, <2>11, <1>SameKeeps DEF Locking, Exclusive
  <2>13. QED
    BY <2>1, <2>7, <2>8, <2>9, <2>11, <2>12 DEF Locking, Change
\* holder is set by the owner.
<1>SetStep. ASSUME TypeOK, Locking, Done, code[current] # <<>>,
                   Head(code[current]).op = "set_holder", NEW l \in Lock, Arg = l,
                   holder' = [holder EXCEPT ![l] = current], value' = value
            PROVE  Locking' /\ Change
  <2> USE <1>SetStep
  <2> DEFINE s == code[current]
             r == Tail(s)
  <2>1. /\ current \in Thread /\ s \in Seq(Ins) /\ WellFormed(s) /\ s # <<>>
        /\ Head(s) = I("set_holder", l)
        /\ code'[current] = r
        /\ \A t \in Thread : t # current => code'[t] = code[t]
        /\ Forms'
    BY <1>DoneFacts
  <2>2. Head(s).op = "set_holder" /\ Head(s).arg = l
    BY DEF Arg
  <2> HIDE DEF s
  <2>3. value[l] = 0 /\ Owners(l) = {current}
    <3>1. current \in Owners(l)
      BY <2>1, OwnersAre DEF Marked, s
    <3>2. QED
      BY <3>1 DEF Locking, Exclusive, Excl
  <2>4. holder'[l] = current /\ \A k \in Lock : k # l => holder'[k] = holder[k]
    BY DEF TypeOK
  <2>5. Quiet(r)
    BY <2>1, <2>2, <1>TailQuiet DEF DownOp
  <2>6. \A k \in Lock : Needs(r, k) => Needs(s, k) \/ k = l
    <3>1. \A k \in Lock : Needs(r, k) => Needs(s, k) \/ Head(s) = I("set_holder", k)
      BY <2>1, <1>TailForm
    <3>2. \A k \in Lock : Head(s) = I("set_holder", k) => k = l
      BY <2>2, InstrParts, SMT
    <3>3. QED
      BY <3>1, <3>2
  <2>a. \A t \in Thread : t # current => ~(holder[l] = t) /\ ~Marked(code[t], l)
    BY <2>3, OwnersAre
  <2> HIDE DEF r
  <2>7. Owned'
    <3>1. ASSUME NEW t \in Thread, NEW k \in Lock, Needs(code'[t], k)
          PROVE  holder'[k] = t
      <4>1. CASE t = current
        <5>1. Needs(s, k) \/ k = l
          BY <2>1, <2>6, <3>1, <4>1
        <5>2. Needs(s, k) => holder[k] = current
          BY <2>1 DEF Locking, Owned, s
        <5>3. QED
          BY <2>4, <4>1, <5>1, <5>2
      <4>2. CASE t # current
        <5>1. holder[k] = t
          BY <2>1, <3>1, <4>2 DEF Locking, Owned
        <5>2. k # l
          BY <2>a, <4>2, <5>1
        <5>3. QED
          BY <2>4, <5>1, <5>2
      <4>3. QED
        BY <4>1, <4>2
    <3>2. QED
      BY <3>1 DEF Owned
  <2>8. Released'
    <3>1. \A k \in Lock : r # <<>> => Head(r) # I("up", k)
      BY <2>5, QuietUnmarked DEF Marked
    <3>2. QED
      BY <2>1, <2>4, <3>1, SMT DEF Locking, Released
  <2>9. ASSUME NEW k \in Lock \ {l} PROVE Same(k)
    <3>1. ~Marked(s, k)
      BY <2>2, <1>MarkedBy
    <3>2. ~Marked(r, k)
      BY <2>5, QuietUnmarked
    <3>3. holder'[k] = holder[k]
      BY <2>4
    <3>4. QED
      BY <2>1, <3>1, <3>2, <3>3, <1>OtherLocks DEF s
  <2>10. Owners(l)' = {current}
    <3>1. \A t \in Thread : holder'[l] = t \/ Marked(code'[t], l) <=> t = current
      BY <2>1, <2>4, <2>a
    <3>2. Owners(l)' = {t \in Thread : holder'[l] = t \/ Marked(code'[t], l)}
      BY DEF Owners, Marked
    <3>3. QED
      BY <2>1, <3>1, <3>2
  <2>11. Same(l)
    BY <2>3, <2>10 DEF Same
  <2>12. \A k \in Lock : Same(k)
    BY <2>9, <2>11
  <2>13. Exclusive'
    BY <2>12, <1>SameKeeps DEF Locking, Exclusive
  <2>14. QED
    BY <2>1, <2>7, <2>8, <2>12, <2>13 DEF Locking, Change
\* holder is cleared by the owner, who still has to give the semaphore back.
<1>ClearStep. ASSUME TypeOK, Locking, Done, code[current] # <<>>,
                     Head(code[current]).op = "clear_holder", NEW l \in Lock, Arg = l,
                     holder' = [holder EXCEPT ![l] = NULL], value' = value
              PROVE  Locking' /\ Change
  <2> USE <1>ClearStep
  <2> DEFINE s == code[current]
             r == Tail(s)
  <2>1. /\ current \in Thread /\ s \in Seq(Ins) /\ WellFormed(s) /\ s # <<>>
        /\ Head(s) = I("clear_holder", l)
        /\ code'[current] = r
        /\ \A t \in Thread : t # current => code'[t] = code[t]
        /\ Forms'
    BY <1>DoneFacts
  <2>2. Head(s).op = "clear_holder" /\ Head(s).arg = l
    BY DEF Arg
  <2> HIDE DEF s
  <2>3. 1 \in 1 .. Len(s) /\ Head(s) = s[1]
    BY <2>1, HeadTail, EmptyList, SMT
  <2>4. holder[l] = current
    <3>1. Needs(s, l)
      BY <2>1, <2>3, SMT DEF Needs, Sets
    <3>2. QED
      BY <2>1, <3>1 DEF Locking, Owned, s
  <2>5. value[l] = 0 /\ Owners(l) = {current}
    <3>1. current \in Owners(l)
      BY <2>1, <2>4, OwnersAre
    <3>2. QED
      BY <3>1 DEF Locking, Exclusive, Excl
  <2>6. holder'[l] = NULL /\ \A k \in Lock : k # l => holder'[k] = holder[k]
    BY DEF TypeOK
  <2>7. r # <<>> /\ Head(r) = I("up", l)
    <3>1. 1 + 1 <= Len(s) /\ s[1 + 1] = I("up", l)
      BY <2>2, <2>3, <2>1 DEF WellFormed
    <3>2. QED
      BY <2>1, <3>1, <1>SecondInstr, SMT
  <2>8. \A k \in Lock : ~Needs(r, k)
    BY <2>1, <2>2, <1>TailForm
  <2>a. \A t \in Thread : t # current => ~Marked(code[t], l)
    BY <2>5, OwnersAre
  <2> HIDE DEF r
  <2>9. Owned'
    <3>1. ASSUME NEW t \in Thread, NEW k \in Lock, Needs(code'[t], k)
          PROVE  holder'[k] = t
      <4>1. t # current
        BY <2>1, <2>8, <3>1
      <4>2. holder[k] = t
        BY <2>1, <3>1, <4>1 DEF Locking, Owned
      <4>3. QED
        BY <2>4, <2>6, <4>1, <4>2
    <3>2. QED
      BY <3>1 DEF Owned
  <2>10. Released'
    <3>1. ASSUME NEW t \in Thread, NEW k \in Lock, code'[t] # <<>>,
                 Head(code'[t]) = I("up", k)
          PROVE  holder'[k] # t
      <4>1. holder'[l] # t
        BY <2>6, ThreadAssumption
      <4>2. CASE t = current
        <5>1. k = l
          BY <2>1, <2>7, <3>1, <4>2, InstrParts, SMT
        <5>2. QED
          BY <4>1, <5>1
      <4>3. CASE t # current
        <5>1. holder[k] # t
          BY <2>1, <3>1, <4>3 DEF Locking, Released
        <5>2. QED
          BY <2>6, <4>1, <5>1
      <4>4. QED
        BY <4>2, <4>3
    <3>2. QED
      BY <3>1 DEF Released
  <2>11. ASSUME NEW k \in Lock \ {l} PROVE Same(k)
    <3>1. ~Marked(s, k)
      BY <2>2, <1>MarkedBy
    <3>2. ~Marked(r, k)
      BY <2>7, <1>MarkedBy, InstrParts, SMT
    <3>3. holder'[k] = holder[k]
      BY <2>6
    <3>4. QED
      BY <2>1, <3>1, <3>2, <3>3, <1>OtherLocks DEF s
  <2>12. Owners(l)' = {current}
    <3>1. Marked(code'[current], l)
      BY <2>1, <2>7 DEF Marked
    <3>2. \A t \in Thread : holder'[l] # t
      BY <2>6, ThreadAssumption
    <3>3. \A t \in Thread : holder'[l] = t \/ Marked(code'[t], l) <=> t = current
      BY <2>1, <2>a, <3>1, <3>2
    <3>4. Owners(l)' = {t \in Thread : holder'[l] = t \/ Marked(code'[t], l)}
      BY DEF Owners, Marked
    <3>5. QED
      BY <2>1, <3>3, <3>4
  <2>13. \A k \in Lock : Same(k)
    BY <2>5, <2>11, <2>12 DEF Same
  <2>14. Exclusive'
    BY <2>13, <1>SameKeeps DEF Locking, Exclusive
  <2>15. QED
    BY <2>1, <2>9, <2>10, <2>13, <2>14 DEF Locking, Change
\* The effect of sema_up on a semaphore that is not a lock's.
<1>UpOther. ASSUME TypeOK, NEW u, u \notin Lock, Up(u)
            PROVE  holder' = holder /\ \A l \in Lock : value'[l] = value[l]
  BY <1>UpOther DEF Up, TypeOK, Sema
<1> SUFFICES ASSUME IInv, Locking, [Next]_vars PROVE Locking' /\ Change
  OBVIOUS
<1>1. TypeOK /\ SchedType /\ CodeType /\ current \in Thread /\ current \notin Lock
  <2>1. TypeOK /\ current \in Thread
    BY DEF IInv, TypeOK
  <2>2. QED
    BY <2>1, TypeParts, SynchAssumption
<1>2. \A op : At(current, op) => code[current] # <<>> /\ Head(code[current]).op = op
  BY DEF At
<1>3. Arg = Head(code[current]).arg
  BY DEF Arg
<1>4. ASSUME Done, NEW op, At(current, op), holder' = holder,
             \A l \in Lock : value'[l] = value[l],
             op \notin {"set_holder", "clear_holder"},
             op \in {"up"} \cup DownOp => Arg \notin Lock
      PROVE  Locking' /\ Change
  BY <1>1, <1>2, <1>3, <1>4, <1>OtherStep
<1>5. CASE SemaDownBlock
  <2> DEFINE s == code[current]
             r == <<I("retest", Arg)>> \o Tail(s)
  <2>1. s # <<>> /\ Head(s).op \in {"down", "retest"}
    BY <1>2, <1>5 DEF SemaDownBlock
  <2>2. s \in Seq(Ins) /\ WellFormed(s)
    BY <1>1 DEF TypeOK, Ins, Locking, Forms
  <2>3. WellFormed(r) /\ Quiet(r) /\ \A l \in Lock : Needs(r, l) => Needs(s, l)
    BY <2>1, <2>2, <1>RetestForm DEF Arg
  <2>4. Quiet(s)
    BY <2>1 DEF Quiet
  <2>5. \A l \in Lock : Needs(r, l) => holder[l] = current
    BY <1>1, <2>3 DEF Locking, Owned
  <2>6. Continue(r) /\ holder' = holder /\ value' = value
    BY <1>5 DEF SemaDownBlock
  <2> HIDE DEF r
  <2>7. QED
    BY <1>1, <2>3, <2>4, <2>5, <2>6, <1>QuietStep
<1>6. ASSUME NEW op \in DownOp, At(current, op), Done, holder' = holder,
             current' = current, value[Arg] > 0, value' = [value EXCEPT ![Arg] = @ - 1]
      PROVE  Locking' /\ Change
  <2>1. CASE Arg \in Lock
    <3>1. PICK l \in Lock : Arg = l
      BY <2>1
    <3>2. code[current] # <<>> /\ Head(code[current]).op \in DownOp
      BY <1>2, <1>6, SMT
    <3>3. value[l] > 0 /\ value' = [value EXCEPT ![l] = @ - 1]
      BY <1>6, <3>1
    <3>4. QED
      BY <1>1, <1>6, <3>1, <3>2, <3>3, <1>TakeStep
  <2>2. CASE Arg \notin Lock
    <3>1. \A l \in Lock : value'[l] = value[l]
      BY <1>1, <1>6, <2>2 DEF TypeOK, Sema
    <3>2. op \notin {"set_holder", "clear_holder"}
      BY DEF DownOp
    <3>3. QED
      BY <1>4, <1>6, <2>2, <3>1, <3>2
  <2>3. QED
    BY <2>1, <2>2
<1>7. CASE SemaDownTake
  <2>1. /\ Done /\ holder' = holder /\ current' = current /\ value[Arg] > 0
        /\ value' = [value EXCEPT ![Arg] = @ - 1]
        /\ At(current, "down") \/ At(current, "retest")
    BY <1>7 DEF SemaDownTake, Positive, schedVars
  <2>2. QED
    BY <1>6, <2>1 DEF DownOp
<1>8. CASE SemaTryDown
  <2>1. CASE value[Arg] > 0
    <3>1. /\ Done /\ holder' = holder /\ current' = current
          /\ At(current, "try_down")
          /\ value' = [value EXCEPT ![Arg] = @ - 1]
      BY <1>8, <2>1 DEF SemaTryDown, schedVars
    <3>2. QED
      BY <1>6, <2>1, <3>1 DEF DownOp
  <2>2. CASE ~(value[Arg] > 0)
    <3>1. Continue(<<>>) /\ holder' = holder /\ value' = value /\ At(current, "try_down")
      BY <1>8, <2>2 DEF SemaTryDown, GiveUp
    <3>2. WellFormed(<<>>) /\ Quiet(<<>>) /\ \A l \in Lock : ~Needs(<<>>, l)
      BY SMT DEF WellFormed, Quiet, Needs
    <3>3. Quiet(code[current])
      BY <1>2, <3>1, SMT DEF Quiet
    <3>4. QED
      BY <1>1, <3>1, <3>2, <3>3, <1>QuietStep
  <2>3. QED
    BY <2>1, <2>2
<1>9. CASE SemaUp
  <2>1. At(current, "up") /\ Up(Arg) /\ Done
    BY <1>9 DEF SemaUp
  <2>2. CASE Arg \in Lock
    <3>1. PICK l \in Lock : Arg = l
      BY <2>2
    <3>2. /\ value' = [value EXCEPT ![l] = @ + 1] /\ holder' = holder
          /\ current' = current
      BY <2>1, <3>1 DEF Up, ThreadUnblock, schedVars
    <3>3. QED
      BY <1>1, <1>2, <2>1, <3>1, <3>2, <1>GiveStep
  <2>3. CASE Arg \notin Lock
    <3>1. holder' = holder /\ \A l \in Lock : value'[l] = value[l]
      BY <1>1, <2>1, <2>3, <1>UpOther
    <3>2. QED
      BY <1>4, <2>1, <2>3, <3>1
  <2>4. QED
    BY <2>2, <2>3
<1>10. CASE SetHolder
  <2>1. /\ At(current, "set_holder") /\ Done /\ value' = value
        /\ holder' = [holder EXCEPT ![Arg] = current]
    BY <1>10 DEF SetHolder
  <2>2. Arg \in Lock
    BY <1>1, <2>1, HeadType DEF LockOp
  <2>3. PICK l \in Lock : Arg = l
    BY <2>2
  <2>4. holder' = [holder EXCEPT ![l] = current]
    BY <2>1, <2>3
  <2>5. QED
    BY <1>1, <1>2, <2>1, <2>3, <2>4, <1>SetStep
<1>11. CASE ClearHolder
  <2>1. /\ At(current, "clear_holder") /\ Done /\ value' = value
        /\ holder' = [holder EXCEPT ![Arg] = NULL]
    BY <1>11 DEF ClearHolder
  <2>2. Arg \in Lock
    BY <1>1, <2>1, HeadType DEF LockOp
  <2>3. PICK l \in Lock : Arg = l
    BY <2>2
  <2>4. holder' = [holder EXCEPT ![l] = NULL]
    BY <2>1, <2>3
  <2>5. QED
    BY <1>1, <1>2, <2>1, <2>3, <2>4, <1>ClearStep
<1>12. CASE CondPush
  <2>1. /\ At(current, "cond_push") /\ Done /\ holder' = holder
        /\ value' = [value EXCEPT ![current] = 0]
    BY <1>12 DEF CondPush
  <2>2. \A l \in Lock : value'[l] = value[l]
    BY <1>1, <2>1 DEF TypeOK, Sema
  <2>3. QED
    BY <1>4, <2>1, <2>2 DEF DownOp
<1>13. CASE CondSignal
  <2>1. /\ At(current, "signal") /\ holder' = holder /\ value' = value
        /\ \/ cond_waiters[Arg] = <<>> /\ Done
           \/ cond_waiters[Arg] # <<>> /\ UpCondWaiter(Arg)
    BY <1>13 DEF CondSignal
  <2>2. CASE Done
    BY <1>4, <2>1, <2>2 DEF DownOp
  <2>3. CASE cond_waiters[Arg] # <<>> /\ UpCondWaiter(Arg)
    <3> DEFINE s == code[current]
               u == Head(cond_waiters[Arg])
               x == I("up", u)
               r == <<x>> \o Tail(s)
    <3>1. Arg \in Cond
      BY <1>1, <2>1, HeadType DEF CondOp
    <3>2. u \in Thread /\ u \notin Lock
      <4>1. cond_waiters[Arg] \in Seq(Thread)
        BY <1>1, <3>1 DEF TypeOK
      <4>2. u \in Thread
        BY <2>3, <4>1, HeadTail
      <4>3. QED
        BY <4>2, SynchAssumption
    <3>3. s # <<>> /\ Head(s).op = "signal" /\ s \in Seq(Ins) /\ WellFormed(s)
      BY <1>1, <1>2, <2>1 DEF TypeOK, Ins, Locking, Forms
    <3>4. Continue(r)
      BY <2>3 DEF UpCondWaiter
    <3> HIDE DEF s, u
    <3>5. x \in Ins /\ x.op = "up" /\ x.arg = u
      BY <3>2, InstrType, InstrParts DEF Ins, SemaOp, Sema
    <3> HIDE DEF x
    <3>6. /\ WellFormed(Tail(s)) /\ Quiet(Tail(s)) /\ Tail(s) \in Seq(Ins)
          /\ \A l \in Lock : Needs(Tail(s), l) => Needs(s, l)
      <4>1. \A l \in Lock : Head(s) # I("set_holder", l)
        BY <3>3, InstrParts, SMT
      <4>2. Quiet(Tail(s))
        BY <3>3, <1>TailQuiet DEF DownOp
      <4>3. QED
        BY <3>3, <4>1, <4>2, <1>TailForm
    <3>7. /\ WellFormed(r) /\ Quiet(r)
          /\ \A l \in Lock : Needs(r, l) => Needs(Tail(s), l)
      BY <3>2, <3>5, <3>6, <1>PrependForm
    <3>8. \A l \in Lock : Needs(r, l) => holder[l] = current
      BY <1>1, <3>6, <3>7 DEF Locking, Owned, s
    <3>9. Quiet(code[current])
      BY <3>3 DEF Quiet, s
    <3> HIDE DEF r
    <3>10. QED
      BY <1>1, <2>1, <3>4, <3>7, <3>8, <3>9, <1>QuietStep
  <2>4. QED
    BY <2>1, <2>2, <2>3
<1>14. CASE CondBroadcast
  <2>1. /\ At(current, "broadcast") /\ holder' = holder /\ value' = value
        /\ Done \/ Continue(<<I("signal", Arg)>> \o code[current])
    BY <1>14 DEF CondBroadcast
  <2>2. CASE Done
    BY <1>4, <2>1, <2>2 DEF DownOp
  <2>3. CASE Continue(<<I("signal", Arg)>> \o code[current])
    <3> DEFINE s == code[current]
               x == I("signal", Arg)
               r == <<x>> \o s
    <3>1. Arg \in Cond
      BY <1>1, <2>1, HeadType DEF CondOp
    <3>2. x \in Ins /\ x.op = "signal"
      BY <3>1, InstrType, InstrParts DEF Ins, CondOp
    <3>3. s \in Seq(Ins) /\ WellFormed(s)
      BY <1>1 DEF TypeOK, Ins, Locking, Forms
    <3>4. Quiet(s)
      BY <1>2, <2>1, SMT DEF Quiet
    <3>5. Continue(r)
      BY <2>3
    <3> HIDE DEF s, x
    <3>6. WellFormed(r) /\ Quiet(r) /\ \A l \in Lock : Needs(r, l) => Needs(s, l)
      BY <3>2, <3>3, <3>4, <1>PrependForm DEF DownOp
    <3>7. \A l \in Lock : Needs(r, l) => holder[l] = current
      BY <1>1, <3>6 DEF Locking, Owned, s
    <3>8. Quiet(code[current])
      BY <3>4 DEF s
    <3> HIDE DEF r
    <3>9. QED
      BY <1>1, <2>1, <3>5, <3>6, <3>7, <3>8, <1>QuietStep
  <2>4. QED
    BY <2>1, <2>2, <2>3
<1>15. CASE \/ InitThread \/ ReadTid \/ WriteTid \/ Unblock \/ CreateFails \/ Yield
            \/ Exit \/ SetIdle
  <2>1. /\ Done /\ holder' = holder /\ value' = value
        /\ \E op \in {"init_thread", "read_tid", "write_tid", "unblock", "yield",
                      "exit", "set_idle"} : At(current, op)
    BY <1>15 DEF InitThread, ReadTid, WriteTid, Unblock, CreateFails, Yield, Exit,
                 SetIdle
  <2>2. QED
    BY <1>4, <2>1 DEF DownOp
<1>16. CASE IdleBlock \/ TimerInterrupt \/ UNCHANGED vars
  <2>1. code' = code /\ holder' = holder /\ value' = value
    BY <1>16 DEF IdleBlock, TimerInterrupt, synchVars, vars
  <2>2. QED
    BY <2>1, <1>NoStep
<1>17. CASE DeviceInterrupt
  <2>1. code' = code /\ \E u \in IntrSema : Up(u)
    BY <1>17 DEF DeviceInterrupt
  <2>2. \A u \in IntrSema : u \notin Lock
    BY SynchAssumption
  <2>3. holder' = holder /\ \A l \in Lock : value'[l] = value[l]
    BY <1>1, <2>1, <2>2, <1>UpOther
  <2>4. QED
    BY <2>1, <2>3, <1>NoStep
<1>18. CASE BeginCall
  <2>1. PICK body \in Calls : Continue(body)
    BY <1>18 DEF BeginCall
  <2>2. holder' = holder /\ value' = value /\ code[current] = <<>>
    BY <1>18 DEF BeginCall
  <2>3. /\ WellFormed(body) /\ Quiet(body)
        /\ \A l \in Lock : Needs(body, l) => holder[l] = current
    BY <1>1, CallsForm
  <2>4. Quiet(code[current])
    BY <2>2 DEF Quiet
  <2>5. QED
    BY <1>1, <2>1, <2>2, <2>3, <2>4, <1>QuietStep
<1>19. QED
  BY <1>5, <1>7, <1>8, <1>9, <1>10, <1>11, <1>12, <1>13, <1>14, <1>15, <1>16,
     <1>17, <1>18 DEF Next

\* The owner of a lock in the abstract specification.
LEMMA OwnerOf ==
  ASSUME NEW l \in Lock
  PROVE  /\ value[l] # 0 => Owner[l] = NULL
         /\ \A t : value[l] = 0 /\ Owners(l) = {t} => Owner[l] = t
<1>1. Owner[l] = IF value[l] # 0 THEN NULL ELSE CHOOSE t \in Owners(l) : TRUE
  BY DEF Owner
<1>2. \A t : (CHOOSE x \in {t} : TRUE) = t
  OBVIOUS
<1>3. QED
  BY <1>1, <1>2

\* A step of the kernel is a step of the abstract lock or none.
LEMMA MutexStep ==
  ASSUME TypeOK, TypeOK', Exclusive, Exclusive', Change
  PROVE  [AbstractMutex!Next]_<<Owner, current>>
<1> DEFINE own == Owner
           owned == Owner'
<1>1. /\ own = [l \in Lock |-> own[l]] /\ owned = [l \in Lock |-> owned[l]]
  BY SMT DEF Owner
<1>2. ASSUME NEW l \in Lock
      PROVE  /\ value[l] = 1 => own[l] = NULL
             /\ \A t : value[l] = 0 /\ Owners(l) = {t} => own[l] = t
             /\ value'[l] = 1 => owned[l] = NULL
             /\ \A t : value'[l] = 0 /\ Owners(l)' = {t} => owned[l] = t
  <2>1. /\ value[l] = 1 => own[l] = NULL
        /\ \A t : value[l] = 0 /\ Owners(l) = {t} => own[l] = t
    BY OwnerOf, SMT
  <2>2. owned[l] = IF value'[l] # 0 THEN NULL ELSE CHOOSE t \in Owners(l)' : TRUE
    BY DEF Owner
  <2>3. \A t : (CHOOSE x \in {t} : TRUE) = t
    OBVIOUS
  <2>4. QED
    BY <2>1, <2>2, <2>3, SMTT(30)
<1>3. ASSUME NEW l \in Lock, Same(l) PROVE owned[l] = own[l]
  <2>1. Excl(l)
    BY DEF Exclusive
  <2>2. CASE value[l] = 1
    BY <1>2, <1>3, <2>2 DEF Same
  <2>3. CASE value[l] = 0
    <3>1. PICK t \in Thread : Owners(l) = {t}
      BY <2>1, <2>3, SMT DEF Excl
    <3>2. QED
      BY <1>2, <1>3, <2>3, <3>1 DEF Same
  <2>4. QED
    BY <2>1, <2>2, <2>3 DEF Excl
<1>4. CASE \A l \in Lock : Same(l)
  <2>1. \A l \in Lock : owned[l] = own[l]
    BY <1>3, <1>4
  <2>2. owned = own
    <3> HIDE DEF own, owned
    <3> QED BY <1>1, <2>1
  <2>3. AbstractMutex!Switch
    BY <2>2 DEF AbstractMutex!Switch, TypeOK
  <2>4. QED
    BY <2>3 DEF AbstractMutex!Next
<1>5. ASSUME UNCHANGED current,
             NEW l \in Lock, Takes(l) \/ Gives(l), \A k \in Lock \ {l} : Same(k)
      PROVE  AbstractMutex!Next
  <2>1. \A k \in Lock : k # l => owned[k] = own[k]
    BY <1>3, <1>5
  <2>2. owned = [own EXCEPT ![l] = owned[l]]
    <3> HIDE DEF own, owned
    <3>1. own = [k \in Lock |-> own[k]] /\ owned = [k \in Lock |-> owned[k]]
      BY <1>1
    <3>2. QED
      BY <2>1, <3>1
  <2>3. CASE Takes(l)
    <3>1. own[l] = NULL /\ owned[l] = current
      BY <1>2, <2>3 DEF Takes
    <3>2. AbstractMutex!Acquire(l)
      BY <1>5, <2>2, <3>1 DEF AbstractMutex!Acquire
    <3>3. QED
      BY <3>2 DEF AbstractMutex!Next
  <2>4. CASE Gives(l)
    <3>1. own[l] = current /\ owned[l] = NULL
      BY <1>2, <2>4 DEF Gives
    <3>2. AbstractMutex!Release(l)
      BY <1>5, <2>2, <3>1 DEF AbstractMutex!Release
    <3>3. QED
      BY <3>2 DEF AbstractMutex!Next
  <2>5. QED
    BY <1>5, <2>3, <2>4
<1>6. QED
  BY <1>4, <1>5 DEF Change

\* The inductive invariant.
LEMMA LockInvariant == Spec => []LInv
<1>1. Init => LInv
  BY InitInv, InitLocking DEF LInv
<1>2. LInv /\ [Next]_vars => LInv'
  BY NextInv, LockStep DEF LInv
<1>3. QED
  BY <1>1, <1>2, PTL DEF Spec

(***************************************************************************)
(* Wakeups.                                                                *)
(***************************************************************************)
\* How threads are counted.  The laws of cardinality come with the theorems.
Counting ==
  \A S \in SUBSET Thread :
    /\ Cardinality(S) \in Nat
    /\ \A T \in SUBSET S : Cardinality(T) \in Nat /\ Cardinality(T) <= Cardinality(S)
    /\ \A x \in Thread : x \notin S => Cardinality(S \cup {x}) = Cardinality(S) + 1
    /\ \A x \in S : Cardinality(S \ {x}) = Cardinality(S) - 1

\* What NoLostWakeup says of one semaphore.
Matched(s) == waiters[s] # <<>> => value[s] <= Cardinality(Woken(s))

\* Every step keeps the wakeups.
LEMMA StepMatched ==
  Counting /\ IInv /\ IInv' /\ Waiting /\ NoLostWakeup /\ [Next]_vars => NoLostWakeup'
\* A woken thread stays woken until it runs.
<1>WokenKept. ASSUME TypeOK, NEW rest, Continue(rest), NEW s \in Sema,
                     \/ rest = code[current]
                     \/ code[current] = <<>>
                     \/ Head(code[current]) # I("retest", s),
                     \A t \in Elems(waiters'[s]) : t \in Elems(waiters[s])
              PROVE  Woken(s) \subseteq Woken(s)'
  <2> USE <1>WokenKept
  <2>1. /\ code'[current] = rest
        /\ \A t \in Thread : t # current => code'[t] = code[t]
    BY NewCode
  <2>2. ASSUME NEW t \in Woken(s) PROVE t \in Woken(s)'
    <3>1. /\ t \in Thread /\ code[t] # <<>> /\ Head(code[t]) = I("retest", s)
          /\ t \notin Elems(waiters[s])
      BY DEF Woken
    <3>2. code'[t] = code[t]
      BY <2>1, <3>1
    <3>3. t \notin Elems(waiters'[s])
      BY <3>1
    <3>4. QED
      BY <3>1, <3>2, <3>3 DEF Woken
  <2>3. QED
    BY <2>2
\* A step that adds neither to the value nor to an empty list.
<1>MatchedKept. ASSUME Counting, TypeOK, TypeOK', NEW s \in Sema, Matched(s),
                       waiters'[s] # <<>> => waiters[s] # <<>>,
                       value'[s] <= value[s], Woken(s) \subseteq Woken(s)'
                PROVE  Matched(s)'
  <2> USE <1>MatchedKept
  <2> DEFINE A == Woken(s)
             B == Woken(s)'
  <2>1. A \in SUBSET Thread /\ B \in SUBSET Thread /\ A \in SUBSET B
    BY DEF Woken
  <2>2. value[s] \in Nat /\ value'[s] \in Nat
    BY DEF TypeOK
  <2>3. waiters[s] # <<>> => value[s] <= Cardinality(A)
    BY DEF Matched
  <2> HIDE DEF A, B
  <2>4. Cardinality(A) \in Nat /\ Cardinality(B) \in Nat /\ Cardinality(A) <= Cardinality(B)
    BY <2>1 DEF Counting
  <2>5. waiters'[s] # <<>> => value'[s] <= Cardinality(B)
    BY <2>2, <2>3, <2>4, SMT
  <2>6. QED
    BY <2>5 DEF Matched, B
\* Steps that change no wait list and no value, or lower a value.
<1>QuietMatched. ASSUME Counting, TypeOK, TypeOK', NoLostWakeup, NEW rest, Continue(rest),
                        waiters' = waiters, \A s \in Sema : value'[s] <= value[s],
                        \/ rest = code[current]
                        \/ code[current] = <<>>
                        \/ Head(code[current]).op # "retest"
                 PROVE  NoLostWakeup'
  <2> USE <1>QuietMatched
  <2>1. ASSUME NEW s \in Sema PROVE Matched(s)'
    <3>1. Matched(s)
      BY DEF NoLostWakeup, Matched
    <3>2. \/ rest = code[current]
          \/ code[current] = <<>>
          \/ Head(code[current]) # I("retest", s)
      BY InstrIs
    <3>3. Woken(s) \subseteq Woken(s)'
      BY <3>2, <1>WokenKept
    <3>4. QED
      BY <3>1, <3>3, <1>MatchedKept
  <2>2. QED
    BY <2>1 DEF NoLostWakeup, Matched
\* sema_down blocks: the value is 0, and only the current thread sleeps.
<1>BlockMatched. ASSUME Counting, IInv, IInv', Waiting, NoLostWakeup, SemaDownBlock
                 PROVE  NoLostWakeup'
  <2> USE <1>BlockMatched
  <2>1. PICK r : r = Arg
    OBVIOUS
  <2> DEFINE c == code[current]
             rest == <<I("retest", r)>> \o Tail(c)
  <2>2. /\ c # <<>> /\ Head(c).op \in {"down", "retest"} /\ Continue(rest)
        /\ waiters' = [waiters EXCEPT ![r] = Append(@, current)]
        /\ value[r] = 0 /\ value' = value /\ r = Head(c).arg
    BY <2>1 DEF SemaDownBlock, JoinWaiters, At, Arg
  <2>3. TypeOK /\ TypeOK' /\ Head(c) \in Ins
    BY <2>2, Running DEF IInv
  <2>4. ASSUME NEW s \in Sema, s # r PROVE Matched(s)'
    <3>1. Matched(s)
      BY DEF NoLostWakeup, Matched
    <3>2. waiters'[s] = waiters[s] /\ value'[s] = value[s] /\ value[s] \in Nat
      BY <2>2, <2>3, <2>4 DEF TypeOK
    <3>3. Head(c) # I("retest", s)
      BY <2>2, <2>4, InstrIs, SMTT(30)
    <3> HIDE DEF rest
    <3>4. Woken(s) \subseteq Woken(s)'
      BY <2>2, <2>3, <3>2, <3>3, <1>WokenKept
    <3>5. QED
      BY <2>3, <3>1, <3>2, <3>4, <1>MatchedKept, SMT
  <2>5. ASSUME NEW s \in Sema, s = r PROVE Matched(s)'
    <3> DEFINE B == Woken(s)'
    <3>1. B \in SUBSET Thread
      BY DEF Woken
    <3> HIDE DEF B
    <3>2. Cardinality(B) \in Nat
      BY <3>1 DEF Counting
    <3>3. value'[s] = 0
      BY <2>2, <2>5
    <3>4. value'[s] <= Cardinality(B)
      BY <3>2, <3>3, SMT
    <3>5. QED
      BY <3>4 DEF Matched, B
  <2>6. QED
    BY <2>4, <2>5 DEF NoLostWakeup, Matched
\* sema_down takes a unit: a woken thread has used it.
<1>TakeMatched. ASSUME Counting, IInv, IInv', Waiting, NoLostWakeup, SemaDownTake
                PROVE  NoLostWakeup'
  <2> USE <1>TakeMatched
  <2>1. PICK r : r = Arg
    OBVIOUS
  <2> DEFINE c == code[current]
             rest == Tail(c)
  <2>2. /\ c # <<>> /\ Head(c).op \in {"down", "retest"} /\ Continue(rest)
        /\ waiters' = waiters /\ value[r] > 0 /\ r = Head(c).arg
        /\ value' = [value EXCEPT ![r] = @ - 1]
    BY <2>1 DEF SemaDownTake, Positive, At, Arg, Done
  <2>3. /\ TypeOK /\ TypeOK' /\ Head(c) \in Ins /\ current \in Thread
        /\ c \in Seq(Ins) /\ Shape(c) /\ status[current] = "RUNNING"
    BY <2>2, Running DEF IInv
  <2>4. r \in Sema
    <3>1. Head(c) \in Instr
      BY <2>2, <2>3 DEF Ins, IdleInstr
    <3>2. QED
      BY <2>2, <3>1, ArgType DEF SemaOp
  <2>5. /\ value'[r] = value[r] - 1 /\ value[r] \in Nat /\ value'[r] \in Nat
        /\ \A s \in Sema : s # r => value'[s] = value[s]
        /\ \A s \in Sema : value[s] \in Nat
    BY <2>2, <2>3, <2>4 DEF TypeOK
  <2> HIDE DEF rest
  <2>6. ASSUME NEW s \in Sema, s # r \/ Head(c).op = "down" PROVE Matched(s)'
    <3>1. Matched(s)
      BY DEF NoLostWakeup, Matched
    <3>2. value'[s] <= value[s]
      BY <2>5, SMT
    <3>3. Head(c) # I("retest", s)
      BY <2>2, <2>6, InstrIs, SMT
    <3>4. Woken(s) \subseteq Woken(s)'
      BY <2>2, <2>3, <3>3, <1>WokenKept
    <3>5. QED
      BY <2>2, <2>3, <3>1, <3>2, <3>4, <1>MatchedKept
  <2>7. CASE Head(c).op = "retest"
    <3> DEFINE A == Woken(r)
               B == Woken(r)'
    <3>1. Head(c) = I("retest", r)
      BY <2>2, <2>3, <2>7, InstrIs
    <3>2. current \notin Elems(waiters[r])
      BY <2>3, <2>4 DEF Waiting, Listed, Sleeps
    <3>3. current \in A
      BY <2>2, <2>3, <3>1, <3>2 DEF Woken
    <3>4. \A t \in Thread : t # current => code'[t] = code[t]
      BY <2>2, <2>3, NewCode
    <3>5. A \ {current} \subseteq B
      BY <2>2, <3>4 DEF Woken
    <3>6. A \in SUBSET Thread /\ B \in SUBSET Thread
      BY DEF Woken
    <3>7. waiters[r] # <<>> => value[r] <= Cardinality(A)
      BY <2>4 DEF NoLostWakeup
    <3> HIDE DEF A, B
    <3>8. /\ Cardinality(A) \in Nat /\ Cardinality(A \ {current}) = Cardinality(A) - 1
      BY <3>3, <3>6 DEF Counting
    <3>9. /\ Cardinality(B) \in Nat
          /\ Cardinality(A \ {current}) <= Cardinality(B)
      BY <3>5, <3>6 DEF Counting
    <3>10. waiters'[r] # <<>> => value'[r] <= Cardinality(B)
      BY <2>2, <2>5, <3>7, <3>8, <3>9, SMTT(30)
    <3>12. ASSUME NEW s \in Sema, s = r PROVE Matched(s)'
      BY <3>10, <3>12 DEF Matched, B
    <3>13. QED
      BY <2>6, <3>12 DEF NoLostWakeup, Matched
  <2>8. CASE Head(c).op = "down"
    BY <2>6, <2>8 DEF NoLostWakeup, Matched
  <2>9. QED
    BY <2>2, <2>7, <2>8
\* sema_up adds a unit and, if there is a list, a woken thread.
<1>UpMatched. ASSUME Counting, IInv, IInv', Waiting, NoLostWakeup, NEW r \in Sema, Up(r),
                     NEW rest, Continue(rest),
                     rest = code[current] \/ At(current, "up")
              PROVE  NoLostWakeup'
  <2> USE <1>UpMatched
  <2>1. /\ TypeOK /\ TypeOK' /\ current \in Thread /\ Listed
        /\ status[current] = "RUNNING"
    BY Running DEF IInv, Waiting
  <2>2. /\ value'[r] = value[r] + 1 /\ value[r] \in Nat
        /\ \A s \in Sema : s # r => value'[s] = value[s]
        /\ \A s \in Sema : value[s] \in Nat
    BY <2>1 DEF Up, TypeOK
  <2>3. \/ rest = code[current]
        \/ code[current] = <<>>
        \/ Head(code[current]).op # "retest"
    BY DEF At
  <2>4. \A s \in Sema : \/ rest = code[current]
                        \/ code[current] = <<>>
                        \/ Head(code[current]) # I("retest", s)
    BY <2>3, InstrIs
  <2>5. ASSUME NEW s \in Sema, s # r PROVE Matched(s)'
    <3>1. waiters'[s] = waiters[s]
      BY <2>1, <2>5 DEF Up, TypeOK
    <3>2. Woken(s) \subseteq Woken(s)'
      BY <2>1, <2>4, <3>1, <1>WokenKept
    <3>3. Matched(s)
      BY DEF NoLostWakeup, Matched
    <3>4. value'[s] <= value[s]
      BY <2>2, <2>5, SMT
    <3>5. QED
      BY <2>1, <3>1, <3>2, <3>3, <3>4, <1>MatchedKept
  <2>6. ASSUME NEW s \in Sema, s = r, waiters[r] = <<>> PROVE Matched(s)'
    <3>1. waiters'[s] = <<>>
      BY <2>1, <2>6 DEF Up, TypeOK
    <3>2. QED
      BY <3>1 DEF Matched
  <2>7. ASSUME NEW s \in Sema, s = r, waiters[r] # <<>> PROVE Matched(s)'
    <3> DEFINE A == Woken(s)
               B == Woken(s)'
               q == waiters[s]
    <3>1. q \in Seq(Thread) /\ q # <<>> /\ Distinct(q)
      BY <2>1, <2>7 DEF TypeOK, Listed
    <3>2. waiters'[s] = Tail(q)
      BY <2>1, <2>7 DEF Up, TypeOK
    <3>3. PICK x : x = Head(q)
      OBVIOUS
    <3>4. /\ x \in Thread /\ x \notin Elems(Tail(q))
          /\ Elems(q) = {x} \cup Elems(Tail(q))
      <4> HIDE DEF q
      <4>1. QED
        BY <3>1, <3>3, DistinctTail
    <3>5. x \notin A
      BY <3>4 DEF Woken
    <3>6. Sleeps(x, s)
      BY <2>1, <3>4 DEF Listed
    <3>7. A \subseteq B
      BY <2>1, <2>4, <3>2, <3>4, <1>WokenKept
    <3>8. x # current
      BY <2>1, <3>6 DEF Sleeps
    <3>9. code'[x] = code[x]
      BY <2>1, <3>4, <3>8, NewCode
    <3>10. x \in B
      BY <3>2, <3>4, <3>6, <3>9 DEF Woken, Sleeps
    <3>11. A \in SUBSET Thread /\ B \in SUBSET Thread
      BY DEF Woken
    <3>12. value[s] <= Cardinality(A)
      BY <2>7 DEF NoLostWakeup
    <3> HIDE DEF A, B
    <3>13. Cardinality(A) \in Nat /\ Cardinality(A \cup {x}) = Cardinality(A) + 1
      BY <3>4, <3>5, <3>11 DEF Counting
    <3>14. Cardinality(B) \in Nat /\ Cardinality(A \cup {x}) <= Cardinality(B)
      BY <3>7, <3>10, <3>11 DEF Counting
    <3>15. value'[s] <= Cardinality(B)
      BY <2>2, <2>7, <3>12, <3>13, <3>14, SMTT(30)
    <3>16. QED
      BY <3>15 DEF Matched, B
  <2>8. QED
    BY <2>5, <2>6, <2>7 DEF NoLostWakeup, Matched
<1> SUFFICES ASSUME Counting, IInv, IInv', Waiting, NoLostWakeup, [Next]_vars
             PROVE  NoLostWakeup'
  OBVIOUS
<1>1. /\ TypeOK /\ TypeOK' /\ current \in Thread
      /\ \A s \in Sema : value[s] \in Nat
  BY DEF IInv, TypeOK
<1>2. CASE UNCHANGED vars
  BY <1>2 DEF vars, NoLostWakeup, Woken
<1>3. CASE SemaDownBlock
  BY <1>3, <1>BlockMatched
<1>4. CASE SemaDownTake
  BY <1>4, <1>TakeMatched
<1>5. CASE SemaUp
  <2>1. PICK r : r = Arg
    OBVIOUS
  <2>2. /\ code[current] # <<>> /\ Head(code[current]).op = "up"
        /\ At(current, "up") /\ Up(r) /\ Continue(Tail(code[current]))
        /\ r = Head(code[current]).arg
    BY <1>5, <2>1 DEF SemaUp, At, Arg, Done
  <2>3. Head(code[current]) \in Instr
    BY <2>2, Running DEF Ins, IdleInstr
  <2>4. r \in Sema
    BY <2>2, <2>3, ArgType DEF SemaOp
  <2>5. QED
    BY <2>2, <2>4, <1>UpMatched
<1>6. CASE DeviceInterrupt
  <2>1. PICK r \in IntrSema : Up(r)
    BY <1>6 DEF DeviceInterrupt
  <2>2. r \in Sema
    BY SynchAssumption DEF Sema
  <2>3. Continue(code[current])
    BY <1>1, <1>6 DEF DeviceInterrupt, Continue, TypeOK
  <2>4. QED
    BY <2>1, <2>2, <2>3, <1>UpMatched
<1>7. CASE IdleBlock \/ TimerInterrupt
  <2>1. waiters' = waiters /\ value' = value /\ code' = code
    BY <1>7 DEF IdleBlock, TimerInterrupt, synchVars
  <2>2. Continue(code[current])
    BY <1>1, <2>1 DEF Continue, TypeOK
  <2>3. \A s \in Sema : value'[s] <= value[s]
    BY <1>1, <2>1, SMT
  <2>4. QED
    BY <1>1, <2>1, <2>2, <2>3, <1>QuietMatched
<1>8. CASE SemaTryDown \/ SetHolder \/ ClearHolder \/ CondPush \/ CondSignal
             \/ CondBroadcast \/ InitThread \/ ReadTid \/ WriteTid \/ Unblock
             \/ CreateFails \/ Yield \/ Exit \/ SetIdle \/ BeginCall
  <2>1. \/ code[current] = <<>>
        \/ Head(code[current]).op # "retest"
    BY <1>8 DEF SemaTryDown, SetHolder, ClearHolder, CondPush, CondSignal,
                CondBroadcast, InitThread, ReadTid, WriteTid, Unblock, CreateFails, Yield,
                Exit, SetIdle, BeginCall, At
  <2>2. waiters' = waiters
    BY <1>8 DEF SemaTryDown, SetHolder, ClearHolder, CondPush, CondSignal,
                CondBroadcast, InitThread, ReadTid, WriteTid, Unblock, CreateFails, Yield,
                Exit, SetIdle, BeginCall
  <2>3. \E rest : Continue(rest)
    BY <1>8 DEF SemaTryDown, SetHolder, ClearHolder, CondPush, CondSignal,
                CondBroadcast, InitThread, ReadTid, WriteTid, Unblock, CreateFails, Yield,
                Exit, SetIdle, BeginCall, Done, GiveUp, UpCondWaiter
  <2>4. \A s \in Sema : value'[s] <= value[s]
    <3>1. CASE SemaTryDown
      <4>1. CASE value' = value
        BY <1>1, <4>1, SMT
      <4>2. ASSUME NEW r, r = Arg, value' = [value EXCEPT ![r] = @ - 1]
            PROVE  \A s \in Sema : value'[s] <= value[s]
        <5>1. Head(code[current]) \in Instr /\ Head(code[current]).op = "try_down"
          BY <3>1, Running DEF SemaTryDown, At, Ins, IdleInstr
        <5>2. r \in Sema
          BY <4>2, <5>1, ArgType DEF SemaOp, Arg
        <5>3. /\ value'[r] = value[r] - 1
              /\ \A s \in Sema : s # r => value'[s] = value[s]
          BY <1>1, <4>2, <5>2 DEF TypeOK
        <5>4. QED
          BY <1>1, <5>2, <5>3, SMT
      <4>3. QED
        BY <3>1, <4>1, <4>2 DEF SemaTryDown
    <3>2. CASE CondPush
      BY <1>1, <3>2, SMT DEF CondPush, TypeOK
    <3>3. CASE value' = value
      BY <1>1, <3>3, SMT
    <3>4. QED
      BY <1>8, <3>1, <3>2, <3>3
         DEF SetHolder, ClearHolder, CondSignal, CondBroadcast, InitThread,
             ReadTid, WriteTid, Unblock, CreateFails, Yield, Exit, SetIdle, BeginCall
  <2>5. QED
    BY <1>1, <2>1, <2>2, <2>3, <2>4, <1>QuietMatched
<1>9. QED
  BY <1>2, <1>3, <1>4, <1>5, <1>6, <1>7, <1>8 DEF Next

(***************************************************************************)
(* Signals.                                                                *)
(***************************************************************************)
\* Neither on a condition nor on the semaphore of a waiter.
Apart(x) == /\ x.op \notin {"cond_push", "signal", "broadcast"}
            /\ x.op \in SemaOp => x.arg \notin Thread

Wakes(x) == x.op = "up" /\ x.arg \in Thread

\* The code of a signaller: what it still has to signal, after the up of the
\* waiter that it has taken off a list.
Signals(s) ==
  \A i \in 1 .. Len(s) : s[i].op \in {"signal", "broadcast"} \/ (i = 1 /\ Wakes(s[i]))

\* The code of cond_wait, up to its sema_down: one instruction sleeps on the
\* thread's own semaphore, and joining the list can only come first.
SleepsAt(s, t, k) ==
  /\ s[k].op \in {"down", "retest"} /\ s[k].arg = t
  /\ \A i \in 1 .. Len(s) : i # k =>
       IF s[i].op = "cond_push" THEN i = 1 ELSE Apart(s[i]) /\ s[i].op # "try_down"

WillSleep(s, t) == \E k \in 1 .. Len(s) : SleepsAt(s, t, k)

Role(s, t) == \/ \A i \in 1 .. Len(s) : Apart(s[i])
              \/ Signals(s)
              \/ WillSleep(s, t)

Roles == \A t \in Thread : Role(code[t], t)

\* t has joined the list and has not returned from its sema_down.
Awaits(s, t) == WillSleep(s, t) /\ s[1].op # "cond_push"

\* Where the signal for t is: not given yet, taken and not delivered,
\* delivered.
Enlisted(t) == \E c \in Cond : t \in Elems(cond_waiters[c])
WokenBy(u, t) == code[u] # <<>> /\ Head(code[u]) = I("up", t)
InFlight(t) == \E u \in Thread : WokenBy(u, t)

\* A thread that waits is at exactly one of these places, any other at none.
Signal(t) ==
  /\ value[t] \in {0, 1}
  /\ Enlisted(t) => Awaits(code[t], t) /\ ~InFlight(t) /\ value[t] = 0
  /\ InFlight(t) => Awaits(code[t], t) /\ value[t] = 0
  /\ value[t] = 1 => Awaits(code[t], t)
  /\ Awaits(code[t], t) => Enlisted(t) \/ InFlight(t) \/ value[t] = 1
  /\ \A u, v \in Thread : WokenBy(u, t) /\ WokenBy(v, t) => u = v

\* The lists of the conditions share no waiter.
Lists ==
  /\ \A c \in Cond : Distinct(cond_waiters[c])
  /\ \A c, d \in Cond : \A t \in Elems(cond_waiters[c]) :
       t \in Elems(cond_waiters[d]) => c = d

Signalling == Roles /\ Lists /\ \A t \in Thread : Signal(t)

\* The instruction that sleeps has none of the other parts.
LEMMA SleepIs ==
  ASSUME NEW t \in Thread, NEW s, NEW k \in 1 .. Len(s), SleepsAt(s, t, k)
  PROVE  /\ ~Apart(s[k]) /\ ~Wakes(s[k])
         /\ s[k].op \notin {"signal", "broadcast", "cond_push", "try_down"}
  BY DEF SleepsAt, Apart, Wakes, SemaOp

\* Neither code that is apart nor a signaller's sleeps.
LEMMA NoSleep ==
  ASSUME NEW t \in Thread, NEW s,
         (\A i \in 1 .. Len(s) : Apart(s[i])) \/ Signals(s)
  PROVE  ~WillSleep(s, t) /\ ~Awaits(s, t)
  BY SleepIs DEF WillSleep, Awaits, Signals

\* An instruction is done.
LEMMA TailRole ==
  ASSUME NEW t \in Thread, NEW s \in Seq(Ins), s # <<>>, Role(s, t)
  PROVE  /\ Role(Tail(s), t)
         /\ Tail(s) # <<>> => ~Wakes(Head(Tail(s)))
         /\ Head(s).op = "cond_push" => ~Awaits(s, t) /\ Awaits(Tail(s), t)
         /\ Head(s).op \in {"down", "retest"} /\ Head(s).arg \in Thread =>
              Head(s).arg = t /\ Awaits(s, t) /\ ~Awaits(Tail(s), t)
         /\ Head(s).op # "cond_push"
              /\ ~(Head(s).op \in {"down", "retest"} /\ Head(s).arg \in Thread) =>
                (Awaits(Tail(s), t) <=> Awaits(s, t))
         /\ Head(s).op = "try_down" => Head(s).arg \notin Thread /\ ~Awaits(s, t)
         /\ Head(s).op \in {"signal", "broadcast"} \/ Wakes(Head(s)) =>
              /\ Signals(s) /\ ~Awaits(s, t) /\ Tail(s) \in Seq(Ins)
              /\ \A i \in 1 .. Len(Tail(s)) : Tail(s)[i].op \in {"signal", "broadcast"}
<1>1. PICK r : r = Tail(s)
  OBVIOUS
<1>2. /\ r \in Seq(Ins) /\ Len(s) \in Nat /\ Len(s) >= 1 /\ Len(r) = Len(s) - 1
      /\ \A i \in 1 .. Len(r) : r[i] = s[i + 1]
      /\ Head(s) = s[1]
  BY <1>1, Ends
<1>3. \A i \in 1 .. Len(r) : i + 1 \in 1 .. Len(s) /\ i + 1 # 1
  BY <1>2, SMT
<1>4. 1 \in 1 .. Len(s)
  BY <1>2, SMT
<1>5. r # <<>> => 1 \in 1 .. Len(r) /\ Head(r) = r[1]
  <2>1. r # <<>> => Len(r) >= 1 /\ Head(r) = r[1]
    BY <1>2, Ends
  <2>2. QED
    BY <1>2, <2>1, SMT
<1>6. CASE \A i \in 1 .. Len(s) : Apart(s[i])
  <2>1. \A i \in 1 .. Len(r) : Apart(r[i])
    BY <1>2, <1>3, <1>6
  <2>2. ~Awaits(s, t) /\ ~Awaits(r, t)
    BY <1>6, <2>1, NoSleep
  <2>3. Apart(Head(s)) /\ (r # <<>> => Apart(Head(r)))
    BY <1>2, <1>4, <1>5, <1>6, <2>1
  <2>4. QED
    BY <1>1, <2>1, <2>2, <2>3 DEF Role, Apart, Wakes, SemaOp
<1>7. CASE Signals(s)
  <2>1. \A i \in 1 .. Len(r) : r[i].op \in {"signal", "broadcast"}
    BY <1>2, <1>3, <1>7 DEF Signals
  <2>2. Signals(r)
    BY <2>1 DEF Signals
  <2>3. ~Awaits(s, t) /\ ~Awaits(r, t)
    BY <1>7, <2>2, NoSleep
  <2>4. Head(s).op \in {"signal", "broadcast"} \/ Wakes(Head(s))
    BY <1>2, <1>4, <1>7 DEF Signals
  <2>5. r # <<>> => Head(r).op \in {"signal", "broadcast"}
    BY <1>5, <2>1
  <2>6. QED
    BY <1>1, <1>2, <1>7, <2>1, <2>2, <2>3, <2>4, <2>5 DEF Role, Wakes
<1>8. ASSUME NEW k \in 1 .. Len(s), SleepsAt(s, t, k), k = 1
      PROVE  /\ \A i \in 1 .. Len(r) : Apart(r[i])
             /\ Head(s).op \in {"down", "retest"} /\ Head(s).arg = t
  BY <1>2, <1>3, <1>8 DEF SleepsAt
<1>9. ASSUME NEW k \in 1 .. Len(s), SleepsAt(s, t, k), k # 1
      PROVE  /\ Awaits(r, t)
             /\ r # <<>> /\ ~Wakes(r[1])
             /\ Head(s).op = "cond_push" \/ (Apart(Head(s)) /\ Head(s).op # "try_down")
  <2>1. k - 1 \in 1 .. Len(r) /\ k - 1 + 1 = k /\ \A i \in 1 .. Len(r) : i # k - 1 => i + 1 # k
    BY <1>2, <1>9, SMT
  <2>2. r[k - 1] = s[k]
    BY <1>2, <2>1
  <2>3. ASSUME NEW i \in 1 .. Len(r), i # k - 1
        PROVE  r[i].op # "cond_push" /\ Apart(r[i]) /\ r[i].op # "try_down"
    BY <1>2, <1>3, <1>9, <2>1, <2>3 DEF SleepsAt
  <2>4. SleepsAt(r, t, k - 1)
    BY <1>9, <2>2, <2>3 DEF SleepsAt
  <2>5. /\ ~Apart(s[k]) /\ ~Wakes(s[k]) /\ s[k].op # "cond_push"
    BY <1>9, SleepIs
  <2>6. 1 \in 1 .. Len(r)
    BY <1>2, <2>1, SMT
  <2>7. r[1].op # "cond_push" /\ ~Wakes(r[1])
    BY <2>2, <2>3, <2>5, <2>6 DEF Apart, Wakes, SemaOp
  <2>8. r # <<>>
    BY <1>2, <2>6, EmptyList, SMT
  <2>9. QED
    BY <1>2, <1>4, <1>9, <2>1, <2>4, <2>7, <2>8 DEF Awaits, WillSleep, SleepsAt
<1>10. CASE WillSleep(s, t)
  <2>1. PICK k \in 1 .. Len(s) : SleepsAt(s, t, k)
    BY <1>10 DEF WillSleep
  <2>2. CASE k = 1
    <3>1. /\ \A i \in 1 .. Len(r) : Apart(r[i])
          /\ Head(s).op \in {"down", "retest"} /\ Head(s).arg = t
      BY <1>8, <2>1, <2>2
    <3>2. Awaits(s, t) /\ ~Awaits(r, t)
      BY <1>2, <1>10, <3>1, NoSleep DEF Awaits
    <3>3. r # <<>> => ~Wakes(Head(r))
      BY <1>5, <3>1 DEF Apart, Wakes, SemaOp
    <3>4. QED
      BY <1>1, <3>1, <3>2, <3>3 DEF Role, Wakes
  <2>3. CASE k # 1
    <3>1. /\ Awaits(r, t)
          /\ r # <<>> /\ ~Wakes(r[1])
          /\ Head(s).op = "cond_push" \/ (Apart(Head(s)) /\ Head(s).op # "try_down")
      BY <1>9, <2>1, <2>3
    <3>2. Role(r, t)
      BY <3>1 DEF Role, Awaits
    <3>3. Awaits(s, t) <=> Head(s).op # "cond_push"
      BY <1>2, <1>10 DEF Awaits
    <3>4. QED
      BY <1>1, <1>5, <3>1, <3>2, <3>3 DEF Apart, Wakes, SemaOp
  <2>4. QED
    BY <2>2, <2>3
<1>11. QED
  BY <1>6, <1>7, <1>10 DEF Role

\* Code that is at an end.
LEMMA EmptyRole ==
  ASSUME NEW t \in Thread
  PROVE  Role(<<>>, t) /\ ~Awaits(<<>>, t)
<1>1. \A i \in 1 .. Len(<<>>) : FALSE
  BY SMT
<1>2. QED
  BY <1>1, NoSleep DEF Role

\* Code of one instruction.
LEMMA OneRole ==
  ASSUME NEW t \in Thread, NEW op, NEW arg,
         \/ Apart(I(op, arg))
         \/ op \in {"signal", "broadcast"}
  PROVE  \E r : /\ r = <<I(op, arg)>>
                /\ Role(r, t) /\ ~Awaits(r, t) /\ ~Wakes(Head(r))
<1> DEFINE r == <<I(op, arg)>>
<1>1. Len(r) = 1 /\ r[1] = I(op, arg) /\ Head(r) = r[1]
  BY SMT
<1>2. \A i \in 1 .. Len(r) : i = 1
  BY <1>1, SMT
<1> HIDE DEF r
<1>3. I(op, arg).op = op /\ I(op, arg).arg = arg
  BY InstrParts
<1>4. (\A i \in 1 .. Len(r) : Apart(r[i])) \/ Signals(r)
  BY <1>1, <1>2, <1>3 DEF Signals
<1>5. ~Wakes(Head(r))
  BY <1>1, <1>3 DEF Wakes, Apart, SemaOp
<1>6. QED
  BY <1>4, <1>5, NoSleep DEF Role, r

\* A call has not joined a list yet, and wakes nobody before it has looked at
\* the list.
LEMMA CallsRole ==
  ASSUME TypeOK, NEW body \in Calls
  PROVE  /\ Role(body, current) /\ ~Awaits(body, current)
         /\ body # <<>> => ~Wakes(Head(body))
<1>1. current \in Thread
  BY DEF TypeOK
<1>2. CASE \E op \in {"down", "try_down", "up"} : \E s \in Plain : body = <<I(op, s)>>
  <2>1. PICK op \in {"down", "try_down", "up"}, s \in Plain : body = <<I(op, s)>>
    BY <1>2
  <2>2. Apart(I(op, s))
    BY InstrParts, SynchAssumption DEF Apart
  <2>3. QED
    BY <1>1, <2>1, <2>2, OneRole
<1>3. ASSUME NEW l \in Lock, NEW a, NEW b,
             a.op \notin {"cond_push", "signal", "broadcast"}, a.arg = l,
             b.op \notin {"cond_push", "signal", "broadcast"}, b.arg = l,
             body = <<a, b>>
      PROVE  Role(body, current) /\ ~Awaits(body, current) /\ ~Wakes(Head(body))
  <2>1. Len(body) = 2 /\ body[1] = a /\ body[2] = b /\ Head(body) = a
    BY <1>3, SMT
  <2>2. \A i \in 1 .. Len(body) : i = 1 \/ i = 2
    BY <2>1, SMT
  <2>3. l \notin Thread
    BY SynchAssumption
  <2>4. Apart(a) /\ Apart(b) /\ ~Wakes(a)
    BY <1>3, <2>3 DEF Apart, Wakes
  <2>5. \A i \in 1 .. Len(body) : Apart(body[i])
    BY <2>1, <2>2, <2>4
  <2>6. QED
    BY <1>1, <2>1, <2>4, <2>5, NoSleep DEF Role
<1>4. CASE \E l \in Lock : body \in {LockAcquire(l), LockTryAcquire(l), LockRelease(l)}
  <2>1. PICK l \in Lock : body \in {LockAcquire(l), LockTryAcquire(l), LockRelease(l)}
    BY <1>4
  <2>2. PICK a, b \in {"down", "try_down", "up", "set_holder", "clear_holder"} :
          body = <<I(a, l), I(b, l)>>
    BY <2>1 DEF LockAcquire, LockTryAcquire, LockRelease
  <2>3. I(a, l).op = a /\ I(a, l).arg = l /\ I(b, l).op = b /\ I(b, l).arg = l
    BY InstrParts
  <2>4. QED
    BY <1>3, <2>2, <2>3
<1>5. CASE \E c \in Cond : body = CondWait(c, current)
  <2>1. PICK c \in Cond : body = CondWait(c, current)
    BY <1>5
  <2>p. PICK r, l : /\ CondWait(c, current) = r /\ LockOf[c] = l /\ l \in Lock
                     /\ WaitCode(r, l, current)
    BY <1>1, CondWaitIs
  <2>2. body = r /\ l \in Lock
    BY <2>1, <2>p
  <2>3. l \notin Thread
    BY <2>2, SynchAssumption
  <2>4. /\ 4 \in 1 .. Len(r)
        /\ \A i \in 1 .. Len(r) : i = 1 \/ i = 2 \/ i = 3 \/ i = 4 \/ i = 5 \/ i = 6
    BY <2>p, SMTT(30) DEF WaitCode
  <2>5. SleepsAt(r, current, 4)
    BY <2>p, <2>3, <2>4, ZenonT(30) DEF WaitCode, SleepsAt, Apart
  <2>6. QED
    BY <2>p, <2>2, <2>4, <2>5 DEF WaitCode, Role, WillSleep, Awaits, Wakes
<1>6. CASE \E c \in Cond : body \in {<<I("signal", c)>>, <<I("broadcast", c)>>}
  BY <1>1, <1>6, OneRole
<1>7. CASE \E t \in Thread : body = ThreadCreate(t)
  <2>1. PICK t \in Thread : body = ThreadCreate(t)
    BY <1>7
  <2>p. PICK r, l : ThreadCreate(t) = r /\ l \in Lock /\ CreateCode(r, l)
    BY CreateIs
  <2>2. body = r /\ l \in Lock
    BY <2>1, <2>p
  <2>3. l \notin Thread
    BY <2>2, SynchAssumption
  <2>4. \A i \in 1 .. Len(r) : \/ i = 1 \/ i = 2 \/ i = 3 \/ i = 4
                               \/ i = 5 \/ i = 6 \/ i = 7 \/ i = 8
    BY <2>p, SMT DEF CreateCode
  <2>5. \A i \in 1 .. Len(r) : Apart(r[i])
    <3>1. Apart(r[1]) /\ Apart(r[4]) /\ Apart(r[5]) /\ Apart(r[8])
      BY <2>p DEF CreateCode, Apart, SemaOp
    <3>2. Apart(r[2]) /\ Apart(r[3]) /\ Apart(r[6]) /\ Apart(r[7])
      BY <2>p, <2>3 DEF CreateCode, Apart
    <3>3. QED
      BY <2>4, <3>1, <3>2
  <2>6. QED
    BY <1>1, <2>p, <2>2, <2>5, NoSleep DEF CreateCode, Role, Wakes
<1>8. CASE body \in {<<I("yield", current)>>, <<I("exit", current)>>}
  <2>1. Apart(I("yield", current)) /\ Apart(I("exit", current))
    <3>1. I("yield", current).op = "yield" /\ I("exit", current).op = "exit"
      BY InstrParts
    <3>2. QED
      BY <3>1 DEF Apart, SemaOp
  <2>2. QED
    BY <1>1, <1>8, <2>1, OneRole
<1>9. QED
  BY <1>2, <1>4, <1>5, <1>6, <1>7, <1>8, CallsCases

(***************************************************************************)
(* Steps.                                                                  *)
(***************************************************************************)
\* When the kernel starts nobody waits.
LEMMA InitSignal == Init => Signalling
<1> SUFFICES ASSUME Init PROVE Signalling
  OBVIOUS
<1>1. ASSUME NEW t \in Thread
      PROVE  /\ Role(code[t], t) /\ ~Awaits(code[t], t)
             /\ code[t] # <<>> => ~Wakes(Head(code[t]))
  <2>1. Apart(I("down", idle_started))
    BY InstrParts, SynchAssumption DEF Apart
  <2>2. CASE code[t] = <<I("down", idle_started)>>
    BY <2>1, <2>2, OneRole
  <2>3. CASE code[t] = IdleBody
    <3>1. PICK r, a, b, c : r = IdleBody /\ a = I("set_idle", Idle)
                            /\ b = I("up", idle_started) /\ c = I("block", Idle)
      OBVIOUS
    <3>2. Len(r) = 3 /\ r[1] = a /\ r[2] = b /\ r[3] = c /\ Head(r) = a
      BY <3>1, SMT DEF IdleBody
    <3>3. \A i \in 1 .. Len(r) : i = 1 \/ i = 2 \/ i = 3
      BY <3>2, SMT
    <3>4. a.op = "set_idle" /\ b.op = "up" /\ b.arg = idle_started /\ c.op = "block"
      BY <3>1, InstrParts
    <3>5. idle_started \notin Thread
      BY SynchAssumption
    <3>6. Apart(a) /\ Apart(b) /\ Apart(c) /\ ~Wakes(a)
      BY <3>4, <3>5 DEF Apart, Wakes, SemaOp
    <3>7. \A i \in 1 .. Len(r) : Apart(r[i])
      BY <3>2, <3>3, <3>6
    <3>8. QED
      BY <2>3, <3>1, <3>2, <3>6, <3>7, NoSleep DEF Role
  <2>4. CASE code[t] = <<>>
    BY <2>4, EmptyRole
  <2>5. QED
    BY <2>2, <2>3, <2>4, SMT DEF Init
<1>2. \A c \in Cond : cond_waiters[c] = <<>>
  BY DEF Init
<1>3. Elems(<<>>) = {} /\ Distinct(<<>>)
  BY SMT DEF Elems, Distinct
<1>4. Lists
  BY <1>2, <1>3 DEF Lists
<1>5. ASSUME NEW t \in Thread PROVE Signal(t)
  <2>1. value[t] = 0
    <3>1. t \in Sema /\ t \notin Lock
      BY SynchAssumption DEF Sema
    <3>2. QED
      BY <3>1 DEF Init
  <2>2. ~Enlisted(t)
    BY <1>2, <1>3 DEF Enlisted
  <2>3. I("up", t).op = "up" /\ I("up", t).arg = t
    BY InstrParts
  <2>4. \A u \in Thread : ~WokenBy(u, t)
    BY <1>1, <2>3 DEF WokenBy, Wakes
  <2>5. value[t] # 1
    BY <2>1, SMT
  <2>6. QED
    BY <1>1, <2>1, <2>2, <2>4, <2>5 DEF Signal, InFlight
<1>6. QED
  BY <1>1, <1>4, <1>5 DEF Signalling, Roles

\* Every step keeps the signals.
LEMMA StepSignal == IInv /\ Signalling /\ [Next]_vars => Signalling'
\* sema_down that blocks: the test is made again.
<1>RetestRole. ASSUME NEW t \in Thread, NEW s \in Seq(Ins), s # <<>>, Role(s, t),
                      Head(s).op \in {"down", "retest"}
               PROVE  \E r : /\ r = <<I("retest", Head(s).arg)>> \o Tail(s)
                             /\ Role(r, t) /\ (Awaits(r, t) <=> Awaits(s, t))
                             /\ r # <<>> /\ ~Wakes(Head(r))
  <2> USE <1>RetestRole
  <2> DEFINE x == I("retest", Head(s).arg)
             r == <<x>> \o Tail(s)
  <2>1. /\ Len(s) \in Nat /\ Len(s) > 0 /\ Len(r) = Len(s) /\ r # <<>>
        /\ r[1] = x /\ Head(r) = x /\ Head(s) = s[1]
        /\ \A i \in 1 .. Len(s) : i = 1 \/ r[i] = s[i]
    BY HeadTail, EmptyList, Join, SMT
  <2>2. x.op = "retest" /\ x.arg = s[1].arg
    BY <2>1, InstrParts, SMTT(30)
  <2> HIDE DEF x, r
  <2>3. 1 \in 1 .. Len(s)
    BY <2>1, SMT
  <2>4. \A i \in 1 .. Len(s) :
          /\ Apart(r[i]) <=> Apart(s[i])
          /\ r[i].op \in {"down", "retest"} <=> s[i].op \in {"down", "retest"}
          /\ r[i].op = "cond_push" <=> s[i].op = "cond_push"
          /\ r[i].op = "try_down" <=> s[i].op = "try_down"
          /\ r[i].arg = s[i].arg
    BY <2>1, <2>2 DEF Apart, SemaOp
  <2>5. \A k \in 1 .. Len(s) : SleepsAt(r, t, k) <=> SleepsAt(s, t, k)
    BY <2>1, <2>4 DEF SleepsAt
  <2>6. WillSleep(r, t) <=> WillSleep(s, t)
    BY <2>1, <2>5 DEF WillSleep
  <2>7. ~Signals(s)
    BY <2>1, <2>3 DEF Signals, Wakes
  <2>8. Role(r, t)
    BY <2>1, <2>4, <2>6, <2>7 DEF Role
  <2>9. Awaits(r, t) <=> Awaits(s, t)
    BY <2>3, <2>4, <2>6 DEF Awaits
  <2>10. QED
    BY <2>1, <2>2, <2>8, <2>9 DEF Wakes, r, x
\* A signaller goes on: a signal or the up of a waiter is put in front.
<1>PrependRole. ASSUME NEW s \in Seq(Ins),
                       \A i \in 1 .. Len(s) : s[i].op \in {"signal", "broadcast"},
                       NEW x \in Ins, x.op \in {"signal", "broadcast"} \/ Wakes(x)
                PROVE  \E r : r = <<x>> \o s /\ Signals(r) /\ r # <<>> /\ Head(r) = x
  <2> USE <1>PrependRole
  <2> DEFINE r == <<x>> \o s
  <2>1. /\ Len(s) \in Nat /\ Len(r) = Len(s) + 1
        /\ r[1] = x /\ Head(r) = x /\ r # <<>>
        /\ \A i \in 1 .. Len(r) : i = 1 \/ (i - 1 \in 1 .. Len(s) /\ r[i] = s[i - 1])
    BY Join, SMT
  <2> HIDE DEF r
  <2>2. Signals(r)
    BY <2>1 DEF Signals
  <2>3. QED
    BY <2>1, <2>2 DEF r
\* Nothing that the invariant speaks of changes.
<1>SameSignal. ASSUME Signalling, code' = code, cond_waiters' = cond_waiters,
                      \A t \in Thread : value'[t] = value[t]
               PROVE  Signalling'
  <2> USE <1>SameSignal
  <2>1. Roles' /\ Lists'
    BY DEF Signalling, Roles, Lists
  <2>2. ASSUME NEW t \in Thread PROVE Signal(t)'
    <3>1. Signal(t) /\ value'[t] = value[t]
      BY DEF Signalling
    <3>2. Enlisted(t)' <=> Enlisted(t)
      BY DEF Enlisted
    <3>3. \A u \in Thread : WokenBy(u, t)' <=> WokenBy(u, t)
      BY DEF WokenBy
    <3>4. QED
      BY <3>1, <3>2, <3>3 DEF Signal, InFlight
  <2>3. QED
    BY <2>1, <2>2 DEF Signalling
\* The running thread goes on, and neither wakes anybody nor begins or ceases
\* to await a signal.
<1>QuietSignal. ASSUME TypeOK, Signalling, NEW rest, Continue(rest), Role(rest, current),
                       Awaits(rest, current) <=> Awaits(code[current], current),
                       code[current] # <<>> => ~Wakes(Head(code[current])),
                       rest # <<>> => ~Wakes(Head(rest)),
                       cond_waiters' = cond_waiters,
                       \A t \in Thread : value'[t] = value[t]
                PROVE  Signalling'
  <2> USE <1>QuietSignal
  <2>1. /\ current \in Thread /\ code'[current] = rest
        /\ \A t \in Thread : t # current => code'[t] = code[t]
    BY CodeStep DEF TypeOK
  <2>2. Roles' /\ Lists'
    BY <2>1 DEF Signalling, Roles, Lists
  <2>3. ASSUME NEW t \in Thread PROVE Signal(t)'
    <3>1. Signal(t) /\ value'[t] = value[t]
      BY DEF Signalling
    <3>2. Enlisted(t)' <=> Enlisted(t)
      BY DEF Enlisted
    <3>a. I("up", t).op = "up" /\ I("up", t).arg = t
      BY InstrParts
    <3>3. ~WokenBy(current, t) /\ ~(code'[current] # <<>> /\ Head(code'[current]) = I("up", t))
      BY <2>1, <3>a DEF WokenBy, Wakes
    <3>4. \A u \in Thread : WokenBy(u, t)' <=> WokenBy(u, t)
      BY <2>1, <3>3 DEF WokenBy
    <3>5. Awaits(code[t], t)' <=> Awaits(code[t], t)
      BY <2>1
    <3>6. QED
      BY <3>1, <3>2, <3>4, <3>5 DEF Signal, InFlight
  <2>4. QED
    BY <2>2, <2>3 DEF Signalling
\* An instruction that is neither on a condition nor on a waiter's semaphore.
<1>DoneSignal. ASSUME TypeOK, Signalling, code[current] # <<>>, Done,
                      Head(code[current]).op # "cond_push",
                      Head(code[current]).op \in SemaOp => Head(code[current]).arg \notin Thread,
                      cond_waiters' = cond_waiters,
                      \A t \in Thread : value'[t] = value[t]
               PROVE  Signalling'
  <2> USE <1>DoneSignal
  <2>1. /\ current \in Thread /\ code[current] \in Seq(Ins)
        /\ Role(code[current], current)
    BY DEF TypeOK, Ins, Signalling, Roles
  <2>2. ~Wakes(Head(code[current]))
    BY DEF Wakes, SemaOp
  <2>3. /\ Role(Tail(code[current]), current)
        /\ Tail(code[current]) # <<>> => ~Wakes(Head(Tail(code[current])))
        /\ Awaits(Tail(code[current]), current) <=> Awaits(code[current], current)
    BY <2>1, TailRole DEF SemaOp
  <2>4. QED
    BY <2>2, <2>3, <1>QuietSignal DEF Done
\* The instruction the running thread is at.
<1>AtInstr. ASSUME TypeOK, Signalling, NEW op, At(current, op)
            PROVE  /\ current \in Thread /\ code[current] \in Seq(Ins) /\ code[current] # <<>>
                   /\ Head(code[current]).op = op /\ Head(code[current]).arg = Arg
                   /\ Head(code[current]) = I(op, Arg) /\ Role(code[current], current)
  <2> USE <1>AtInstr
  <2>1. /\ current \in Thread /\ code[current] \in Seq(Ins) /\ code[current] # <<>>
        /\ Head(code[current]).op = op /\ Head(code[current]).arg = Arg
        /\ Role(code[current], current)
    BY DEF TypeOK, Ins, Signalling, Roles, At, Arg
  <2>2. Head(code[current]) \in Ins
    BY <2>1, HeadTail
  <2>3. Head(code[current]) = I(Head(code[current]).op, Head(code[current]).arg)
    BY <2>2, InstrParts
  <2>4. QED
    BY <2>1, <2>3
\* sema_down takes a unit.  On a waiter's semaphore that is the signal, and the
\* waiter awaits none any more.
<1>TakeSignal. ASSUME TypeOK, Signalling, SemaDownTake
               PROVE  Signalling'
  <2> USE <1>TakeSignal
  <2>1. PICK a : a = Arg
    OBVIOUS
  <2>2. PICK op \in {"down", "retest"} : At(current, op)
    BY DEF SemaDownTake
  <2>3. /\ current \in Thread /\ code[current] \in Seq(Ins) /\ code[current] # <<>>
        /\ Head(code[current]).op = op /\ Head(code[current]).arg = a
        /\ Role(code[current], current)
    BY <2>1, <2>2, <1>AtInstr
  <2>4. /\ value[a] > 0 /\ value' = [value EXCEPT ![a] = @ - 1]
        /\ Continue(Tail(code[current])) /\ Done /\ cond_waiters' = cond_waiters
    BY <2>1 DEF SemaDownTake, Positive, Done
  <2>5. CASE a \notin Thread
    <3>1. \A t \in Thread : value'[t] = value[t]
      BY <2>4, <2>5 DEF TypeOK, Sema
    <3>2. QED
      BY <2>3, <2>4, <2>5, <3>1, <1>DoneSignal DEF SemaOp
  <2>6. CASE a \in Thread
    <3>1. /\ a = current /\ Awaits(code[current], current)
          /\ ~Awaits(Tail(code[current]), current) /\ Role(Tail(code[current]), current)
          /\ Tail(code[current]) # <<>> => ~Wakes(Head(Tail(code[current])))
      BY <2>3, <2>6, TailRole
    <3>2. /\ code'[current] = Tail(code[current])
          /\ \A t \in Thread : t # current => code'[t] = code[t]
      BY <2>4, CodeStep
    <3>3. /\ value'[current] = value[current] - 1
          /\ \A t \in Thread : t # current => value'[t] = value[t]
      BY <2>3, <2>4, <3>1 DEF TypeOK, Sema
    <3>4. Signal(current)
      BY <2>3 DEF Signalling
    <3>5. value[current] = 1 /\ value'[current] = 0
      <4>1. value[current] \in {0, 1}
        BY <3>4 DEF Signal
      <4>2. QED
        BY <2>4, <3>1, <3>3, <4>1, SMTT(30)
    <3>6. ~Enlisted(current) /\ ~InFlight(current)
      <4>1. value[current] # 0
        BY <3>5, SMT
      <4>2. QED
        BY <3>4, <4>1 DEF Signal
    <3>7. ASSUME NEW t \in Thread PROVE Enlisted(t)' <=> Enlisted(t)
      BY <2>4 DEF Enlisted
    <3>8. ASSUME NEW u \in Thread, NEW t \in Thread PROVE WokenBy(u, t)' <=> WokenBy(u, t)
      <4>1. I("up", t).op = "up" /\ I("up", t).arg = t
        BY InstrParts
      <4>2. CASE u = current
        BY <2>3, <3>1, <3>2, <4>1, <4>2 DEF WokenBy, Wakes
      <4>3. CASE u # current
        BY <3>2, <4>3 DEF WokenBy
      <4>4. QED
        BY <4>2, <4>3
    <3>9. ASSUME NEW t \in Thread PROVE Signal(t)'
      <4>1. InFlight(t)' <=> InFlight(t)
        BY <3>8 DEF InFlight
      <4>2. \A u, v \in Thread : WokenBy(u, t)' /\ WokenBy(v, t)' => u = v
        BY <3>8 DEF Signalling, Signal
      <4>3. CASE t # current
        <5>1. Signal(t) /\ value'[t] = value[t] /\ code'[t] = code[t]
          BY <3>2, <3>3, <4>3 DEF Signalling
        <5>2. QED
          BY <3>7, <4>1, <4>2, <5>1 DEF Signal
      <4>4. CASE t = current
        <5>1. value'[t] = 0 /\ ~Awaits(code'[t], t) /\ value'[t] # 1
          BY <3>1, <3>2, <3>5, <4>4, SMTT(30)
        <5>2. ~Enlisted(t)' /\ ~InFlight(t)'
          BY <3>6, <3>7, <4>1, <4>4
        <5>3. QED
          BY <4>2, <5>1, <5>2 DEF Signal
      <4>5. QED
        BY <4>3, <4>4
    <3>10. Roles' /\ Lists'
      BY <2>4, <3>1, <3>2 DEF Signalling, Roles, Lists
    <3>11. QED
      BY <3>9, <3>10 DEF Signalling
  <2>7. QED
    BY <2>5, <2>6
\* sema_up delivers the signal that its thread has taken for a waiter.
<1>UpSignal. ASSUME TypeOK, Signalling, SemaUp
             PROVE  Signalling'
  <2> USE <1>UpSignal
  <2>1. PICK a : a = Arg
    OBVIOUS
  <2>2. At(current, "up")
    BY DEF SemaUp
  <2>3. /\ current \in Thread /\ code[current] \in Seq(Ins) /\ code[current] # <<>>
        /\ Head(code[current]).op = "up" /\ Head(code[current]).arg = a
        /\ Head(code[current]) = I("up", a) /\ Role(code[current], current)
    BY <2>1, <2>2, <1>AtInstr
  <2>4. /\ value' = [value EXCEPT ![a] = @ + 1]
        /\ Continue(Tail(code[current])) /\ Done /\ cond_waiters' = cond_waiters
    BY <2>1 DEF SemaUp, Up, Done
  <2>5. CASE a \notin Thread
    <3>1. \A t \in Thread : value'[t] = value[t]
      BY <2>4, <2>5 DEF TypeOK, Sema
    <3>2. QED
      BY <2>3, <2>4, <2>5, <3>1, <1>DoneSignal
  <2>6. CASE a \in Thread
    <3>1. Wakes(Head(code[current]))
      BY <2>3, <2>6 DEF Wakes
    <3>2. /\ Role(Tail(code[current]), current)
          /\ Tail(code[current]) # <<>> => ~Wakes(Head(Tail(code[current])))
          /\ ~Awaits(code[current], current)
          /\ Awaits(Tail(code[current]), current) <=> Awaits(code[current], current)
      BY <2>3, <3>1, TailRole
    <3>3. /\ code'[current] = Tail(code[current])
          /\ \A t \in Thread : t # current => code'[t] = code[t]
      BY <2>4, CodeStep
    <3>4. /\ value'[a] = value[a] + 1
          /\ \A t \in Thread : t # a => value'[t] = value[t]
      BY <2>4, <2>6 DEF TypeOK, Sema
    <3>5. Signal(a) /\ WokenBy(current, a)
      BY <2>3, <2>6 DEF Signalling, WokenBy
    <3>6. Awaits(code[a], a) /\ value[a] = 0 /\ ~Enlisted(a)
      BY <2>3, <3>5 DEF Signal, InFlight
    <3>7. a # current
      BY <3>2, <3>6
    <3>8. value'[a] = 1 /\ value'[a] # 0
      BY <3>4, <3>6, SMT
    <3>9. ASSUME NEW t \in Thread PROVE Enlisted(t)' <=> Enlisted(t)
      BY <2>4 DEF Enlisted
    <3>10. ASSUME NEW u \in Thread, NEW t \in Thread
           PROVE  WokenBy(u, t)' <=> WokenBy(u, t) /\ u # current
      <4>1. I("up", t).op = "up" /\ I("up", t).arg = t
        BY InstrParts
      <4>2. CASE u = current
        BY <3>2, <3>3, <4>1, <4>2 DEF WokenBy, Wakes
      <4>3. CASE u # current
        BY <3>3, <4>3 DEF WokenBy
      <4>4. QED
        BY <4>2, <4>3
    <3>11. ASSUME NEW t \in Thread PROVE Signal(t)'
      <4>1. \A u, v \in Thread : WokenBy(u, t)' /\ WokenBy(v, t)' => u = v
        BY <3>10 DEF Signalling, Signal
      <4>2. Awaits(code'[t], t) <=> Awaits(code[t], t)
        BY <3>2, <3>3
      <4>3. CASE t # a
        <5>1. Signal(t) /\ value'[t] = value[t]
          BY <3>4, <4>3 DEF Signalling
        <5>2. ~WokenBy(current, t)
          <6>1. I("up", t).arg = t /\ I("up", a).arg = a
            BY InstrParts
          <6>2. QED
            BY <2>3, <4>3, <6>1 DEF WokenBy
        <5>3. InFlight(t)' <=> InFlight(t)
          BY <3>10, <5>2 DEF InFlight
        <5>4. QED
          BY <3>9, <4>1, <4>2, <5>1, <5>3 DEF Signal
      <4>4. CASE t = a
        <5>1. ~InFlight(t)'
          BY <2>3, <3>5, <3>10, <4>4 DEF InFlight, Signal
        <5>2. QED
          BY <3>6, <3>8, <3>9, <4>1, <4>2, <4>4, <5>1 DEF Signal
      <4>5. QED
        BY <4>3, <4>4
    <3>12. Roles' /\ Lists'
      BY <2>4, <3>2, <3>3 DEF Signalling, Roles, Lists
    <3>13. QED
      BY <3>11, <3>12 DEF Signalling
  <2>7. QED
    BY <2>5, <2>6
\* cond_wait joins the list with its semaphore down: nobody has a signal for it
\* yet.
<1>PushSignal. ASSUME TypeOK, Signalling, CondPush
               PROVE  Signalling'
  <2> USE <1>PushSignal
  <2>1. PICK c : c = Arg
    OBVIOUS
  <2>2. At(current, "cond_push")
    BY DEF CondPush
  <2>3. /\ current \in Thread /\ code[current] \in Seq(Ins) /\ code[current] # <<>>
        /\ Head(code[current]).op = "cond_push" /\ Head(code[current]).arg = c
        /\ Role(code[current], current)
    BY <2>1, <2>2, <1>AtInstr
  <2>4. c \in Cond
    BY <2>1, <2>2, HeadType, TypeParts DEF CondOp
  <2>5. /\ value' = [value EXCEPT ![current] = 0]
        /\ cond_waiters' = [cond_waiters EXCEPT ![c] = Append(@, current)]
        /\ Continue(Tail(code[current]))
    BY <2>1 DEF CondPush, Done
  <2>6. /\ Role(Tail(code[current]), current)
        /\ Tail(code[current]) # <<>> => ~Wakes(Head(Tail(code[current])))
        /\ ~Awaits(code[current], current) /\ Awaits(Tail(code[current]), current)
    BY <2>3, TailRole
  <2>7. /\ code'[current] = Tail(code[current])
        /\ \A t \in Thread : t # current => code'[t] = code[t]
    BY <2>5, CodeStep
  <2>8. value'[current] = 0 /\ \A t \in Thread : t # current => value'[t] = value[t]
    BY <2>3, <2>5 DEF TypeOK, Sema
  <2>9. ~Enlisted(current) /\ ~InFlight(current)
    BY <2>3, <2>6 DEF Signalling, Signal
  <2>10. /\ cond_waiters[c] \in Seq(Thread)
         /\ cond_waiters'[c] = Append(cond_waiters[c], current)
         /\ \A d \in Cond : d # c => cond_waiters'[d] = cond_waiters[d]
    BY <2>4, <2>5 DEF TypeOK
  <2>11. \A d \in Cond : \A t : t \in Elems(cond_waiters'[d]) <=>
           t \in Elems(cond_waiters[d]) \/ (d = c /\ t = current)
    <3>1. Elems(Append(cond_waiters[c], current)) = Elems(cond_waiters[c]) \cup {current}
      BY <2>3, <2>10, ElemsAppend, SMT
    <3>2. \A t : t \in Elems(cond_waiters'[c]) <=> t \in Elems(cond_waiters[c]) \/ t = current
      BY <2>10, <3>1
    <3>3. QED
      BY <2>10, <3>2
  <2>12. \A d \in Cond : current \notin Elems(cond_waiters[d])
    BY <2>9 DEF Enlisted
  <2>13. Lists'
    <3>1. ASSUME NEW d \in Cond PROVE Distinct(cond_waiters'[d])
      <4>1. Distinct(cond_waiters[d])
        BY DEF Signalling, Lists
      <4>2. CASE d = c
        BY <2>3, <2>4, <2>10, <2>12, <4>1, <4>2, DistinctAppend
      <4>3. QED
        BY <2>10, <4>1, <4>2
    <3>2. ASSUME NEW d \in Cond, NEW e \in Cond, NEW t \in Elems(cond_waiters'[d]),
                 t \in Elems(cond_waiters'[e])
          PROVE  d = e
      <4>1. CASE t = current
        BY <2>11, <2>12, <3>2, <4>1
      <4>2. CASE t # current
        <5>1. t \in Elems(cond_waiters[d]) /\ t \in Elems(cond_waiters[e])
          BY <2>11, <3>2, <4>2, SMT
        <5>2. QED
          BY <5>1 DEF Signalling, Lists
      <4>3. QED
        BY <4>1, <4>2
    <3>3. QED
      BY <3>1, <3>2 DEF Lists
  <2>14. ASSUME NEW u \in Thread, NEW t \in Thread PROVE WokenBy(u, t)' <=> WokenBy(u, t)
    <3>1. I("up", t).op = "up" /\ I("up", t).arg = t
      BY InstrParts
    <3>2. CASE u = current
      BY <2>3, <2>6, <2>7, <3>1, <3>2 DEF WokenBy, Wakes
    <3>3. CASE u # current
      BY <2>7, <3>3 DEF WokenBy
    <3>4. QED
      BY <3>2, <3>3
  <2>15. ASSUME NEW t \in Thread PROVE Signal(t)'
    <3>1. InFlight(t)' <=> InFlight(t)
      BY <2>14 DEF InFlight
    <3>2. \A u, v \in Thread : WokenBy(u, t)' /\ WokenBy(v, t)' => u = v
      BY <2>14 DEF Signalling, Signal
    <3>3. CASE t # current
      <4>1. Signal(t) /\ value'[t] = value[t] /\ code'[t] = code[t]
        BY <2>7, <2>8, <3>3 DEF Signalling
      <4>2. ASSUME NEW d \in Cond
            PROVE  t \in Elems(cond_waiters'[d]) <=> t \in Elems(cond_waiters[d])
        BY <2>10, <2>11, <3>3
      <4>3. Enlisted(t)' <=> Enlisted(t)
        BY <4>2 DEF Enlisted
      <4>4. QED
        BY <3>1, <3>2, <4>1, <4>3 DEF Signal
    <3>4. CASE t = current
      <4>1. Enlisted(t)'
        BY <2>4, <2>11, <3>4 DEF Enlisted
      <4>2. value'[t] = 0 /\ value'[t] # 1 /\ Awaits(code'[t], t)
        BY <2>6, <2>7, <2>8, <3>4, SMTT(30)
      <4>3. QED
        BY <2>9, <3>1, <3>2, <3>4, <4>1, <4>2 DEF Signal
    <3>5. QED
      BY <3>3, <3>4
  <2>16. Roles'
    BY <2>6, <2>7 DEF Signalling, Roles
  <2>17. QED
    BY <2>13, <2>15, <2>16 DEF Signalling
\* cond_signal takes the first waiter off the list and is about to up its
\* semaphore.
<1>PopSignal. ASSUME TypeOK, Signalling, CondSignal
              PROVE  Signalling'
  <2> USE <1>PopSignal
  <2>1. PICK c : c = Arg
    OBVIOUS
  <2>2. At(current, "signal")
    BY DEF CondSignal
  <2>3. /\ current \in Thread /\ code[current] \in Seq(Ins) /\ code[current] # <<>>
        /\ Head(code[current]).op = "signal" /\ Head(code[current]).arg = c
        /\ Role(code[current], current)
    BY <2>1, <2>2, <1>AtInstr
  <2>4. c \in Cond
    BY <2>1, <2>2, HeadType, TypeParts DEF CondOp
  <2>5. value' = value
    BY DEF CondSignal
  <2>6. CASE cond_waiters[c] = <<>>
    <3>1. Done /\ cond_waiters' = cond_waiters
      BY <2>1, <2>6 DEF CondSignal
    <3>2. QED
      BY <2>3, <2>5, <3>1, <1>DoneSignal DEF SemaOp
  <2>7. CASE cond_waiters[c] # <<>>
    <3>1. PICK w : w = Head(cond_waiters[c])
      OBVIOUS
    <3>2. /\ cond_waiters' = [cond_waiters EXCEPT ![c] = Tail(@)]
          /\ Continue(<<I("up", w)>> \o Tail(code[current]))
      BY <2>1, <2>7, <3>1 DEF CondSignal, PopCondWaiter, UpCondWaiter
    <3>3. /\ cond_waiters[c] \in Seq(Thread)
          /\ cond_waiters'[c] = Tail(cond_waiters[c])
          /\ \A d \in Cond : d # c => cond_waiters'[d] = cond_waiters[d]
      BY <2>4, <3>2 DEF TypeOK
    <3>4. Distinct(cond_waiters[c])
      BY <2>4 DEF Signalling, Lists
    <3>5. /\ Distinct(Tail(cond_waiters[c])) /\ w \in Thread
          /\ w \notin Elems(Tail(cond_waiters[c]))
          /\ Elems(cond_waiters[c]) = {w} \cup Elems(Tail(cond_waiters[c]))
      BY <2>7, <3>1, <3>3, <3>4, DistinctTail
    <3>6. I("up", w) \in Ins /\ Wakes(I("up", w))
      <4>1. I("up", w).op = "up" /\ I("up", w).arg = w
        BY InstrParts
      <4>2. I("up", w) \in Instr
        BY <3>5, InstrType DEF SemaOp, Sema
      <4>3. QED
        BY <3>5, <4>1, <4>2 DEF Wakes, Ins
    <3>7. /\ ~Awaits(code[current], current) /\ Tail(code[current]) \in Seq(Ins)
          /\ \A i \in 1 .. Len(Tail(code[current])) :
               Tail(code[current])[i].op \in {"signal", "broadcast"}
      BY <2>3, TailRole
    <3>8. PICK rest : /\ rest = <<I("up", w)>> \o Tail(code[current])
                      /\ Signals(rest) /\ rest # <<>> /\ Head(rest) = I("up", w)
      BY <3>6, <3>7, <1>PrependRole
    <3>9. Role(rest, current) /\ ~Awaits(rest, current)
      BY <2>3, <3>8, NoSleep DEF Role
    <3>10. /\ code'[current] = rest
           /\ \A t \in Thread : t # current => code'[t] = code[t]
      BY <3>2, <3>8, CodeStep
    <3>11. Signal(w) /\ Enlisted(w)
      BY <2>4, <3>5 DEF Signalling, Enlisted
    <3>12. Awaits(code[w], w) /\ ~InFlight(w) /\ value[w] = 0
      BY <3>11 DEF Signal
    <3>13. w # current
      BY <3>7, <3>12
    <3>14. ASSUME NEW d \in Cond, NEW t
           PROVE  t \in Elems(cond_waiters'[d]) <=> t \in Elems(cond_waiters[d]) /\ t # w
      <4>1. CASE d = c
        BY <3>3, <3>5, <4>1
      <4>2. CASE d # c
        <5>1. w \notin Elems(cond_waiters[d])
          BY <2>4, <3>5, <4>2 DEF Signalling, Lists
        <5>2. QED
          BY <3>3, <4>2, <5>1
      <4>3. QED
        BY <4>1, <4>2
    <3>15. Lists'
      <4>1. ASSUME NEW d \in Cond PROVE Distinct(cond_waiters'[d])
        BY <3>3, <3>5 DEF Signalling, Lists
      <4>2. ASSUME NEW d \in Cond, NEW e \in Cond, NEW t \in Elems(cond_waiters'[d]),
                   t \in Elems(cond_waiters'[e])
            PROVE  d = e
        <5>1. t \in Elems(cond_waiters[d]) /\ t \in Elems(cond_waiters[e])
          BY <3>14, <4>2
        <5>2. QED
          BY <5>1 DEF Signalling, Lists
      <4>3. QED
        BY <4>1, <4>2 DEF Lists
    <3>16. ASSUME NEW u \in Thread, NEW t \in Thread
           PROVE  WokenBy(u, t)' <=> (IF u = current THEN t = w ELSE WokenBy(u, t))
      <4>1. I("up", t).arg = t /\ I("up", w).arg = w
        BY InstrParts
      <4>2. CASE u = current
        BY <3>8, <3>10, <4>1, <4>2 DEF WokenBy
      <4>3. CASE u # current
        BY <3>10, <4>3 DEF WokenBy
      <4>4. QED
        BY <4>2, <4>3
    <3>17. ASSUME NEW t \in Thread PROVE ~WokenBy(current, t)
      <4>1. I("up", t).op = "up"
        BY InstrParts
      <4>2. QED
        BY <2>3, <4>1 DEF WokenBy
    <3>18. ASSUME NEW t \in Thread PROVE Signal(t)'
      <4>1. Awaits(code'[t], t) <=> Awaits(code[t], t)
        BY <3>7, <3>9, <3>10
      <4>2. Enlisted(t)' <=> Enlisted(t) /\ t # w
        BY <3>14 DEF Enlisted
      <4>3. Signal(t)
        BY DEF Signalling
      <4>4. CASE t # w
        <5>1. \A u \in Thread : WokenBy(u, t)' <=> WokenBy(u, t)
          BY <3>16, <3>17, <4>4
        <5>2. QED
          BY <2>5, <4>1, <4>2, <4>3, <4>4, <5>1 DEF Signal, InFlight
      <4>5. CASE t = w
        <5>1. \A u \in Thread : WokenBy(u, t)' <=> u = current
          BY <3>12, <3>16, <4>5 DEF InFlight
        <5>2. value'[t] = 0 /\ value'[t] # 1
          BY <2>5, <3>12, <4>5, SMT
        <5>3. QED
          BY <2>3, <3>12, <4>1, <4>2, <4>5, <5>1, <5>2 DEF Signal, InFlight
      <4>6. QED
        BY <4>4, <4>5
    <3>19. Roles'
      BY <3>9, <3>10 DEF Signalling, Roles
    <3>20. QED
      BY <3>15, <3>18, <3>19 DEF Signalling
  <2>8. QED
    BY <2>6, <2>7
\* cond_broadcast signals once more, or is done.
<1>BroadcastSignal. ASSUME TypeOK, Signalling, CondBroadcast
                    PROVE  Signalling'
  <2> USE <1>BroadcastSignal
  <2>1. PICK c : c = Arg
    OBVIOUS
  <2>2. At(current, "broadcast")
    BY DEF CondBroadcast
  <2>3. /\ current \in Thread /\ code[current] \in Seq(Ins) /\ code[current] # <<>>
        /\ Head(code[current]).op = "broadcast" /\ Role(code[current], current)
    BY <2>2, <1>AtInstr
  <2>4. c \in Cond
    BY <2>1, <2>2, HeadType, TypeParts DEF CondOp
  <2>5. value' = value /\ cond_waiters' = cond_waiters
    BY DEF CondBroadcast
  <2>6. CASE Done
    BY <2>3, <2>5, <2>6, <1>DoneSignal DEF SemaOp
  <2>7. CASE Continue(<<I("signal", c)>> \o code[current])
    <3>1. I("signal", c) \in Ins
      BY <2>4, InstrType DEF CondOp, Ins
    <3>2. I("signal", c).op = "signal"
      BY InstrParts
    <3>3. Signals(code[current]) /\ ~Awaits(code[current], current)
      BY <2>3, TailRole
    <3>4. \A i \in 1 .. Len(code[current]) : code[current][i].op \in {"signal", "broadcast"}
      <4>1. Head(code[current]) = code[current][1]
        BY <2>3, Ends
      <4>2. QED
        BY <2>3, <3>3, <4>1 DEF Signals, Wakes
    <3>5. PICK rest : /\ rest = <<I("signal", c)>> \o code[current]
                      /\ Signals(rest) /\ rest # <<>> /\ Head(rest) = I("signal", c)
      BY <2>3, <3>1, <3>2, <3>4, <1>PrependRole
    <3>6. Role(rest, current) /\ ~Awaits(rest, current)
      BY <2>3, <3>5, NoSleep DEF Role
    <3>7. ~Wakes(Head(code[current])) /\ ~Wakes(Head(rest))
      BY <2>3, <3>2, <3>5 DEF Wakes
    <3>8. QED
      BY <2>5, <2>7, <3>3, <3>5, <3>6, <3>7, <1>QuietSignal
  <2>8. QED
    BY <2>1, <2>6, <2>7 DEF CondBroadcast
\* sema_down blocks: the instruction only becomes a re-test.
<1>BlockSignal. ASSUME TypeOK, Signalling, SemaDownBlock
                PROVE  Signalling'
  <2> USE <1>BlockSignal
  <2>1. PICK op \in {"down", "retest"} : At(current, op)
    BY DEF SemaDownBlock
  <2>2. /\ current \in Thread /\ code[current] \in Seq(Ins) /\ code[current] # <<>>
        /\ Head(code[current]).op = op /\ Head(code[current]).arg = Arg
        /\ Role(code[current], current)
    BY <2>1, <1>AtInstr
  <2>3. PICK r : /\ r = <<I("retest", Head(code[current]).arg)>> \o Tail(code[current])
                 /\ Role(r, current) /\ (Awaits(r, current) <=> Awaits(code[current], current))
                 /\ r # <<>> /\ ~Wakes(Head(r))
    BY <2>2, <1>RetestRole
  <2>4. Continue(r) /\ value' = value /\ cond_waiters' = cond_waiters
    BY <2>2, <2>3 DEF SemaDownBlock
  <2>5. ~Wakes(Head(code[current]))
    BY <2>2 DEF Wakes
  <2>6. QED
    BY <2>3, <2>4, <2>5, <1>QuietSignal
\* sema_try_down is never of a waiter's semaphore; its failure ends a call that
\* awaits no signal.
<1>TrySignal. ASSUME TypeOK, Signalling, SemaTryDown
              PROVE  Signalling'
  <2> USE <1>TrySignal
  <2>1. PICK a : a = Arg
    OBVIOUS
  <2>2. At(current, "try_down")
    BY DEF SemaTryDown
  <2>3. /\ current \in Thread /\ code[current] \in Seq(Ins) /\ code[current] # <<>>
        /\ Head(code[current]).op = "try_down" /\ Head(code[current]).arg = a
        /\ Role(code[current], current)
    BY <2>1, <2>2, <1>AtInstr
  <2>4. a \notin Thread /\ ~Awaits(code[current], current)
    BY <2>3, TailRole
  <2>5. cond_waiters' = cond_waiters
    BY DEF SemaTryDown
  <2>6. CASE value[a] > 0
    <3>1. Done /\ value' = [value EXCEPT ![a] = @ - 1]
      BY <2>1, <2>6 DEF SemaTryDown
    <3>2. \A t \in Thread : value'[t] = value[t]
      BY <2>4, <3>1 DEF TypeOK, Sema
    <3>3. QED
      BY <2>3, <2>4, <2>5, <3>1, <3>2, <1>DoneSignal
  <2>7. CASE ~(value[a] > 0)
    <3>1. Continue(<<>>) /\ value' = value
      BY <2>1, <2>7 DEF SemaTryDown, GiveUp
    <3>2. Role(<<>>, current) /\ ~Awaits(<<>>, current)
      BY <2>3, EmptyRole
    <3>3. ~Wakes(Head(code[current]))
      BY <2>3 DEF Wakes
    <3>4. QED
      BY <2>4, <2>5, <3>1, <3>2, <3>3, <1>QuietSignal
  <2>8. QED
    BY <2>6, <2>7
\* A thread enters a call.
<1>BeginSignal. ASSUME TypeOK, Signalling, BeginCall
                PROVE  Signalling'
  <2> USE <1>BeginSignal
  <2>1. PICK body \in Calls : Continue(body)
    BY DEF BeginCall
  <2>2. code[current] = <<>> /\ value' = value /\ cond_waiters' = cond_waiters
    BY DEF BeginCall
  <2>3. current \in Thread
    BY DEF TypeOK
  <2>4. ~Awaits(code[current], current)
    BY <2>2, <2>3, EmptyRole
  <2>5. /\ Role(body, current) /\ ~Awaits(body, current)
        /\ body # <<>> => ~Wakes(Head(body))
    BY CallsRole
  <2>6. QED
    BY <2>1, <2>2, <2>4, <2>5, <1>QuietSignal
\* The interrupt handlers up no waiter's semaphore.
<1>DeviceSignal. ASSUME TypeOK, Signalling, DeviceInterrupt
                 PROVE  Signalling'
  <2> USE <1>DeviceSignal
  <2>1. PICK s \in IntrSema : Up(s)
    BY DEF DeviceInterrupt
  <2>2. code' = code /\ cond_waiters' = cond_waiters /\ value' = [value EXCEPT ![s] = @ + 1]
    BY <2>1 DEF DeviceInterrupt, Up
  <2>3. s \notin Thread
    BY SynchAssumption
  <2>4. \A t \in Thread : value'[t] = value[t]
    BY <2>2, <2>3 DEF TypeOK, Sema
  <2>5. QED
    BY <2>2, <2>4, <1>SameSignal
\* The instructions that touch neither a semaphore nor a condition's list.
<1>OtherSignal. ASSUME TypeOK, Signalling,
                       \/ SetHolder \/ ClearHolder \/ InitThread \/ ReadTid \/ WriteTid
                       \/ Unblock \/ CreateFails \/ Yield \/ Exit \/ SetIdle
                PROVE  Signalling'
  <2> USE <1>OtherSignal
  <2>1. PICK op \in {"set_holder", "clear_holder", "init_thread", "read_tid", "write_tid",
                     "unblock", "yield", "exit", "set_idle"} : At(current, op)
    BY DEF SetHolder, ClearHolder, InitThread, ReadTid, WriteTid, Unblock, CreateFails,
           Yield, Exit, SetIdle
  <2>2. Done /\ value' = value /\ cond_waiters' = cond_waiters
    BY DEF SetHolder, ClearHolder, InitThread, ReadTid, WriteTid, Unblock, CreateFails,
           Yield, Exit, SetIdle
  <2>3. code[current] # <<>> /\ Head(code[current]).op = op
    BY <2>1 DEF At
  <2>4. Head(code[current]).op # "cond_push" /\ Head(code[current]).op \notin SemaOp
    BY <2>1, <2>3 DEF SemaOp
  <2>5. QED
    BY <2>2, <2>3, <2>4, <1>DoneSignal
<1> SUFFICES ASSUME IInv, Signalling, [Next]_vars PROVE Signalling'
  OBVIOUS
<1>1. TypeOK
  BY DEF IInv
<1>2. CASE IdleBlock \/ TimerInterrupt \/ UNCHANGED vars
  <2>1. code' = code /\ cond_waiters' = cond_waiters /\ value' = value
    BY <1>2 DEF IdleBlock, TimerInterrupt, vars, synchVars
  <2>2. QED
    BY <2>1, <1>SameSignal
<1>3. CASE \/ SetHolder \/ ClearHolder \/ InitThread \/ ReadTid \/ WriteTid
           \/ Unblock \/ CreateFails \/ Yield \/ Exit \/ SetIdle
  BY <1>1, <1>3, <1>OtherSignal
<1>4. QED
  BY <1>1, <1>2, <1>3, <1>BlockSignal, <1>TakeSignal, <1>TrySignal, <1>UpSignal,
     <1>PushSignal, <1>PopSignal,
     <1>BroadcastSignal, <1>BeginSignal, <1>DeviceSignal DEF Next

(***************************************************************************)
(* The theorems.                                                           *)
(***************************************************************************)
INSTANCE FiniteSetTheorems

\* struct lock of synch.c: a lock is free or has one owner, also between the
\* sema_down and the assignment of holder in lock_acquire, and between the
\* assignment and the sema_up in lock_release, whatever the interleaving of
\* calls, timer ticks and interrupt handlers.
THEOREM LocksExclude == Spec => []LockExclusion
<1>1. LInv => LockExclusion
  <2> SUFFICES ASSUME LInv, NEW l \in Lock
               PROVE  value[l] + Cardinality(Owners(l)) = 1
    BY DEF LockExclusion
  <2>1. Excl(l)
    BY DEF LInv, Locking, Exclusive
  <2>2. CASE value[l] = 1 /\ Owners(l) = {}
    BY <2>2, FS_EmptySet, SMT
  <2>3. CASE value[l] = 0 /\ \E t \in Thread : Owners(l) = {t}
    <3>1. PICK t \in Thread : Owners(l) = {t}
      BY <2>3
    <3>2. Cardinality(Owners(l)) = 1
      BY <3>1, FS_Singleton
    <3>3. QED
      BY <2>3, <3>2, SMT
  <2>4. QED
    BY <2>1, <2>2, <2>3 DEF Excl
<1>2. QED
  BY LockInvariant, <1>1, PTL

\* lock_acquire, lock_try_acquire, lock_release, cond_wait and allocate_tid
\* implement the abstract lock of module Mutex: a lock is taken only when it
\* is free, by the running thread, and given back only while the thread that
\* took it is running.
THEOREM LocksImplementMutex == Spec => ImplementsMutex
<1>1. Init => AbstractMutex!Init
  <2> SUFFICES ASSUME Init PROVE Owner = [l \in Lock |-> NULL]
    BY ThreadAssumption DEF AbstractMutex!Init, Init, SchedInit
  <2>1. \A l \in Lock : value[l] # 0
    BY SMT DEF Init, Sema
  <2>2. QED
    BY <2>1 DEF Owner
<1>2. LInv /\ LInv' /\ [Next]_vars => [AbstractMutex!Next]_<<Owner, current>>
  BY LockStep, MutexStep DEF LInv, Locking, IInv
<1>3. QED
  BY LockInvariant, <1>1, <1>2, PTL DEF Spec, ImplementsMutex, AbstractMutex!Spec

\* A list without repetition has as many elements as its length.
LEMMA DistinctCount ==
  ASSUME NEW s \in Seq(Thread), Distinct(s)
  PROVE  Cardinality(Elems(s)) = Len(s)
<1>1. s \in [1 .. Len(s) -> Thread] /\ Len(s) \in Nat /\ DOMAIN s = 1 .. Len(s)
  BY SMT
<1>2. s \in [1 .. Len(s) -> Elems(s)]
  BY <1>1 DEF Elems
<1>3. s \in Injection(1 .. Len(s), Elems(s))
  BY <1>1, <1>2 DEF Distinct, Injection, IsInjective
<1>4. s \in Surjection(1 .. Len(s), Elems(s))
  BY <1>1, <1>2 DEF Elems, Surjection
<1>5. ExistsBijection(1 .. Len(s), Elems(s))
  BY <1>3, <1>4 DEF ExistsBijection, Bijection
<1>6. IsFiniteSet(1 .. Len(s)) /\ Cardinality(1 .. Len(s)) = Len(s)
  <2>1. ASSUME NEW n \in Nat
        PROVE  IsFiniteSet(1 .. n) /\ Cardinality(1 .. n) = n
    <3>1. /\ IsFiniteSet(1 .. n)
          /\ Cardinality(1 .. n) = IF 1 > n THEN 0 ELSE n - 1 + 1
      BY FS_Interval, SMT
    <3>2. (IF 1 > n THEN 0 ELSE n - 1 + 1) = n
      BY SMT
    <3>3. QED
      BY <3>1, <3>2, SMT
  <2>2. QED
    BY <1>1, <2>1
<1>7. QED
  BY <1>5, <1>6, FS_Bijection

\* struct thread's member elem, of thread.h and thread.c: a thread is on the
\* run queue exactly when it is ready, on a semaphore's list only while it is
\* blocked in that semaphore's sema_down, on one list at most and once.  And
\* no thread that has run sleeps out of reach: when it is blocked it is on the
\* list of the semaphore it waits for, or is the idle thread.  One that has
\* never run is being created, or was left behind by a thread_create that got
\* no page for its struct thread_child.
THEOREM ListsAgree == Spec => []ElemOnOneList
<1>1. WInv => ElemOnOneList
  <2> SUFFICES ASSUME WInv PROVE ElemOnOneList
    OBVIOUS
  <2>1. /\ TypeOK /\ Queued /\ Listed /\ Creation /\ Reachable
    BY DEF WInv, IInv, Waiting
  <2>2. Cardinality(Elems(ready_list)) = Len(ready_list)
    BY <2>1, DistinctCount DEF Queued, TypeOK
  <2>3. \A s \in Sema : Cardinality(Elems(waiters[s])) = Len(waiters[s])
    BY <2>1, DistinctCount DEF Listed, TypeOK
  <2>4. \A s \in Sema : \A t \in Elems(waiters[s]) :
          /\ status[t] = "BLOCKED" /\ At(t, "retest") /\ Head(code[t]).arg = s
          /\ \A r \in Sema \ {s} : t \notin Elems(waiters[r])
    BY <2>1, InstrIs, SMTT(30) DEF Listed, Sleeps, At
  <2>5. \A t \in Thread : status[t] = "BLOCKED" =>
          \/ \E s \in Sema : t \in Elems(waiters[s])
          \/ t = idle_thread
          \/ code[t] = <<>>
    BY <2>1 DEF Reachable
  <2>6. QED
    BY <2>1, <2>2, <2>3, <2>4, <2>5 DEF ElemOnOneList, Queued
<1>2. QED
  BY WaitInvariant, <1>1, PTL

\* Counting threads.
LEMMA Counts == Counting
<1> SUFFICES ASSUME NEW S \in SUBSET Thread
             PROVE  /\ Cardinality(S) \in Nat
                    /\ \A T \in SUBSET S : /\ Cardinality(T) \in Nat
                                           /\ Cardinality(T) <= Cardinality(S)
                    /\ \A x \in Thread : x \notin S =>
                         Cardinality(S \cup {x}) = Cardinality(S) + 1
                    /\ \A x \in S : Cardinality(S \ {x}) = Cardinality(S) - 1
  BY DEF Counting
<1>1. IsFiniteSet(Thread)
  BY SynchAssumption
<1>2. IsFiniteSet(S)
  BY <1>1, FS_Subset
<1>3. Cardinality(S) \in Nat
  BY <1>2, FS_CardinalityType
<1>4. ASSUME NEW T \in SUBSET S
      PROVE  Cardinality(T) \in Nat /\ Cardinality(T) <= Cardinality(S)
  <2>1. IsFiniteSet(T) /\ Cardinality(T) <= Cardinality(S)
    BY <1>2, FS_Subset
  <2>2. QED
    BY <2>1, FS_CardinalityType
<1>5. ASSUME NEW x \in Thread, x \notin S
      PROVE  Cardinality(S \cup {x}) = Cardinality(S) + 1
  BY <1>2, <1>5, FS_AddElement
<1>6. ASSUME NEW x \in S PROVE Cardinality(S \ {x}) = Cardinality(S) - 1
  BY <1>2, FS_RemoveElement
<1>7. QED
  BY <1>3, <1>4, <1>5, <1>6

\* sema_up and the loop of sema_down: while threads sleep on a semaphore, each
\* unit of its value belongs to a thread that was woken and has yet to test
\* the value again, so no unit meets only sleeping threads, whoever is
\* preempted where and whichever interrupt handler ups the semaphore.
THEOREM WakeupsKept == Spec => []NoLostWakeup
<1>1. Init => NoLostWakeup
  BY DEF Init, NoLostWakeup
<1>2. WInv /\ WInv' /\ NoLostWakeup /\ [Next]_vars => NoLostWakeup'
  BY Counts, StepMatched DEF WInv
<1>3. QED
  BY WaitInvariant, <1>1, <1>2, PTL DEF Spec

\* The invariant of the signals holds at every step.
LEMMA SignalInvariant == Spec => []Signalling
<1>1. Init => IInv /\ Signalling
  BY InitInv, InitSignal
<1>2. IInv /\ Signalling /\ [Next]_vars => (IInv /\ Signalling)'
  BY NextInv, StepSignal
<1>3. QED
  BY <1>1, <1>2, PTL DEF Spec

\* No signal of a condition variable is lost or given twice: who sleeps in
\* cond_wait is still on the condition's list or is about to be woken, and a
\* waiter's semaphore is up at most once, and only when it is off the list.
THEOREM SignalsKept == Spec => []NoLostSignal
<1>1. WInv /\ Signalling /\ NoLostWakeup => NoLostSignal
  <2> SUFFICES ASSUME WInv, Signalling, NoLostWakeup, NEW t \in Thread
               PROVE  /\ t \in Elems(waiters[t]) => Enlisted(t) \/ InFlight(t)
                      /\ value[t] <= 1
                      /\ value[t] = 1 => ~Enlisted(t)
    BY DEF NoLostSignal, Enlisted, InFlight, WokenBy
  <2>1. TypeOK /\ Listed
    BY DEF WInv, IInv, Waiting
  <2>2. Signal(t)
    BY DEF Signalling
  <2>3. value[t] \in {0, 1}
    BY <2>2 DEF Signal
  <2>4. value[t] <= 1
    BY <2>3, SMT
  <2>5. value[t] = 1 => ~Enlisted(t)
    <3>1. value[t] = 1 => value[t] # 0
      BY SMT
    <3>2. QED
      BY <2>2, <3>1 DEF Signal
  <2>6. ASSUME NEW u \in Thread, code[u] # <<>>, Head(code[u]) = I("retest", t)
        PROVE  u = t /\ Awaits(code[t], t)
    <3>1. code[u] \in Seq(Ins) /\ Role(code[u], u)
      BY <2>1 DEF TypeOK, Ins, Signalling, Roles
    <3>2. Head(code[u]).op = "retest" /\ Head(code[u]).arg = t
      <4>1. I("retest", t).op = "retest" /\ I("retest", t).arg = t
        BY InstrParts
      <4>2. QED
        BY <2>6, <4>1
    <3>3. QED
      BY <2>6, <3>1, <3>2, TailRole
  <2>7. ASSUME t \in Elems(waiters[t]), value[t] = 1 PROVE FALSE
    <3>1. Woken(t) = {}
      BY <2>6, <2>7 DEF Woken
    <3>2. waiters[t] # <<>> /\ t \in Sema
      <4>1. Elems(<<>>) = {}
        BY SMT DEF Elems
      <4>2. QED
        BY <2>7, <4>1 DEF Sema
    <3>3. value[t] <= Cardinality({})
      BY <3>1, <3>2 DEF NoLostWakeup
    <3>4. QED
      BY <2>7, <3>3, FS_EmptySet, SMT
  <2>8. ASSUME t \in Elems(waiters[t]) PROVE Enlisted(t) \/ InFlight(t)
    <3>1. code[t] # <<>> /\ Head(code[t]) = I("retest", t)
      BY <2>1, <2>8 DEF Listed, Sleeps, Sema
    <3>2. Awaits(code[t], t)
      BY <2>6, <3>1
    <3>3. QED
      BY <2>2, <2>7, <2>8, <3>2 DEF Signal
  <2>9. QED
    BY <2>4, <2>5, <2>8
<1>2. QED
  BY WaitInvariant, SignalInvariant, WakeupsKept, <1>1, PTL
=============================================================================
