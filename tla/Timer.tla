-------------------------------- MODULE Timer --------------------------------
(***************************************************************************)
(* Sleeping, src/devices/timer.c: timer_sleep counts ticks and yields in a *)
(* loop; the threads that sleep stay on the run queue.  Composed with      *)
(* Synch, whose yield and timer interrupt it uses.                         *)
(***************************************************************************)
EXTENDS Synch, Integers

CONSTANT Sleeps   \* the arguments of timer_sleep

ASSUME TimerAssumption == Sleeps \subseteq Int

VARIABLE
  sleep    \* for each thread, the ticks timer_sleep was asked for and the ticks
           \* elapsed since its start, or Awake

timerVars == <<vars, sleep>>

Awake == [ticks |-> 0, elapsed |-> 0, called |-> FALSE]
Asleep(t) == sleep[t].called

\* timer_sleep reads the clock.  msleep, usleep and nsleep come here when they
\* amount to a tick at least.
TimerSleep ==
  /\ code[current] = <<>> /\ ~Asleep(current)
  /\ \E ticks \in Sleeps :
       sleep' = [sleep EXCEPT ![current] =
                   [ticks |-> ticks, elapsed |-> 0, called |-> TRUE]]
  /\ UNCHANGED vars

\* Mutation: one yield at most.
TooEarly_Once(s) == s.elapsed = 0 /\ s.elapsed < s.ticks

TooEarly(s) == s.elapsed < s.ticks

\* A turn of the loop: the test of timer_elapsed (start), then thread_yield.
SleepTurn ==
  /\ code[current] = <<>> /\ Asleep(current)
  /\ IF TooEarly(sleep[current])
     THEN /\ Continue(<<I("yield", current)>>)
          /\ UNCHANGED sleep
     ELSE /\ sleep' = [sleep EXCEPT ![current] = Awake]
          /\ UNCHANGED code
  /\ UNCHANGED <<schedVars, value, waiters, holder, cond_waiters, tid, next_tid>>

\* timer_interrupt counts the tick, then thread_tick.  An elapsed time matters
\* up to the time asked for.
Tick ==
  /\ TimerInterrupt
  /\ sleep' = [t \in Thread |->
                 IF TooEarly(sleep[t]) THEN [sleep[t] EXCEPT !.elapsed = @ + 1]
                 ELSE sleep[t]]

Awakened == ~Asleep(current) /\ BeginCall

\* The running thread's next stretch of a call that is not timer_sleep's own.
Instruction ==
  \/ SemaDownBlock \/ SemaDownTake \/ SemaTryDown \/ SemaUp
  \/ SetHolder \/ ClearHolder \/ CondPush \/ CondSignal \/ CondBroadcast
  \/ InitThread \/ ReadTid \/ WriteTid \/ Unblock \/ CreateFails
  \/ Yield \/ Exit \/ SetIdle \/ IdleBlock

TimerInit == Init /\ sleep = [t \in Thread |-> Awake]

Step ==
  \/ TimerSleep \/ SleepTurn
  \/ (Instruction \/ Awakened \/ DeviceInterrupt) /\ UNCHANGED sleep

TimerNext == Step \/ Tick

\* The timer keeps interrupting; a resumed sema_down runs with interrupts off;
\* and a slice is long enough for a thread that sleeps to go on in its loop,
\* some of the times that it gets the CPU.
LoopStep(t) ==
  /\ t = current /\ Asleep(t)
  /\ SleepTurn \/ (Yield /\ UNCHANGED sleep)

TimerSpec ==
  /\ TimerInit /\ [][TimerNext]_timerVars
  /\ WF_timerVars(Tick \/ (Retest /\ UNCHANGED sleep))
  /\ \A t \in Thread : SF_timerVars(LoopStep(t))

(***************************************************************************)
(* Properties.                                                             *)
(***************************************************************************)
\* timer_sleep returns, however many threads yield to each other in its loop
\* and whatever the others do, and not before the ticks have passed.
SleepEnds ==
  /\ [][\A t \in Thread : Asleep(t) /\ ~Asleep(t)' =>
                            sleep[t].elapsed >= sleep[t].ticks]_timerVars
  /\ \A t \in Thread : Asleep(t) ~> ~Asleep(t)
=============================================================================
