------------------------------ MODULE Console ------------------------------
(***************************************************************************)
(* The console: printing under the console lock (src/lib/kernel/console.c) *)
(* through the serial port (src/devices/serial.c) and its interrupt queue  *)
(* (src/devices/intq.c), and the input buffer (src/devices/input.c) that   *)
(* the serial port and the keyboard (src/devices/kbd.c) fill.              *)
(*                                                                         *)
(* The queues are used with interrupts off, so a step is a stretch between *)
(* two points where a thread sleeps or interrupts are on.  The UART is     *)
(* external: one byte on its way out, one received, and the interrupt      *)
(* enable register.                                                        *)
(***************************************************************************)
EXTENDS Integers, Sequences

CONSTANTS
  Writer,        \* threads that print a message
  Reader,        \* threads that call input_getc
  Teams,         \* the sets of these threads that may be running
  NULL,
  Length,        \* bytes of a message
  INTQ_BUFSIZE,
  MaxNotes,      \* bound: bytes printed by interrupt handlers
  MaxKeys        \* bound: bytes received or typed

ASSUME ConsoleAssumption ==
  /\ INTQ_BUFSIZE \in Nat \ {0, 1} /\ Length \in Nat
  /\ NULL \notin Writer \cup Reader /\ Writer \cap Reader = {}
  /\ NULL \notin Nat /\ NULL \notin (Writer \cup {NULL}) \X Nat

VARIABLES
  mode,                              \* POLL or QUEUE
  console_lock, console_lock_depth,
  txq, buffer,                       \* struct intq
  thr, rbr, ier,                     \* UART
  line,                              \* bytes that have left the UART
  pc,                                \* start, print, lock, blocked, woken, done
  sent,                              \* bytes of its message a writer has put
  put, typed, got,                   \* bytes given to serial_putc, to
                                     \* input_putc, and returned by input_getc
  keys, notes,
  kernel                             \* up, off, or panic

uart == <<thr, rbr, ier, line>>
lock == <<console_lock, console_lock_depth>>
history == <<put, typed, got>>
bounds == <<keys, notes>>
vars == <<mode, lock, txq, buffer, uart, pc, sent, history, bounds, kernel>>

Up == kernel = "up"
At(t, label) == Up /\ pc[t] = label

(***************************************************************************)
(* intq.c.                                                                 *)
(***************************************************************************)
EmptyQueue == [buf |-> [i \in 0 .. INTQ_BUFSIZE - 1 |-> NULL],
               head |-> 0, tail |-> 0,
               lock |-> NULL, not_full |-> NULL, not_empty |-> NULL]

next(pos) == (pos + 1) % INTQ_BUFSIZE

intq_empty(q) == q.head = q.tail

\* Mutation: all the places of the buffer are used.
intq_full_Never(q) == FALSE

intq_full(q) == next(q.head) = q.tail

\* The bodies of intq_getc and intq_putc after their loops; the thread in
\* not_full or not_empty is woken in the same step.
Oldest(q) == q.buf[q.tail]
Taken(q) == [q EXCEPT !.tail = next(@), !.not_full = NULL]
Added(q, byte) == [q EXCEPT !.buf[q.head] = byte, !.head = next(@),
                            !.not_empty = NULL]

Wake(ws) == [t \in Writer \cup Reader |-> IF t \in ws THEN "woken" ELSE pc[t]]

\* lock_acquire and wait, for a queue that is full (or empty); wait asserts
\* that it still is.
Sleep(t, q, member) ==
  [q EXCEPT !.lock = t, ![member] = t]

\* The bytes of a queue, oldest first.
Contents(q) == [i \in 1 .. (q.head - q.tail) % INTQ_BUFSIZE |->
                  q.buf[(q.tail + i - 1) % INTQ_BUFSIZE]]

(***************************************************************************)
(* serial.c.                                                               *)
(***************************************************************************)
InRegister == IF thr = NULL THEN <<>> ELSE <<thr>>

\* putc_poll: the byte before it has left when the register is free.
Transmit(byte) ==
  /\ line' = line \o InRegister
  /\ thr' = byte

\* Mutation: the transmit interrupt is not enabled.
write_ier_NoXmit(tx, in) == IF intq_full(in) THEN {} ELSE {"RECV"}

write_ier(tx, in) ==
  (IF intq_empty(tx) THEN {} ELSE {"XMIT"})
    \cup (IF intq_full(in) THEN {} ELSE {"RECV"})

\* The bytes of a message in order; a printf that interrupts the printing of
\* the same thread puts byte 0.
Byte(t) == <<t, IF console_lock_depth > 0 THEN 0 ELSE sent[t] + 1>>

\* serial_putc has disposed of the byte; a nested printf ends with it.
BytePut(t) ==
  /\ put' = Append(put, Byte(t))
  /\ IF console_lock_depth > 0
     THEN console_lock_depth' = console_lock_depth - 1 /\ UNCHANGED sent
     ELSE sent' = [sent EXCEPT ![t] = @ + 1] /\ UNCHANGED console_lock_depth
  /\ UNCHANGED <<console_lock, typed, got>>

serial_init_queue ==
  /\ Up /\ mode = "POLL"
  /\ mode' = "QUEUE"
  /\ ier' = write_ier(txq, buffer)
  /\ UNCHANGED <<lock, txq, buffer, thr, rbr, line, pc, sent, history, bounds, kernel>>

Printing(t) == At(t, "print") /\ (sent[t] < Length \/ console_lock_depth > 0)

\* serial_putc before serial_init_queue.
PutcPoll(t) ==
  /\ Printing(t) /\ mode = "POLL"
  /\ Transmit(Byte(t))
  /\ BytePut(t)
  /\ UNCHANGED <<mode, txq, buffer, rbr, ier, pc, bounds, kernel>>

\* intq_putc when there is room.
QueueByte(t, q) ==
  /\ ~intq_full(q)
  /\ txq' = Added(q, Byte(t))
  /\ ier' = write_ier(txq', buffer)
  /\ pc' = [pc EXCEPT ![t] = "print"]
  /\ BytePut(t)
  /\ UNCHANGED <<mode, buffer, thr, rbr, line, bounds, kernel>>

PutcQueue(t) == Printing(t) /\ mode = "QUEUE" /\ QueueByte(t, txq)

\* intq_putc when there is none: wait with the queue's lock, or for the lock;
\* wait asserts that there is still none.
PutcFull(t) ==
  /\ Up /\ mode = "QUEUE" /\ pc[t] \in {"print", "lock"}
  /\ pc[t] = "print" => Printing(t) /\ intq_full(txq)
  /\ pc[t] = "lock" => txq.lock = NULL
  /\ IF txq.lock # NULL
     THEN pc' = [pc EXCEPT ![t] = "lock"] /\ UNCHANGED <<txq, kernel>>
     ELSE /\ txq' = Sleep(t, txq, "not_full")
          /\ pc' = [pc EXCEPT ![t] = "blocked"]
          /\ kernel' = IF intq_full(txq) THEN kernel ELSE "panic"
  /\ UNCHANGED <<mode, lock, buffer, uart, sent, history, bounds>>

\* intq_putc after wait: give the lock up and test again.
PutcResume(t) ==
  /\ t \in Writer /\ At(t, "woken")
  /\ \/ QueueByte(t, [txq EXCEPT !.lock = NULL])
     \/ /\ intq_full(txq)
        /\ txq' = Sleep(t, txq, "not_full")
        /\ pc' = [pc EXCEPT ![t] = "blocked"]
        /\ UNCHANGED <<mode, lock, buffer, uart, sent, history, bounds, kernel>>

\* serial_putc with interrupts off: make room by polling.
PutcOff ==
  LET byte == <<NULL, notes + 1>> IN
  /\ Up /\ mode = "QUEUE" /\ notes < MaxNotes
  /\ IF intq_full(txq)
     THEN /\ Transmit(Oldest(txq))
          /\ pc' = Wake({txq.not_full})
          /\ txq' = Added(Taken(txq), byte)
     ELSE UNCHANGED <<thr, line, pc>> /\ txq' = Added(txq, byte)
  /\ ier' = write_ier(txq', buffer)
  /\ put' = Append(put, byte)
  /\ notes' = notes + 1
  /\ UNCHANGED <<mode, lock, buffer, rbr, sent, typed, got, keys, kernel>>

\* The UART interrupts when something it was told to report has happened.
Interrupting ==
  \/ "XMIT" \in ier /\ thr = NULL
  \/ "RECV" \in ier /\ rbr # NULL

serial_interrupt ==
  LET receive == ~intq_full(buffer) /\ rbr # NULL
      transmit == ~intq_empty(txq) /\ thr = NULL
  IN
  /\ Up /\ mode = "QUEUE" /\ Interrupting
  /\ buffer' = IF receive THEN Added(buffer, rbr) ELSE buffer
  /\ typed' = IF receive THEN Append(typed, rbr) ELSE typed
  /\ rbr' = IF receive THEN NULL ELSE rbr
  /\ txq' = IF transmit THEN Taken(txq) ELSE txq
  /\ thr' = IF transmit THEN Oldest(txq) ELSE thr
  /\ pc' = Wake((IF receive THEN {buffer.not_empty} ELSE {})
                  \cup (IF transmit THEN {txq.not_full} ELSE {}))
  /\ ier' = write_ier(txq', buffer')
  /\ UNCHANGED <<mode, lock, line, sent, put, got, bounds, kernel>>

\* When the machine is shut down.
serial_flush ==
  /\ Up
  /\ line' = line \o InRegister \o Contents(txq)
  /\ thr' = NULL
  /\ txq' = [txq EXCEPT !.tail = txq.head]
  /\ kernel' = "off"
  /\ UNCHANGED <<mode, lock, buffer, rbr, ier, pc, sent, history, bounds>>

\* The UART sends and receives.
Send ==
  /\ Up /\ thr # NULL
  /\ line' = Append(line, thr) /\ thr' = NULL
  /\ UNCHANGED <<mode, lock, txq, buffer, rbr, ier, pc, sent, history, bounds, kernel>>

Receive ==
  /\ Up /\ keys < MaxKeys
  /\ rbr' = keys + 1 /\ keys' = keys + 1
  /\ UNCHANGED <<mode, lock, txq, buffer, thr, ier, line, pc, sent, history, notes, kernel>>

(***************************************************************************)
(* kbd.c and input.c.                                                      *)
(***************************************************************************)
\* A key that stands for a character; it is dropped when the buffer is full.
keyboard_interrupt ==
  /\ Up /\ keys < MaxKeys
  /\ keys' = keys + 1
  /\ IF intq_full(buffer)
     THEN UNCHANGED <<buffer, typed, pc, ier>>
     ELSE /\ buffer' = Added(buffer, keys')
          /\ typed' = Append(typed, keys')
          /\ pc' = Wake({buffer.not_empty})
          /\ ier' = IF mode = "QUEUE" THEN write_ier(txq, buffer') ELSE ier
  /\ UNCHANGED <<mode, lock, txq, thr, rbr, line, sent, put, got, notes, kernel>>

TakeKey(t, q) ==
  /\ ~intq_empty(q)
  /\ got' = Append(got, Oldest(q))
  /\ buffer' = Taken(q)
  /\ ier' = IF mode = "QUEUE" THEN write_ier(txq, buffer') ELSE ier
  /\ pc' = [pc EXCEPT ![t] = "start"]
  /\ UNCHANGED <<mode, lock, txq, thr, rbr, line, sent, put, typed, bounds, kernel>>

input_getc(t) ==
  \/ At(t, "start") /\ TakeKey(t, buffer)
  \/ At(t, "woken") /\ TakeKey(t, [buffer EXCEPT !.lock = NULL])

\* The buffer is empty: wait with the queue's lock, which a woken thread gives
\* up and takes again, or for the lock.  A thread that has slept for the lock
\* does not look at the buffer again; wait asserts that it is still empty.
GetcEmpty(t) ==
  /\ Up /\ pc[t] \in {"start", "lock", "woken"}
  /\ IF pc[t] = "lock" THEN buffer.lock = NULL ELSE intq_empty(buffer)
  /\ IF buffer.lock # NULL /\ pc[t] = "start"
     THEN pc' = [pc EXCEPT ![t] = "lock"] /\ UNCHANGED <<buffer, kernel>>
     ELSE /\ buffer' = Sleep(t, buffer, "not_empty")
          /\ pc' = [pc EXCEPT ![t] = "blocked"]
          /\ kernel' = IF intq_empty(buffer) THEN kernel ELSE "panic"
  /\ UNCHANGED <<mode, lock, txq, uart, sent, history, bounds>>

(***************************************************************************)
(* console.c.                                                              *)
(***************************************************************************)
\* Mutation: the console lock is not taken.
acquire_console_NoLock(t) ==
  /\ At(t, "start")
  /\ pc' = [pc EXCEPT ![t] = "print"]
  /\ UNCHANGED <<mode, lock, txq, buffer, uart, sent, history, bounds, kernel>>

acquire_console(t) ==
  /\ At(t, "start") /\ console_lock = NULL
  /\ console_lock' = t
  /\ pc' = [pc EXCEPT ![t] = "print"]
  /\ UNCHANGED <<mode, console_lock_depth, txq, buffer, uart, sent, history, bounds, kernel>>

\* A printf of the thread that is printing already.
Nested(t) ==
  /\ Printing(t) /\ console_lock = t /\ console_lock_depth = 0
  /\ <<t, 0>> \notin {put[i] : i \in DOMAIN put}
  /\ console_lock_depth' = console_lock_depth + 1
  /\ UNCHANGED <<mode, console_lock, txq, buffer, uart, pc, sent, history, bounds, kernel>>

release_console(t) ==
  /\ At(t, "print") /\ sent[t] = Length /\ console_lock_depth = 0
  /\ console_lock' = NULL
  /\ pc' = [pc EXCEPT ![t] = "done"]
  /\ UNCHANGED <<mode, console_lock_depth, txq, buffer, uart, sent, history, bounds, kernel>>

-----------------------------------------------------------------------------
Init ==
  /\ mode = "POLL"
  /\ console_lock = NULL /\ console_lock_depth = 0
  /\ txq = EmptyQueue /\ buffer = EmptyQueue
  /\ thr = NULL /\ rbr = NULL /\ ier = {} /\ line = <<>>
  /\ \E team \in Teams :
       pc = [t \in Writer \cup Reader |-> IF t \in team THEN "start" ELSE "done"]
  /\ sent = [t \in Writer |-> 0]
  /\ put = <<>> /\ typed = <<>> /\ got = <<>>
  /\ keys = 0 /\ notes = 0
  /\ kernel = "up"

WriterStep(t) ==
  \/ acquire_console(t) \/ release_console(t)
  \/ PutcPoll(t) \/ PutcQueue(t) \/ PutcFull(t) \/ PutcResume(t)

Next ==
  \/ \E t \in Writer : WriterStep(t) \/ Nested(t)
  \/ \E t \in Reader : input_getc(t) \/ GetcEmpty(t)
  \/ serial_init_queue \/ PutcOff \/ serial_interrupt \/ serial_flush
  \/ keyboard_interrupt \/ Send \/ Receive

Spec == Init /\ [][Next]_vars

\* Threads that can run do, the UART sends what it was given, and an interrupt
\* that is asked for comes.
Fairness ==
  /\ \A t \in Writer : WF_vars(WriterStep(t))
  /\ \A t \in Reader : WF_vars(input_getc(t))
  /\ WF_vars(serial_init_queue) /\ WF_vars(serial_interrupt) /\ WF_vars(Send)

FairSpec == Spec /\ Fairness

(***************************************************************************)
(* Properties.                                                             *)
(***************************************************************************)
\* Bytes leave the serial port in the order in which they were printed, and
\* input_getc returns them in the order in which they came, none twice and
\* none lost: through the wrap-around of the queues, the change from polling
\* to interrupts, polling with interrupts off and serial_flush.
InOrder ==
  /\ line \o InRegister \o Contents(txq) = put
  /\ got \o Contents(buffer) = typed

Apart ==
  \A i, j, k \in DOMAIN put :
    i < j /\ j < k /\ put[i][1] = put[k][1] /\ put[i][1] # NULL
      => put[j][1] \in {put[i][1], NULL}

\* "this lock is useful to prevent simultaneous printf() calls from mixing
\* their output" (console.c); interrupt handlers print without it.  It also
\* keeps wait's assertion in intq.c true for the transmit queue: no two threads
\* wait for room.  No such lock orders the readers of the keyboard: where the
\* assertion fails, it is for a reader that slept for the queue's lock while a
\* key came.
NotMixed ==
  /\ Apart
  /\ kernel = "panic" => buffer.not_empty \in Reader /\ ~intq_empty(buffer)

\* A thread that prints is not left waiting for room, and what was printed
\* leaves the port: the transmit interrupt is enabled whenever the queue has
\* something, and wakes the thread in not_full.
PrintEnds ==
  /\ \A t \in Writer : pc[t] = "print" ~> pc[t] = "done" \/ kernel # "up"
  /\ ~intq_empty(txq) ~> intq_empty(txq) \/ kernel # "up"
=============================================================================
