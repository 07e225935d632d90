--------------------------- MODULE ConsoleProofs ----------------------------
(***************************************************************************)
(* Proofs about module Console for any threads, any length of a message    *)
(* and any size of the queues.                                             *)
(***************************************************************************)
EXTENDS Console, SequenceTheorems, TLAPS

\* Zenon proves most steps; the others say which prover they need.
USE Zenon

B == INTQ_BUFSIZE

(***************************************************************************)
(* intq.c: the circular buffer is a queue.                                 *)
(***************************************************************************)
\* What a queue holds: a byte of a message, one of an interrupt handler, a key,
\* or nothing yet; and who waits for it.
Printed == (Writer \cup {NULL}) \X Nat
Item == Printed \cup Nat \cup {NULL}
Owner == Writer \cup Reader \cup {NULL}

Queue == [buf : [0 .. B - 1 -> Item], head : 0 .. B - 1, tail : 0 .. B - 1,
          lock : Owner, not_full : Owner, not_empty : Owner]

Size(h, t) == IF h >= t THEN h - t ELSE h - t + B

\* The arithmetic of positions in the buffer.
LEMMA Positions ==
  ASSUME NEW h \in 0 .. B - 1, NEW t \in 0 .. B - 1
  PROVE  /\ (h - t) % B = Size(h, t)
         /\ next(h) = IF h = B - 1 THEN 0 ELSE h + 1
         /\ \A i \in 1 .. B :
              (t + i - 1) % B = IF t + i - 1 < B THEN t + i - 1 ELSE t + i - 1 - B
<1>1. B \in Nat \ {0, 1}
  BY ConsoleAssumption DEF B
<1> HIDE DEF B
<1>2. \A a \in 0 .. B - 1 : a % B = a
  BY <1>1, SMT
<1>3. \A a \in B .. B + B - 1 : a % B = a - B
  BY <1>1, SMT
<1>4. \A a \in 1 - B .. 0 - 1 : a % B = a + B
  BY <1>1, SMT
<1>5. (h - t) % B = Size(h, t)
  BY <1>1, <1>2, <1>4, SMT DEF Size
<1>6. next(h) = IF h = B - 1 THEN 0 ELSE h + 1
  <2>1. next(h) = (h + 1) % B
    BY DEF next, B
  <2>2. QED
    BY <1>1, <1>2, <1>3, <2>1, SMT
<1>7. \A i \in 1 .. B :
        (t + i - 1) % B = IF t + i - 1 < B THEN t + i - 1 ELSE t + i - 1 - B
  BY <1>1, <1>2, <1>3, SMT
<1>8. QED
  BY <1>5, <1>6, <1>7

\* A queue that is not full has one byte more when head has moved on.
LEMMA Growing ==
  ASSUME NEW h \in 0 .. B - 1, NEW t \in 0 .. B - 1, next(h) # t
  PROVE  Size(h, t) \in 0 .. B - 2 /\ Size(next(h), t) = Size(h, t) + 1
<1>1. B \in Nat \ {0, 1}
  BY ConsoleAssumption DEF B
<1>2. next(h) = IF h = B - 1 THEN 0 ELSE h + 1
  BY Positions
<1>3. CASE h = B - 1
  <2>1. t > 0
    BY <1>1, <1>2, <1>3, SMT
  <2>2. Size(h, t) = B - 1 - t /\ Size(next(h), t) = B - t
    BY <1>1, <1>2, <1>3, <2>1, SMT DEF Size
  <2>3. QED
    BY <1>1, <2>1, <2>2, SMT
<1>4. CASE h # B - 1 /\ h >= t
  BY <1>1, <1>2, <1>4, SMT DEF Size
<1>5. CASE h # B - 1 /\ h < t
  <2>1. h + 1 < t
    BY <1>1, <1>2, <1>5, SMT
  <2>2. Size(h, t) = h - t + B /\ Size(next(h), t) = h + 1 - t + B
    BY <1>1, <1>2, <1>5, <2>1, SMT DEF Size
  <2>3. QED
    BY <1>1, <2>1, <2>2, SMT
<1>6. QED
  BY <1>3, <1>4, <1>5, SMT

\* intq_putc changes these members.
LEMMA AddedQueue ==
  ASSUME NEW q \in Queue, NEW e \in Item
  PROVE  /\ Added(q, e) \in Queue
         /\ Added(q, e).buf = [q.buf EXCEPT ![q.head] = e]
         /\ Added(q, e).head = next(q.head) /\ Added(q, e).tail = q.tail
         /\ Added(q, e).lock = q.lock /\ Added(q, e).not_full = q.not_full
         /\ Added(q, e).not_empty = NULL
<1>1. next(q.head) \in 0 .. B - 1
  BY ConsoleAssumption, SMT DEF Queue, next, B
<1>2. QED
  BY <1>1 DEF Added, Queue, Owner

\* intq_getc changes these.
LEMMA TakenQueue ==
  ASSUME NEW q \in Queue
  PROVE  /\ Taken(q) \in Queue
         /\ Taken(q).buf = q.buf
         /\ Taken(q).head = q.head /\ Taken(q).tail = next(q.tail)
         /\ Taken(q).lock = q.lock /\ Taken(q).not_full = NULL
         /\ Taken(q).not_empty = q.not_empty
<1>1. next(q.tail) \in 0 .. B - 1
  BY ConsoleAssumption, SMT DEF Queue, next, B
<1>2. QED
  BY <1>1 DEF Taken, Queue, Owner

\* wait changes these.
LEMMA SleepQueue ==
  ASSUME NEW q \in Queue, NEW t \in Writer \cup Reader
  PROVE  /\ \A m \in {"not_full", "not_empty"} :
              /\ Sleep(t, q, m) \in Queue /\ Sleep(t, q, m).lock = t
              /\ Sleep(t, q, m).buf = q.buf
              /\ Sleep(t, q, m).head = q.head /\ Sleep(t, q, m).tail = q.tail
         /\ Sleep(t, q, "not_full").not_full = t
         /\ Sleep(t, q, "not_full").not_empty = q.not_empty
         /\ Sleep(t, q, "not_empty").not_full = q.not_full
         /\ Sleep(t, q, "not_empty").not_empty = t
BY DEF Sleep, Queue, Owner

\* lock_release changes nothing else.
LEMMA UnlockQueue ==
  ASSUME NEW q \in Queue
  PROVE  LET r == [q EXCEPT !.lock = NULL] IN
         /\ r \in Queue /\ r.lock = NULL /\ r.buf = q.buf
         /\ r.head = q.head /\ r.tail = q.tail
         /\ r.not_full = q.not_full /\ r.not_empty = q.not_empty
BY DEF Queue, Owner

\* intq_putc puts the byte behind those that are in the queue.
LEMMA AddedContents ==
  ASSUME NEW q \in Queue, ~intq_full(q), NEW S, Contents(q) \in Seq(S),
         NEW e \in S, e \in Item
  PROVE  Contents(Added(q, e)) = Append(Contents(q), e)
<1> DEFINE a == Added(q, e)
           n == Size(q.head, q.tail)
<1>1. B \in Nat \ {0, 1} /\ q.head \in 0 .. B - 1 /\ q.tail \in 0 .. B - 1
  BY ConsoleAssumption DEF B, Queue
<1>2. next(q.head) = IF q.head = B - 1 THEN 0 ELSE q.head + 1
  BY <1>1, Positions
<1>3. a.head = next(q.head) /\ a.tail = q.tail
  BY AddedQueue
<1>4. \A i \in 0 .. B - 1 : a.buf[i] = IF i = q.head THEN e ELSE q.buf[i]
  <2>1. a.buf = [q.buf EXCEPT ![q.head] = e]
    BY AddedQueue
  <2>2. QED
    BY <2>1 DEF Queue
<1> HIDE DEF a
<1>5. next(q.head) # q.tail
  BY DEF intq_full
<1>6. n \in 0 .. B - 2 /\ Size(a.head, a.tail) = n + 1
  BY <1>1, <1>3, <1>5, Growing
<1>7. Contents(q) = [i \in 1 .. n |-> q.buf[(q.tail + i - 1) % B]]
  BY <1>1, Positions DEF Contents, B
<1>8. Contents(a) = [i \in 1 .. n + 1 |-> a.buf[(q.tail + i - 1) % B]]
  <2>1. a.head \in 0 .. B - 1 /\ a.tail \in 0 .. B - 1
    BY <1>1, <1>2, <1>3, SMT
  <2>2. (a.head - a.tail) % B = n + 1
    BY <1>6, <2>1, Positions
  <2>3. QED
    BY <1>3, <2>2 DEF Contents, B
<1>9. \A i \in 1 .. n : a.buf[(q.tail + i - 1) % B] = q.buf[(q.tail + i - 1) % B]
  <2> SUFFICES ASSUME NEW i \in 1 .. n
               PROVE  a.buf[(q.tail + i - 1) % B] = q.buf[(q.tail + i - 1) % B]
    OBVIOUS
  <2> DEFINE p == (q.tail + i - 1) % B
  <2>1. p = IF q.tail + i - 1 < B THEN q.tail + i - 1 ELSE q.tail + i - 1 - B
    <3>1. i \in 1 .. B
      BY <1>1, <1>6, SMT
    <3>2. QED
      BY <1>1, <3>1, Positions
  <2> HIDE DEF p
  <2>2. p \in 0 .. B - 1 /\ p # q.head
    <3>1. CASE q.head >= q.tail
      BY <1>1, <2>1, <3>1, SMT DEF Size
    <3>2. CASE q.head < q.tail
      BY <1>1, <2>1, <3>2, SMTT(30) DEF Size
    <3>3. QED
      BY <1>1, <3>1, <3>2, SMT
  <2>3. a.buf[p] = q.buf[p]
    BY <1>4, <2>2
  <2>4. QED
    BY <2>3 DEF p
<1>10. a.buf[(q.tail + (n + 1) - 1) % B] = e
  <2> DEFINE p == (q.tail + (n + 1) - 1) % B
  <2>1. p = IF q.tail + (n + 1) - 1 < B THEN q.tail + (n + 1) - 1
            ELSE q.tail + (n + 1) - 1 - B
    <3>1. n + 1 \in 1 .. B
      BY <1>1, <1>6, SMT
    <3>2. QED
      BY <1>1, <3>1, Positions
  <2> HIDE DEF p
  <2>2. p = q.head
    BY <1>1, <1>6, <2>1, SMTT(30) DEF Size
  <2>3. a.buf[p] = e
    BY <1>1, <1>4, <2>2
  <2>4. QED
    BY <2>3 DEF p
<1> HIDE DEF n
<1>11. Contents(a) = Append(Contents(q), e)
  <2>1. Len(Contents(q)) = n /\ Len(Append(Contents(q), e)) = n + 1
    BY <1>6, <1>7, AppendProperties, SMT
  <2>2. Append(Contents(q), e) = [i \in 1 .. n + 1 |-> IF i = n + 1 THEN e ELSE Contents(q)[i]]
    <3> DEFINE c == Append(Contents(q), e)
    <3>1. c \in Seq(S) /\ c[n + 1] = e /\ \A i \in 1 .. n : c[i] = Contents(q)[i]
      BY <2>1, AppendProperties, SMT
    <3>2. c = [i \in 1 .. n + 1 |-> c[i]]
      BY <2>1, <3>1, LenProperties
    <3> HIDE DEF c
    <3>3. QED
      BY <1>6, <3>1, <3>2, SMT DEF c
  <2>3. \A i \in 1 .. n + 1 :
          a.buf[(q.tail + i - 1) % B] = IF i = n + 1 THEN e ELSE Contents(q)[i]
    BY <1>6, <1>7, <1>9, <1>10, SMT
  <2>4. QED
    BY <1>8, <2>2, <2>3
<1>12. QED
  BY <1>11 DEF a

\* The tail moves on.
LEMMA OneLess ==
  ASSUME B \in Nat \ {0, 1}, NEW h \in 0 .. B - 1, NEW t \in 0 .. B - 1, h # t,
         NEW u, u = IF t = B - 1 THEN 0 ELSE t + 1
  PROVE  Size(h, t) \in 1 .. B - 1 /\ Size(h, u) = Size(h, t) - 1
<1>1. CASE t = B - 1
  BY <1>1, SMT DEF Size
<1>2. CASE t # B - 1 /\ h > t
  BY <1>2, SMT DEF Size
<1>3. CASE t # B - 1 /\ h < t
  BY <1>3, SMT DEF Size
<1>4. h > t \/ h < t
  BY SMT
<1>5. QED
  BY <1>1, <1>2, <1>3, <1>4

\* intq_getc takes the byte that has been in the queue longest.
LEMMA TakenContents ==
  ASSUME NEW q \in Queue, ~intq_empty(q), NEW S, Contents(q) \in Seq(S)
  PROVE  /\ Oldest(q) \in S /\ Contents(Taken(q)) \in Seq(S)
         /\ Contents(q) = <<Oldest(q)>> \o Contents(Taken(q))
         /\ ~intq_full(Taken(q))
<1> DEFINE a == Taken(q)
           n == Size(q.head, q.tail)
<1>1. B \in Nat \ {0, 1} /\ q.head \in 0 .. B - 1 /\ q.tail \in 0 .. B - 1
  BY ConsoleAssumption DEF B, Queue
<1>2. /\ next(q.tail) = IF q.tail = B - 1 THEN 0 ELSE q.tail + 1
      /\ next(q.head) = IF q.head = B - 1 THEN 0 ELSE q.head + 1
  BY <1>1, Positions
<1>3. a.head = q.head /\ a.tail = next(q.tail) /\ a.buf = q.buf
  BY TakenQueue
<1> HIDE DEF a
<1>4. q.head # q.tail
  BY DEF intq_empty
<1>5. n \in 1 .. B - 1 /\ Size(a.head, a.tail) = n - 1
  BY <1>1, <1>2, <1>3, <1>4, OneLess
<1>6. Contents(q) = [i \in 1 .. n |-> q.buf[(q.tail + i - 1) % B]]
  BY <1>1, Positions DEF Contents, B
<1>7. Contents(a) = [i \in 1 .. n - 1 |-> q.buf[(a.tail + i - 1) % B]]
  <2>1. a.head \in 0 .. B - 1 /\ a.tail \in 0 .. B - 1
    BY <1>1, <1>2, <1>3, SMT
  <2>2. (a.head - a.tail) % B = n - 1
    BY <1>5, <2>1, Positions
  <2>3. QED
    BY <1>3, <2>2 DEF Contents, B
<1>8. \A i \in 1 .. n - 1 : (a.tail + i - 1) % B = (q.tail + (i + 1) - 1) % B
  <2> SUFFICES ASSUME NEW i \in 1 .. n - 1
               PROVE  (a.tail + i - 1) % B = (q.tail + (i + 1) - 1) % B
    OBVIOUS
  <2>1. /\ i \in 1 .. B /\ i + 1 \in 1 .. B /\ a.tail \in 0 .. B - 1
    BY <1>1, <1>2, <1>3, <1>5, SMT
  <2>2. (a.tail + i - 1) % B
          = IF a.tail + i - 1 < B THEN a.tail + i - 1 ELSE a.tail + i - 1 - B
    BY <1>1, <2>1, Positions
  <2>3. (q.tail + (i + 1) - 1) % B
          = IF q.tail + (i + 1) - 1 < B THEN q.tail + (i + 1) - 1
            ELSE q.tail + (i + 1) - 1 - B
    BY <1>1, <2>1, Positions
  <2>4. QED
    BY <1>1, <1>2, <1>3, <1>5, <2>1, <2>2, <2>3, SMTT(30)
<1>9. (q.tail + 1 - 1) % B = q.tail
  <2>1. 1 \in 1 .. B
    BY <1>1, SMT
  <2>2. (q.tail + 1 - 1) % B = IF q.tail + 1 - 1 < B THEN q.tail + 1 - 1 ELSE q.tail + 1 - 1 - B
    BY <1>1, <2>1, Positions
  <2>3. QED
    BY <1>1, <2>2, SMT
<1> HIDE DEF n
<1>10. Contents(q)[1] = Oldest(q)
  BY <1>5, <1>6, <1>9, SMT DEF Oldest
<1>11. \A i \in 1 .. n - 1 : Contents(a)[i] = Contents(q)[i + 1]
  <2> SUFFICES ASSUME NEW i \in 1 .. n - 1 PROVE Contents(a)[i] = Contents(q)[i + 1]
    OBVIOUS
  <2>1. Contents(a)[i] = q.buf[(a.tail + i - 1) % B]
    BY <1>7
  <2>2. Contents(q)[i + 1] = q.buf[(q.tail + (i + 1) - 1) % B]
    BY <1>5, <1>6, SMT
  <2>3. QED
    BY <1>8, <2>1, <2>2
<1>12. /\ Len(Contents(q)) = n /\ \A i \in 1 .. n : Contents(q)[i] \in S
  BY <1>5, <1>6, ElementOfSeq, SMT
<1>13. Oldest(q) \in S /\ Contents(a) \in Seq(S) /\ Len(Contents(a)) = n - 1
  <2>1. \A i \in 1 .. n - 1 : Contents(a)[i] \in S
    BY <1>5, <1>11, <1>12, SMT
  <2>2. Contents(a) \in [1 .. n - 1 -> S]
    BY <1>7, <2>1
  <2>3. QED
    BY <1>5, <1>10, <1>12, <2>2, SMT
<1>14. Contents(q) = <<Oldest(q)>> \o Contents(a)
  <2> DEFINE c == <<Oldest(q)>> \o Contents(a)
  <2>1. c \in Seq(S) /\ Len(c) = n
    BY <1>5, <1>13, ConcatProperties, SMT
  <2>2. \A i \in 1 .. n : c[i] = Contents(q)[i]
    BY <1>5, <1>10, <1>11, <1>13, SMT
  <2> HIDE DEF c
  <2>3. Contents(q) = c
    BY <1>12, <2>1, <2>2, SeqEqual
  <2>4. QED
    BY <2>3 DEF c
<1>15. ~intq_full(a)
  BY <1>1, <1>2, <1>3, <1>4, SMT DEF intq_full
<1>16. QED
  BY <1>13, <1>14, <1>15 DEF a

\* An empty queue has no contents.
LEMMA EmptyContents ==
  ASSUME NEW q \in Queue, q.head = q.tail
  PROVE  Contents(q) = <<>>
<1>1. q.head \in 0 .. B - 1 /\ q.tail \in 0 .. B - 1
  BY DEF Queue
<1>2. (q.head - q.tail) % B = 0
  BY <1>1, Positions, ConsoleAssumption, SMT DEF Size, B
<1>3. QED
  BY <1>2, SMT DEF Contents, B

\* The contents are those of the buffer between tail and head.
LEMMA SameContents ==
  ASSUME NEW q, NEW r, q.buf = r.buf, q.head = r.head, q.tail = r.tail
  PROVE  Contents(q) = Contents(r)
BY DEF Contents

\* A byte added at the end is added at the end of the whole.
LEMMA AppendLast ==
  ASSUME NEW S, NEW s \in Seq(S), NEW t \in Seq(S), NEW u \in Seq(S), NEW e \in S
  PROVE  s \o t \o Append(u, e) = Append(s \o t \o u, e)
<1>1. Append(u, e) = u \o <<e>> /\ s \o t \in Seq(S) /\ <<e>> \in Seq(S)
  BY AppendIsConcat, ConcatProperties, SMT
<1>2. s \o t \o u \in Seq(S)
  BY <1>1, ConcatProperties
<1>3. Append(s \o t \o u, e) = (s \o t \o u) \o <<e>>
  BY <1>2, AppendIsConcat
<1>4. QED
  BY <1>1, <1>3, ConcatAssociative, SMT

(***************************************************************************)
(* The console.                                                            *)
(***************************************************************************)
T == Writer \cup Reader

Label == {"start", "print", "lock", "blocked", "woken", "done"}

Types ==
  /\ mode \in {"POLL", "QUEUE"}
  /\ console_lock_depth \in Nat
  /\ txq \in Queue /\ buffer \in Queue
  /\ thr \in Printed \cup {NULL} /\ rbr \in Nat \cup {NULL}
  /\ line \in Seq(Printed) /\ put \in Seq(Printed) /\ Contents(txq) \in Seq(Printed)
  /\ typed \in Seq(Nat) /\ got \in Seq(Nat) /\ Contents(buffer) \in Seq(Nat)
  /\ pc \in [T -> Label] /\ sent \in [Writer -> Nat]
  /\ keys \in Nat /\ notes \in Nat

\* While the port is polled nothing is queued and nobody waits for room.
Polled ==
  mode = "POLL" => /\ txq.head = txq.tail
                   /\ \A t \in Writer : pc[t] \notin {"blocked", "woken"}

\* The console lock belongs to the thread that is printing.
Holder ==
  \A t \in Writer :
    /\ pc[t] # "lock"
    /\ pc[t] \in {"print", "blocked", "woken"} <=> console_lock = t

\* So nobody else waits for room in the queue.
Waiter ==
  /\ txq.lock # NULL => txq.lock \in Writer /\ pc[txq.lock] \in {"blocked", "woken"}
  /\ txq.not_full # NULL => txq.not_full \in Writer /\ pc[txq.not_full] = "blocked"
  /\ buffer.not_empty # NULL => buffer.not_empty \in Reader

\* A thread that has not begun has put nothing, and since the thread that is
\* printing began nobody else has.
Turn ==
  /\ \A t \in Writer : pc[t] = "start" => \A i \in DOMAIN put : put[i][1] # t
  /\ console_lock # NULL =>
       \A i, j \in DOMAIN put :
         i < j /\ put[i][1] = console_lock => put[j][1] \in {console_lock, NULL}

IInv == Types /\ Polled /\ InOrder /\ Holder /\ Waiter /\ Turn /\ Apart

\* Init establishes the invariant.
LEMMA InitIInv == Init => IInv
<1> SUFFICES ASSUME Init PROVE IInv
  OBVIOUS
<1> USE ConsoleAssumption DEF Init
<1>1. EmptyQueue \in Queue /\ EmptyQueue.head = EmptyQueue.tail
  BY SMT DEF EmptyQueue, Queue, Item, Owner, B
<1>2. Contents(txq) = <<>> /\ Contents(buffer) = <<>> /\ InRegister = <<>>
  BY <1>1, EmptyContents DEF InRegister
<1>3. Types
  BY <1>1, <1>2, SMT DEF Types, T, Label
<1>4. Polled /\ InOrder
  BY <1>1, <1>2, SMT DEF Polled, InOrder
<1>5. Holder /\ Turn /\ Apart
  <2>1. console_lock = NULL /\ put = <<>> /\ \A t \in Writer : t # NULL
    OBVIOUS
  <2>2. \A t \in T : pc[t] \in {"start", "done"}
    BY DEF T
  <2>3. Holder
    BY <2>1, <2>2 DEF Holder, T
  <2>4. DOMAIN put = {}
    BY <2>1, SMT
  <2>5. QED
    BY <2>1, <2>3, <2>4 DEF Turn, Apart
<1>6. txq.lock = NULL /\ txq.not_full = NULL /\ buffer.not_empty = NULL
  BY DEF EmptyQueue
<1>7. QED
  BY <1>3, <1>4, <1>5, <1>6 DEF IInv, Waiter

(***************************************************************************)
(* What is put, taken and sent stays in order.                             *)
(***************************************************************************)
Out == line \o InRegister \o Contents(txq) = put
In == got \o Contents(buffer) = typed

\* NULL is not a byte.
LEMMA NoByte == NULL \notin Printed /\ NULL \notin Nat
BY ConsoleAssumption DEF Printed

\* The register holds at most a byte.
LEMMA RegisterType ==
  ASSUME thr \in Printed \cup {NULL} PROVE InRegister \in Seq(Printed)
BY SMT DEF InRegister

\* A byte is put into the queue, whose lock may have been given up before.
LEMMA PutQueue ==
  ASSUME Types, Out, NEW q \in Queue, NEW byte \in Printed, ~intq_full(q),
         q.buf = txq.buf, q.head = txq.head, q.tail = txq.tail,
         txq' = Added(q, byte), line' = line, thr' = thr, put' = Append(put, byte)
  PROVE  /\ txq' \in Queue /\ put' \in Seq(Printed)
         /\ Contents(txq') \in Seq(Printed) /\ Out'
<1>1. byte \in Item /\ Contents(q) = Contents(txq)
  BY SameContents DEF Item
<1>2. Contents(txq) \in Seq(Printed) /\ line \in Seq(Printed) /\ put \in Seq(Printed)
  BY DEF Types
<1>3. InRegister \in Seq(Printed) /\ InRegister' = InRegister
  BY RegisterType DEF Types, InRegister
<1>4. Contents(txq') = Append(Contents(txq), byte)
  BY <1>1, <1>2, AddedContents
<1>5. txq' \in Queue
  BY <1>1, AddedQueue
<1>6. put' \in Seq(Printed) /\ Contents(txq') \in Seq(Printed)
  BY <1>2, <1>4, AppendProperties, ZenonT(30)
<1>7. Out'
  <2>1. line \o InRegister \o Append(Contents(txq), byte)
          = Append(line \o InRegister \o Contents(txq), byte)
    BY <1>2, <1>3, AppendLast, SMTT(30)
  <2>2. QED
    BY <1>3, <1>4, <2>1 DEF Out
<1>8. QED
  BY <1>5, <1>6, <1>7

\* The oldest byte of the queue goes into the register, and what was there out.
LEMMA SentQueue ==
  ASSUME Types, ~intq_empty(txq)
  PROVE  /\ Oldest(txq) \in Printed /\ Oldest(txq) # NULL
         /\ Contents(Taken(txq)) \in Seq(Printed)
         /\ line \o InRegister \in Seq(Printed)
         /\ (line \o InRegister) \o <<Oldest(txq)>> \o Contents(Taken(txq))
              = line \o InRegister \o Contents(txq)
<1>1. txq \in Queue /\ Contents(txq) \in Seq(Printed) /\ line \in Seq(Printed)
  BY DEF Types
<1>2. InRegister \in Seq(Printed)
  BY RegisterType DEF Types
<1>3. /\ Oldest(txq) \in Printed /\ Contents(Taken(txq)) \in Seq(Printed)
      /\ Contents(txq) = <<Oldest(txq)>> \o Contents(Taken(txq))
  BY <1>1, TakenContents
<1>4. line \o InRegister \in Seq(Printed) /\ <<Oldest(txq)>> \in Seq(Printed)
  BY <1>1, <1>2, <1>3, ConcatProperties, SMT
<1>5. (line \o InRegister) \o <<Oldest(txq)>> \o Contents(Taken(txq))
        = (line \o InRegister) \o (<<Oldest(txq)>> \o Contents(Taken(txq)))
  BY <1>3, <1>4, ConcatAssociative, SMT
<1>6. QED
  BY <1>3, <1>4, <1>5, NoByte

\* A key is put into the input buffer.
LEMMA PutKey ==
  ASSUME Types, In, NEW key \in Nat, ~intq_full(buffer),
         buffer' = Added(buffer, key), typed' = Append(typed, key), got' = got
  PROVE  /\ buffer' \in Queue /\ typed' \in Seq(Nat) /\ buffer'.not_empty = NULL
         /\ Contents(buffer') \in Seq(Nat) /\ In'
<1>1. key \in Item
  BY DEF Item
<1>2. /\ Contents(buffer) \in Seq(Nat) /\ got \in Seq(Nat) /\ typed \in Seq(Nat)
      /\ buffer \in Queue
  BY DEF Types
<1>3. Contents(buffer') = Append(Contents(buffer), key)
  BY <1>1, <1>2, AddedContents
<1>4. /\ buffer' \in Queue /\ buffer'.not_empty = NULL
  BY <1>1, <1>2, AddedQueue
<1>5. typed' \in Seq(Nat) /\ Contents(buffer') \in Seq(Nat)
  BY <1>2, <1>3, AppendProperties, SMT
<1>6. In'
  <2>1. <<>> \in Seq(Nat) /\ got \o <<>> = got
    BY <1>2, ConcatEmptySeq, SMT
  <2>2. got \o <<>> \o Append(Contents(buffer), key)
          = Append(got \o <<>> \o Contents(buffer), key)
    BY <1>2, <2>1, AppendLast, SMT
  <2>3. QED
    BY <1>3, <2>1, <2>2 DEF In
<1>7. QED
  BY <1>4, <1>5, <1>6

\* A key is taken from it.
LEMMA TakeKeyOut ==
  ASSUME Types, In, NEW q \in Queue, ~intq_empty(q), q.buf = buffer.buf,
         q.head = buffer.head, q.tail = buffer.tail, q.not_empty = buffer.not_empty,
         got' = Append(got, Oldest(q)), buffer' = Taken(q), typed' = typed
  PROVE  /\ buffer' \in Queue /\ got' \in Seq(Nat)
         /\ buffer'.not_empty = buffer.not_empty
         /\ Contents(buffer') \in Seq(Nat) /\ In'
<1>1. Contents(q) \in Seq(Nat) /\ got \in Seq(Nat) /\ Contents(q) = Contents(buffer)
  BY SameContents DEF Types
<1>2. /\ Oldest(q) \in Nat /\ Contents(buffer') \in Seq(Nat)
      /\ Contents(q) = <<Oldest(q)>> \o Contents(buffer')
  BY <1>1, TakenContents
<1>3. buffer' \in Queue /\ buffer'.not_empty = buffer.not_empty
  BY TakenQueue
<1>4. got' \in Seq(Nat) /\ got' = got \o <<Oldest(q)>> /\ <<Oldest(q)>> \in Seq(Nat)
  BY <1>1, <1>2, AppendProperties, AppendIsConcat, SMT
<1>5. In'
  <2>1. got' \o Contents(buffer') = got \o (<<Oldest(q)>> \o Contents(buffer'))
    BY <1>1, <1>2, <1>4, ConcatAssociative, SMT
  <2>2. QED
    BY <1>1, <1>2, <2>1 DEF In
<1>6. QED
  BY <1>2, <1>3, <1>4, <1>5

(***************************************************************************)
(* Whose bytes are put.                                                    *)
(***************************************************************************)
\* A byte of the thread that holds the console lock, or of an interrupt
\* handler, mixes with nobody's message.
LEMMA BytesOfOne ==
  ASSUME Types, Turn, Apart, NEW byte \in Printed,
         byte[1] \in {console_lock, NULL},
         console_lock' = console_lock, put' = Append(put, byte),
         \A u \in Writer : pc'[u] = "start" => pc[u] = "start" /\ u # byte[1]
  PROVE  Turn' /\ Apart'
<1> DEFINE n == Len(put)
<1>1. put \in Seq(Printed)
  BY DEF Types
<1>2. n \in Nat /\ DOMAIN put = 1 .. n
  BY <1>1, LenProperties
<1>3. /\ DOMAIN put' = 1 .. n + 1 /\ put'[n + 1] = byte
      /\ \A i \in 1 .. n : put'[i] = put[i]
  BY <1>1, AppendProperties, LenProperties, SMT
<1> HIDE DEF n
<1>5. ASSUME NEW u \in Writer, pc'[u] = "start", NEW i \in DOMAIN put'
      PROVE  put'[i][1] # u
  <2>1. \A k \in DOMAIN put : put[k][1] # u
    BY <1>5 DEF Turn
  <2>2. CASE i = n + 1
    BY <1>3, <1>5, <2>2
  <2>3. CASE i \in 1 .. n
    BY <1>2, <1>3, <2>1, <2>3
  <2>4. QED
    BY <1>2, <1>3, <1>5, <2>2, <2>3, SMT
<1>6. ASSUME console_lock # NULL, NEW i \in DOMAIN put', NEW j \in DOMAIN put', i < j,
             put'[i][1] = console_lock
      PROVE  put'[j][1] \in {console_lock, NULL}
  <2>1. i \in 1 .. n
    BY <1>2, <1>3, <1>6, SMT
  <2>2. CASE j = n + 1
    BY <1>3, <2>2
  <2>3. CASE j \in 1 .. n
    BY <1>2, <1>3, <1>6, <2>1, <2>3 DEF Turn
  <2>4. QED
    BY <1>2, <1>3, <1>6, <2>2, <2>3, SMT
<1>7. Turn'
  BY <1>5, <1>6 DEF Turn
<1>8. ASSUME NEW i \in DOMAIN put', NEW j \in DOMAIN put', NEW k \in DOMAIN put',
             i < j, j < k, put'[i][1] = put'[k][1], put'[i][1] # NULL
      PROVE  put'[j][1] \in {put'[i][1], NULL}
  <2>1. i \in 1 .. n /\ j \in 1 .. n
    BY <1>2, <1>3, <1>8, SMT
  <2>2. CASE k = n + 1
    <3>1. put[i][1] = console_lock /\ console_lock # NULL
      BY <1>3, <1>8, <2>1, <2>2
    <3>2. QED
      BY <1>2, <1>3, <1>8, <2>1, <3>1 DEF Turn
  <2>3. CASE k \in 1 .. n
    BY <1>2, <1>3, <1>8, <2>1, <2>3 DEF Apart
  <2>4. QED
    BY <1>2, <1>3, <1>8, <2>2, <2>3, SMT
<1>9. QED
  BY <1>7, <1>8 DEF Apart

(***************************************************************************)
(* The steps.                                                              *)
(***************************************************************************)
\* A byte carries the name of the thread that prints it.
LEMMA ByteOf ==
  ASSUME Types, NEW t \in Writer
  PROVE  Byte(t) \in Printed /\ Byte(t)[1] = t
BY SMT DEF Types, Byte, Printed

\* After a byte the depth of the console lock or the place in the message has
\* changed.
LEMMA BytePutTypes ==
  ASSUME Types, NEW t \in Writer, BytePut(t)
  PROVE  console_lock_depth' \in Nat /\ sent' \in [Writer -> Nat]
<1>1. console_lock_depth \in Nat /\ sent \in [Writer -> Nat]
  BY DEF Types
<1>2. QED
  BY <1>1, SMT DEF BytePut

\* Only a thread that waits is woken.
LEMMA Woken ==
  ASSUME Types, Holder, Waiter, NEW ws \in SUBSET {buffer.not_empty, txq.not_full},
         pc' = Wake(ws), console_lock' = console_lock
  PROVE  /\ pc' \in [T -> Label] /\ Holder'
         /\ \A u \in Writer : pc'[u] = "start" <=> pc[u] = "start"
         /\ \A u \in Writer : pc'[u] \in {"blocked", "woken"}
                                <=> pc[u] \in {"blocked", "woken"}
         /\ \A u \in Writer : u \notin ws => pc'[u] = pc[u]
<1>1. pc \in [T -> Label]
  BY DEF Types
<1>2. pc' = [t \in T |-> IF t \in ws THEN "woken" ELSE pc[t]]
  BY DEF Wake, T
<1>3. \A u \in Writer : u \in ws => pc[u] = "blocked"
  BY ConsoleAssumption DEF Waiter
<1>4. \A u \in Writer : u \in T
  BY DEF T
<1>5. pc' \in [T -> Label]
  BY <1>1, <1>2 DEF Label
<1>6. \A u \in Writer : pc'[u] = IF u \in ws THEN "woken" ELSE pc[u]
  BY <1>2, <1>4
<1>7. Holder'
  BY <1>3, <1>6 DEF Holder
<1>8. QED
  BY <1>3, <1>5, <1>6, <1>7

\* serial_putc puts a byte into the queue.
LEMMA QueueByteStep ==
  ASSUME IInv, NEW t \in Writer, NEW q \in Queue, q.buf = txq.buf,
         q.head = txq.head, q.tail = txq.tail, q.not_full = txq.not_full,
         mode = "QUEUE",
         pc[t] \in {"print", "woken"}, q.lock \in {txq.lock, NULL},
         pc[t] = "woken" => q.lock = NULL,
         QueueByte(t, q)
  PROVE  IInv'
<1>1. Types /\ Polled /\ Out /\ In /\ Holder /\ Waiter /\ Turn /\ Apart
  BY DEF IInv, InOrder, Out, In
<1>2. Byte(t) \in Printed /\ Byte(t)[1] = t /\ Byte(t) \in Item
  BY <1>1, ByteOf DEF Item
<1>3. /\ txq' = Added(q, Byte(t)) /\ put' = Append(put, Byte(t)) /\ ~intq_full(q)
      /\ UNCHANGED <<mode, buffer, thr, rbr, line, keys, notes, kernel, console_lock,
                     typed, got>>
      /\ pc' = [pc EXCEPT ![t] = "print"] /\ BytePut(t)
  BY DEF QueueByte, BytePut, bounds
<1>4. /\ txq' \in Queue /\ put' \in Seq(Printed)
      /\ Contents(txq') \in Seq(Printed) /\ Out'
  BY <1>1, <1>2, <1>3, PutQueue
<1>5. console_lock_depth' \in Nat /\ sent' \in [Writer -> Nat]
  BY <1>1, <1>3, BytePutTypes
<1>6. txq'.lock = q.lock /\ txq'.not_full = txq.not_full
  BY <1>2, <1>3, AddedQueue
<1>7. pc \in [T -> Label] /\ t \in T
  BY <1>1 DEF Types, T
<1>8. pc' \in [T -> Label] /\ \A u \in Writer : pc'[u] = IF u = t THEN "print" ELSE pc[u]
  BY <1>3, <1>7 DEF T, Label
<1>9. console_lock = t
  BY <1>1 DEF Holder
<1>10. Types'
  BY <1>1, <1>3, <1>4, <1>5, <1>8 DEF Types
<1>11. Polled' /\ In'
  BY <1>1, <1>3 DEF Polled, In
<1>12. Holder'
  BY <1>1, <1>3, <1>8, <1>9, SMT DEF Holder
<1>13. Waiter'
  <2>1. txq.not_full # NULL => txq.not_full # t /\ pc[txq.not_full] = "blocked"
    BY <1>1 DEF Waiter
  <2>2. txq.not_full # NULL => txq.not_full \in Writer
    BY <1>1 DEF Waiter
  <2>3. txq'.lock # NULL => txq'.lock \in Writer /\ pc'[txq'.lock] \in {"blocked", "woken"}
    BY <1>1, <1>6, <1>8 DEF Waiter
  <2>4. QED
    BY <1>1, <1>3, <1>6, <1>8, <2>1, <2>2, <2>3 DEF Waiter
<1>14. Turn' /\ Apart'
  <2>1. \A u \in Writer : pc'[u] = "start" => pc[u] = "start" /\ u # Byte(t)[1]
    BY <1>2, <1>8
  <2>2. QED
    BY <1>1, <1>2, <1>3, <1>9, <2>1, BytesOfOne
<1>15. QED
  BY <1>4, <1>10, <1>11, <1>12, <1>13, <1>14 DEF IInv, InOrder, Out, In

\* serial_putc finds the queue full, and waits for room.
LEMMA SleepStep ==
  ASSUME IInv, NEW t \in Writer, pc[t] \in {"print", "woken"}, mode = "QUEUE",
         txq' = Sleep(t, txq, "not_full"), pc' = [pc EXCEPT ![t] = "blocked"],
         UNCHANGED <<mode, console_lock, console_lock_depth, buffer, thr, rbr, line,
                     sent, put, typed, got, keys, notes, kernel>>
  PROVE  IInv'
<1>1. Types /\ Polled /\ Out /\ In /\ Holder /\ Waiter /\ Turn /\ Apart
  BY DEF IInv, InOrder, Out, In
<1>2. txq \in Queue /\ pc \in [T -> Label] /\ t \in Writer \cup Reader /\ t \in T
  BY <1>1 DEF Types, T
<1>3. /\ txq' \in Queue /\ txq'.lock = t /\ txq'.not_full = t
      /\ txq'.buf = txq.buf /\ txq'.head = txq.head /\ txq'.tail = txq.tail
  BY <1>2, SleepQueue
<1>4. Contents(txq') = Contents(txq)
  BY <1>3, SameContents
<1>5. pc' \in [T -> Label] /\ \A u \in Writer : pc'[u] = IF u = t THEN "blocked" ELSE pc[u]
  BY <1>2 DEF T, Label
<1>6. Types'
  BY <1>1, <1>3, <1>4, <1>5 DEF Types
<1>7. Polled' /\ Out' /\ In'
  BY <1>1, <1>4 DEF Polled, Out, In, InRegister
<1>8. Holder'
  BY <1>1, <1>5, SMT DEF Holder
<1>9. Waiter'
  BY <1>1, <1>3, <1>5 DEF Waiter
<1>10. Turn' /\ Apart'
  BY <1>1, <1>5, SMT DEF Turn, Apart
<1>11. QED
  BY <1>6, <1>7, <1>8, <1>9, <1>10 DEF IInv, InOrder, Out, In

\* Every step preserves the invariant.
LEMMA StepIInv == IInv /\ [Next]_vars => IInv'
<1> SUFFICES ASSUME IInv, [Next]_vars PROVE IInv'
  OBVIOUS
<1>a. Types /\ Polled /\ Out /\ In /\ Holder /\ Waiter /\ Turn /\ Apart
  BY DEF IInv, InOrder, Out, In
<1>b. /\ pc \in [T -> Label] /\ txq \in Queue /\ buffer \in Queue
      /\ Contents(txq) \in Seq(Printed) /\ line \in Seq(Printed)
      /\ thr \in Printed \cup {NULL} /\ InRegister \in Seq(Printed)
  BY <1>a, RegisterType DEF Types
<1>c. Writer \subseteq T /\ Reader \subseteq T
  BY DEF T
<1>d. SUFFICES Types' /\ Polled' /\ Out' /\ In' /\ Holder' /\ Waiter' /\ Turn' /\ Apart'
  BY DEF IInv, InOrder, Out, In
<1>1. ASSUME NEW t \in Writer, acquire_console(t)
      PROVE  Types' /\ Polled' /\ Out' /\ In' /\ Holder' /\ Waiter' /\ Turn' /\ Apart'
  <2>1. /\ pc' = [pc EXCEPT ![t] = "print"] /\ pc[t] = "start"
        /\ console_lock = NULL /\ console_lock' = t
        /\ UNCHANGED <<mode, console_lock_depth, txq, buffer, thr, rbr, line, sent, put,
                       typed, got, keys, notes, kernel>>
    BY <1>1 DEF acquire_console, At, uart, history, bounds
  <2>2. pc' \in [T -> Label] /\ \A u \in Writer : pc'[u] = IF u = t THEN "print" ELSE pc[u]
    BY <1>b, <1>c, <2>1 DEF Label
  <2>3. Types' /\ Polled' /\ Out' /\ In'
    BY <1>a, <2>1, <2>2 DEF Types, Polled, Out, In, InRegister
  <2>4. Holder'
    BY <1>a, <2>1, <2>2, ConsoleAssumption, SMT DEF Holder
  <2>5. Waiter'
    BY <1>a, <2>1, <2>2 DEF Waiter
  <2>6. Turn' /\ Apart'
    BY <1>a, <2>1, <2>2 DEF Turn, Apart
  <2>7. QED
    BY <2>3, <2>4, <2>5, <2>6
<1>2. ASSUME NEW t \in Writer, release_console(t)
      PROVE  Types' /\ Polled' /\ Out' /\ In' /\ Holder' /\ Waiter' /\ Turn' /\ Apart'
  <2>1. /\ pc' = [pc EXCEPT ![t] = "done"] /\ pc[t] = "print"
        /\ console_lock' = NULL
        /\ UNCHANGED <<mode, console_lock_depth, txq, buffer, thr, rbr, line, sent, put,
                       typed, got, keys, notes, kernel>>
    BY <1>2 DEF release_console, At, uart, history, bounds
  <2>2. pc' \in [T -> Label] /\ \A u \in Writer : pc'[u] = IF u = t THEN "done" ELSE pc[u]
    BY <1>b, <1>c, <2>1 DEF Label
  <2>3. Types' /\ Polled' /\ Out' /\ In'
    BY <1>a, <2>1, <2>2 DEF Types, Polled, Out, In, InRegister
  <2>4. Holder'
    BY <1>a, <2>1, <2>2, ConsoleAssumption, SMT DEF Holder
  <2>5. Waiter'
    BY <1>a, <2>1, <2>2 DEF Waiter
  <2>6. Turn' /\ Apart'
    BY <1>a, <2>1, <2>2, SMT DEF Turn, Apart
  <2>7. QED
    BY <2>3, <2>4, <2>5, <2>6
<1>3. ASSUME NEW t \in Writer, PutcPoll(t)
      PROVE  Types' /\ Polled' /\ Out' /\ In' /\ Holder' /\ Waiter' /\ Turn' /\ Apart'
  <2> DEFINE byte == Byte(t)
  <2>1. /\ pc[t] = "print" /\ mode = "POLL" /\ BytePut(t)
        /\ line' = line \o InRegister /\ thr' = byte /\ put' = Append(put, byte)
        /\ UNCHANGED <<mode, console_lock, txq, buffer, rbr, pc, typed, got, keys, notes,
                       kernel>>
    BY <1>3 DEF PutcPoll, Printing, At, Transmit, BytePut, bounds
  <2>2. byte \in Printed /\ byte[1] = t /\ byte # NULL
    BY <1>a, ByteOf, NoByte
  <2> HIDE DEF byte
  <2>3. console_lock_depth' \in Nat /\ sent' \in [Writer -> Nat]
    BY <1>a, <2>1, BytePutTypes
  <2>4. /\ put' \in Seq(Printed) /\ line' \in Seq(Printed)
    BY <1>a, <1>b, <2>1, <2>2, AppendProperties, ConcatProperties DEF Types
  <2>5. Types'
    BY <1>a, <2>1, <2>2, <2>3, <2>4 DEF Types
  <2>6. Polled' /\ In' /\ Holder' /\ Waiter'
    BY <1>a, <2>1 DEF Polled, In, Holder, Waiter
  <2>7. Out'
    <3>1. Contents(txq) = <<>>
      BY <1>a, <1>b, <2>1, EmptyContents DEF Polled
    <3>2. line' \o <<>> = line' /\ put = line'
      BY <1>a, <2>1, <2>4, <3>1, ConcatEmptySeq DEF Out
    <3>3. InRegister' = <<byte>> /\ Contents(txq') = <<>>
      BY <2>1, <2>2, <3>1 DEF InRegister
    <3>4. line' \o <<byte>> = Append(line', byte) /\ line' \o <<byte>> \in Seq(Printed)
      BY <2>2, <2>4, AppendIsConcat, AppendProperties
    <3>5. (line' \o <<byte>>) \o <<>> = line' \o <<byte>>
      BY <3>4, ConcatEmptySeq
    <3>6. QED
      BY <2>1, <3>2, <3>3, <3>4, <3>5 DEF Out
  <2>8. Turn' /\ Apart'
    <3>1. console_lock = t
      BY <1>a, <2>1 DEF Holder
    <3>2. \A u \in Writer : pc'[u] = "start" => pc[u] = "start" /\ u # byte[1]
      BY <2>1, <2>2
    <3>3. QED
      BY <1>a, <2>1, <2>2, <3>1, <3>2, BytesOfOne
  <2>9. QED
    BY <2>5, <2>6, <2>7, <2>8
<1>4. ASSUME NEW t \in Writer, PutcQueue(t)
      PROVE  Types' /\ Polled' /\ Out' /\ In' /\ Holder' /\ Waiter' /\ Turn' /\ Apart'
  <2>1. pc[t] = "print" /\ mode = "QUEUE" /\ QueueByte(t, txq)
    BY <1>4 DEF PutcQueue, Printing, At
  <2>2. IInv'
    <3> DEFINE q == txq
    <3>1. /\ q \in Queue /\ q.lock \in {txq.lock, NULL} /\ q.buf = txq.buf /\ q.head = txq.head
          /\ q.tail = txq.tail /\ q.not_full = txq.not_full
      BY <1>b
    <3>2. QueueByte(t, q)
      BY <2>1
    <3> HIDE DEF q
    <3>3. QED
      BY <2>1, <3>1, <3>2, QueueByteStep
  <2>3. QED
    BY <2>2 DEF IInv, InOrder, Out, In
<1>5. ASSUME NEW t \in Writer, PutcFull(t)
      PROVE  Types' /\ Polled' /\ Out' /\ In' /\ Holder' /\ Waiter' /\ Turn' /\ Apart'
  <2>1. pc[t] = "print" /\ console_lock = t /\ mode = "QUEUE" /\ intq_full(txq)
    BY <1>5, <1>a DEF PutcFull, Holder
  <2>2. txq.lock = NULL
    BY <1>a, <2>1 DEF Holder, Waiter
  <2>3. /\ txq' = Sleep(t, txq, "not_full") /\ pc' = [pc EXCEPT ![t] = "blocked"]
        /\ UNCHANGED <<mode, console_lock, console_lock_depth, buffer, thr, rbr, line,
                       sent, put, typed, got, keys, notes, kernel>>
    BY <1>5, <2>1, <2>2 DEF PutcFull, lock, uart, history, bounds
  <2>4. IInv'
    BY <2>1, <2>3, SleepStep
  <2>5. QED
    BY <2>4 DEF IInv, InOrder, Out, In
<1>6. ASSUME NEW t \in Writer, PutcResume(t)
      PROVE  Types' /\ Polled' /\ Out' /\ In' /\ Holder' /\ Waiter' /\ Turn' /\ Apart'
  <2> SUFFICES IInv'
    BY DEF IInv, InOrder, Out, In
  <2>1. pc[t] = "woken" /\ mode = "QUEUE"
    BY <1>6, <1>a DEF PutcResume, At, Polled, Types
  <2>2. CASE QueueByte(t, [txq EXCEPT !.lock = NULL])
    <3> DEFINE q == [txq EXCEPT !.lock = NULL]
    <3>1. /\ q \in Queue /\ q.lock = NULL /\ q.buf = txq.buf /\ q.head = txq.head
          /\ q.tail = txq.tail /\ q.not_full = txq.not_full
      BY <1>b, UnlockQueue
    <3>2. QueueByte(t, q)
      BY <2>2
    <3> HIDE DEF q
    <3>3. QED
      BY <2>1, <3>1, <3>2, QueueByteStep
  <2>3. CASE /\ txq' = Sleep(t, txq, "not_full") /\ pc' = [pc EXCEPT ![t] = "blocked"]
             /\ UNCHANGED <<mode, lock, buffer, uart, sent, history, bounds, kernel>>
    <3>1. UNCHANGED <<mode, console_lock, console_lock_depth, buffer, thr, rbr, line,
                      sent, put, typed, got, keys, notes, kernel>>
      BY <2>3 DEF lock, uart, history, bounds
    <3>2. QED
      BY <2>1, <2>3, <3>1, SleepStep
  <2>4. QED
    BY <1>6, <2>2, <2>3 DEF PutcResume
<1>7. ASSUME NEW t \in Writer, Nested(t)
      PROVE  Types' /\ Polled' /\ Out' /\ In' /\ Holder' /\ Waiter' /\ Turn' /\ Apart'
  <2>1. /\ console_lock_depth' = console_lock_depth + 1
        /\ UNCHANGED <<mode, console_lock, txq, buffer, thr, rbr, line, pc, sent, put,
                       typed, got, keys, notes, kernel>>
    BY <1>7 DEF Nested, uart, history, bounds
  <2>2. console_lock_depth' \in Nat
    BY <1>a, <2>1, SMT DEF Types
  <2>3. Types' /\ Polled' /\ Out' /\ In'
    BY <1>a, <2>1, <2>2 DEF Types, Polled, Out, In, InRegister
  <2>4. Holder' /\ Waiter' /\ Turn' /\ Apart'
    BY <1>a, <2>1 DEF Holder, Waiter, Turn, Apart
  <2>5. QED
    BY <2>3, <2>4
<1>8. ASSUME NEW t \in Reader, input_getc(t)
      PROVE  Types' /\ Polled' /\ Out' /\ In' /\ Holder' /\ Waiter' /\ Turn' /\ Apart'
  <2>1. PICK q \in Queue :
          /\ TakeKey(t, q) /\ q.buf = buffer.buf /\ q.head = buffer.head
          /\ q.tail = buffer.tail /\ q.not_empty = buffer.not_empty
    <3>1. CASE TakeKey(t, buffer)
      BY <1>b, <3>1
    <3>2. CASE TakeKey(t, [buffer EXCEPT !.lock = NULL])
      <4> DEFINE r == [buffer EXCEPT !.lock = NULL]
      <4>1. /\ r \in Queue /\ r.buf = buffer.buf /\ r.head = buffer.head
            /\ r.tail = buffer.tail /\ r.not_empty = buffer.not_empty
        BY <1>b, UnlockQueue
      <4>2. TakeKey(t, r)
        BY <3>2
      <4> HIDE DEF r
      <4>3. QED
        BY <4>1, <4>2
    <3>3. QED
      BY <1>8, <3>1, <3>2 DEF input_getc
  <2>2. /\ ~intq_empty(q) /\ got' = Append(got, Oldest(q)) /\ buffer' = Taken(q)
        /\ pc' = [pc EXCEPT ![t] = "start"]
        /\ UNCHANGED <<mode, console_lock, console_lock_depth, txq, thr, rbr, line, sent,
                       put, typed, keys, notes, kernel>>
    BY <2>1 DEF TakeKey, lock, bounds
  <2>3. /\ buffer' \in Queue /\ got' \in Seq(Nat) /\ buffer'.not_empty = buffer.not_empty
        /\ Contents(buffer') \in Seq(Nat) /\ In'
    BY <1>a, <2>1, <2>2, TakeKeyOut
  <2>4. pc' \in [T -> Label] /\ \A u \in Writer : pc'[u] = pc[u]
    BY <1>b, <1>c, <2>2, ConsoleAssumption DEF Label
  <2>5. Types'
    BY <1>a, <2>2, <2>3, <2>4 DEF Types
  <2>6. Polled' /\ Out' /\ Holder'
    BY <1>a, <2>2, <2>4 DEF Polled, Out, InRegister, Holder
  <2>7. Waiter'
    BY <1>a, <2>2, <2>3, <2>4 DEF Waiter
  <2>8. Turn' /\ Apart'
    BY <1>a, <2>2, <2>4 DEF Turn, Apart
  <2>9. QED
    BY <2>3, <2>5, <2>6, <2>7, <2>8
<1>9. ASSUME NEW t \in Reader, GetcEmpty(t)
      PROVE  Types' /\ Polled' /\ Out' /\ In' /\ Holder' /\ Waiter' /\ Turn' /\ Apart'
  <2>1. /\ UNCHANGED <<mode, console_lock, console_lock_depth, txq, thr, rbr, line, sent,
                       put, typed, got, keys, notes>>
        /\ \/ buffer' = buffer /\ pc' = [pc EXCEPT ![t] = "lock"]
           \/ /\ buffer' = Sleep(t, buffer, "not_empty")
              /\ pc' = [pc EXCEPT ![t] = "blocked"]
    BY <1>9 DEF GetcEmpty, lock, uart, history, bounds
  <2>2. /\ buffer' \in Queue /\ buffer'.not_empty \in {t, buffer.not_empty}
        /\ Contents(buffer') = Contents(buffer)
    <3>1. CASE buffer' = Sleep(t, buffer, "not_empty")
      <4>1. /\ buffer' \in Queue /\ buffer'.not_empty = t /\ buffer'.buf = buffer.buf
            /\ buffer'.head = buffer.head /\ buffer'.tail = buffer.tail
        BY <1>b, <3>1, SleepQueue, SMT
      <4>2. QED
        BY <4>1, SameContents
    <3>2. QED
      BY <1>b, <2>1, <3>1
  <2>3. pc' \in [T -> Label] /\ \A u \in Writer : pc'[u] = pc[u]
    BY <1>b, <1>c, <2>1, ConsoleAssumption DEF Label
  <2>4. Types'
    BY <1>a, <2>1, <2>2, <2>3 DEF Types
  <2>5. Polled' /\ Out' /\ In' /\ Holder'
    BY <1>a, <2>1, <2>2, <2>3 DEF Polled, Out, In, InRegister, Holder
  <2>6. Waiter'
    BY <1>a, <2>1, <2>2, <2>3 DEF Waiter
  <2>7. Turn' /\ Apart'
    BY <1>a, <2>1, <2>3 DEF Turn, Apart
  <2>8. QED
    BY <2>4, <2>5, <2>6, <2>7
<1>10. ASSUME serial_init_queue
      PROVE  Types' /\ Polled' /\ Out' /\ In' /\ Holder' /\ Waiter' /\ Turn' /\ Apart'
  <2>1. /\ mode' = "QUEUE"
        /\ UNCHANGED <<console_lock, console_lock_depth, txq, buffer, thr, rbr, line, pc,
                       sent, put, typed, got, keys, notes, kernel>>
    BY <1>10 DEF serial_init_queue, lock, history, bounds
  <2>2. Types' /\ Polled' /\ Out' /\ In'
    BY <1>a, <2>1 DEF Types, Polled, Out, In, InRegister
  <2>3. Holder' /\ Waiter' /\ Turn' /\ Apart'
    BY <1>a, <2>1 DEF Holder, Waiter, Turn, Apart
  <2>4. QED
    BY <2>2, <2>3
<1>11. ASSUME PutcOff
      PROVE  Types' /\ Polled' /\ Out' /\ In' /\ Holder' /\ Waiter' /\ Turn' /\ Apart'
  <2> DEFINE byte == <<NULL, notes + 1>>
  <2>1. /\ mode = "QUEUE" /\ put' = Append(put, byte) /\ notes' = notes + 1
        /\ UNCHANGED <<mode, console_lock, console_lock_depth, buffer, rbr, sent, typed,
                       got, keys, kernel>>
    BY <1>11 DEF PutcOff, lock
  <2>2. /\ byte \in Printed /\ byte[1] = NULL /\ byte \in Item /\ notes' \in Nat
    BY <1>a, <2>1, SMT DEF Types, Printed, Item
  <2>3. \/ /\ intq_full(txq) /\ line' = line \o InRegister /\ thr' = Oldest(txq)
           /\ pc' = Wake({txq.not_full}) /\ txq' = Added(Taken(txq), byte)
        \/ /\ ~intq_full(txq) /\ txq' = Added(txq, byte) /\ UNCHANGED <<thr, line, pc>>
    BY <1>11 DEF PutcOff, Transmit
  <2> HIDE DEF byte
  <2>4. /\ txq' \in Queue /\ put' \in Seq(Printed) /\ Contents(txq') \in Seq(Printed)
        /\ line' \in Seq(Printed) /\ thr' \in Printed \cup {NULL} /\ Out'
    <3>1. CASE ~intq_full(txq) /\ txq' = Added(txq, byte) /\ UNCHANGED <<thr, line, pc>>
      BY <1>a, <1>b, <2>1, <2>2, <3>1, PutQueue
    <3>2. CASE /\ intq_full(txq) /\ line' = line \o InRegister /\ thr' = Oldest(txq)
               /\ txq' = Added(Taken(txq), byte)
      <4> DEFINE c == Contents(Taken(txq))
      <4>1. ~intq_empty(txq)
        <5>1. txq.head \in 0 .. B - 1
          BY <1>b DEF Queue
        <5>2. next(txq.head) = IF txq.head = B - 1 THEN 0 ELSE txq.head + 1
          BY <5>1, Positions
        <5>3. B \in Nat \ {0, 1}
          BY ConsoleAssumption DEF B
        <5>4. next(txq.head) # txq.head
          BY <5>1, <5>2, <5>3, SMT
        <5>5. QED
          BY <3>2, <5>4 DEF intq_full, intq_empty
      <4>2. /\ thr' \in Printed /\ thr' # NULL /\ c \in Seq(Printed)
            /\ line' \in Seq(Printed) /\ line' \o <<thr'>> \o c = put
        BY <1>a, <3>2, <4>1, SentQueue DEF Out
      <4>3. Taken(txq) \in Queue /\ ~intq_full(Taken(txq))
        BY <1>b, <4>1, TakenQueue, TakenContents
      <4>4. txq' \in Queue /\ Contents(txq') = Append(c, byte)
        BY <2>2, <3>2, <4>2, <4>3, AddedQueue, AddedContents, ZenonT(30)
      <4> HIDE DEF c
      <4>5. put' \in Seq(Printed) /\ Contents(txq') \in Seq(Printed)
        BY <1>a, <2>1, <2>2, <4>2, <4>4, AppendProperties, SMT DEF Types
      <4>6. <<thr'>> \in Seq(Printed) /\ InRegister' = <<thr'>>
        BY <4>2, SMT DEF InRegister
      <4>7. line' \o <<thr'>> \o Append(c, byte) = Append(line' \o <<thr'>> \o c, byte)
        BY <2>2, <4>2, <4>6, AppendLast, SMT
      <4>8. Out'
        BY <2>1, <4>2, <4>4, <4>6, <4>7 DEF Out
      <4>9. QED
        BY <4>2, <4>4, <4>5, <4>8
    <3>3. QED
      BY <2>3, <3>1, <3>2
  <2>5. /\ pc' \in [T -> Label] /\ Holder'
        /\ \A u \in Writer : pc'[u] = "start" <=> pc[u] = "start"
        /\ \A u \in Writer : pc'[u] \in {"blocked", "woken"}
                               <=> pc[u] \in {"blocked", "woken"}
    <3>1. CASE pc' = pc
      BY <1>a, <1>b, <2>1, <3>1 DEF Holder
    <3>2. CASE pc' = Wake({txq.not_full})
      <4>1. {txq.not_full} \in SUBSET {buffer.not_empty, txq.not_full}
        OBVIOUS
      <4>2. QED
        BY <1>a, <2>1, <3>2, <4>1, Woken
    <3>3. QED
      BY <2>3, <3>1, <3>2
  <2>6. /\ txq'.lock = txq.lock
        /\ txq'.not_full # NULL => txq'.not_full = txq.not_full /\ pc' = pc
    <3>1. CASE ~intq_full(txq) /\ txq' = Added(txq, byte) /\ UNCHANGED <<thr, line, pc>>
      BY <1>b, <2>2, <3>1, AddedQueue
    <3>2. CASE txq' = Added(Taken(txq), byte)
      <4> DEFINE q == Taken(txq)
      <4>1. q \in Queue /\ q.lock = txq.lock /\ q.not_full = NULL /\ txq' = Added(q, byte)
        BY <1>b, <3>2, TakenQueue
      <4> HIDE DEF q
      <4>2. txq'.lock = q.lock /\ txq'.not_full = q.not_full
        BY <2>2, <4>1, AddedQueue
      <4>3. txq'.lock = txq.lock
        BY <4>1, <4>2
      <4>4. txq'.not_full = NULL
        BY <4>1, <4>2
      <4>5. QED
        BY <4>3, <4>4
    <3>3. QED
      BY <2>3, <3>1, <3>2
  <2>7. Types'
    BY <1>a, <2>1, <2>2, <2>4, <2>5 DEF Types
  <2>8. Polled' /\ In'
    BY <1>a, <2>1 DEF Polled, In
  <2>9. Waiter'
    BY <1>a, <2>1, <2>5, <2>6 DEF Waiter
  <2>10. Turn' /\ Apart'
    <3>1. \A u \in Writer : pc'[u] = "start" => pc[u] = "start" /\ u # byte[1]
      BY <2>2, <2>5, ConsoleAssumption
    <3>2. QED
      BY <1>a, <2>1, <2>2, <3>1, BytesOfOne
  <2>11. QED
    BY <2>4, <2>5, <2>7, <2>8, <2>9, <2>10
<1>12. ASSUME serial_interrupt
      PROVE  Types' /\ Polled' /\ Out' /\ In' /\ Holder' /\ Waiter' /\ Turn' /\ Apart'
  <2> DEFINE receive == ~intq_full(buffer) /\ rbr # NULL
             transmit == ~intq_empty(txq) /\ thr = NULL
             ws == (IF receive THEN {buffer.not_empty} ELSE {})
                     \cup (IF transmit THEN {txq.not_full} ELSE {})
  <2>1. /\ mode = "QUEUE" /\ pc' = Wake(ws)
        /\ UNCHANGED <<mode, console_lock, console_lock_depth, line, sent, put, got, keys,
                       notes, kernel>>
    BY <1>12 DEF serial_interrupt, lock, bounds
  <2>2. /\ receive => /\ buffer' = Added(buffer, rbr) /\ typed' = Append(typed, rbr)
                      /\ rbr' = NULL
        /\ ~receive => UNCHANGED <<buffer, typed, rbr>>
    BY <1>12 DEF serial_interrupt
  <2>3. /\ transmit => txq' = Taken(txq) /\ thr' = Oldest(txq)
        /\ ~transmit => UNCHANGED <<txq, thr>>
    BY <1>12 DEF serial_interrupt
  <2>4. /\ buffer' \in Queue /\ typed' \in Seq(Nat) /\ rbr' \in Nat \cup {NULL}
        /\ Contents(buffer') \in Seq(Nat) /\ In'
        /\ buffer'.not_empty \in {buffer.not_empty, NULL}
    <3>1. CASE receive
      <4>1. rbr \in Nat
        BY <1>a, <3>1 DEF Types
      <4>2. QED
        BY <1>a, <2>1, <2>2, <3>1, <4>1, PutKey
    <3>2. CASE ~receive
      BY <1>a, <2>1, <2>2, <3>2 DEF Types, In
    <3>3. QED
      BY <3>1, <3>2
  <2>5. /\ txq' \in Queue /\ thr' \in Printed \cup {NULL}
        /\ Contents(txq') \in Seq(Printed) /\ Out'
    <3>1. CASE transmit
      <4>1. /\ thr' \in Printed /\ thr' # NULL /\ Contents(txq') \in Seq(Printed)
            /\ (line \o InRegister) \o <<thr'>> \o Contents(txq') = put
        BY <1>a, <2>3, <3>1, SentQueue DEF Out
      <4>2. line \o InRegister = line
        BY <1>b, <3>1, ConcatEmptySeq DEF InRegister
      <4>3. InRegister' = <<thr'>>
        BY <4>1 DEF InRegister
      <4>4. txq' \in Queue
        BY <1>b, <2>3, <3>1, TakenQueue
      <4>5. QED
        BY <2>1, <4>1, <4>2, <4>3, <4>4 DEF Out
    <3>2. CASE ~transmit
      BY <1>a, <1>b, <2>1, <2>3, <3>2 DEF Out, InRegister
    <3>3. QED
      BY <3>1, <3>2
  <2>6. /\ txq'.lock = txq.lock
        /\ txq'.not_full = IF transmit THEN NULL ELSE txq.not_full
    BY <1>b, <2>3, TakenQueue
  <2>7. ws \in SUBSET {buffer.not_empty, txq.not_full}
    OBVIOUS
  <2>8. ~transmit => ws \subseteq {buffer.not_empty}
    OBVIOUS
  <2> HIDE DEF receive, transmit, ws
  <2>9. /\ pc' \in [T -> Label] /\ Holder'
        /\ \A u \in Writer : pc'[u] = "start" <=> pc[u] = "start"
        /\ \A u \in Writer : pc'[u] \in {"blocked", "woken"}
                               <=> pc[u] \in {"blocked", "woken"}
        /\ \A u \in Writer : u \notin ws => pc'[u] = pc[u]
    BY <1>a, <2>1, <2>7, Woken
  <2>10. Types'
    BY <1>a, <2>1, <2>4, <2>5, <2>9 DEF Types
  <2>11. Polled'
    BY <1>a, <2>1 DEF Polled
  <2>12. Waiter'
    <3>1. txq'.not_full # NULL => txq'.not_full \in Writer /\ pc'[txq'.not_full] = "blocked"
      BY <1>a, <2>6, <2>8, <2>9, ConsoleAssumption DEF Waiter
    <3>2. QED
      BY <1>a, <2>4, <2>6, <2>9, <3>1 DEF Waiter
  <2>13. Turn' /\ Apart'
    BY <1>a, <2>1, <2>9 DEF Turn, Apart
  <2>14. QED
    BY <2>4, <2>5, <2>9, <2>10, <2>11, <2>12, <2>13
<1>13. ASSUME serial_flush
      PROVE  Types' /\ Polled' /\ Out' /\ In' /\ Holder' /\ Waiter' /\ Turn' /\ Apart'
  <2>1. /\ line' = line \o InRegister \o Contents(txq) /\ thr' = NULL
        /\ txq' = [txq EXCEPT !.tail = txq.head] /\ kernel' = "off"
        /\ UNCHANGED <<mode, console_lock, console_lock_depth, buffer, rbr, pc, sent, put,
                       typed, got, keys, notes>>
    BY <1>13 DEF serial_flush, lock, history, bounds
  <2>2. /\ txq' \in Queue /\ txq'.head = txq'.tail /\ txq'.lock = txq.lock
        /\ txq'.not_full = txq.not_full
    BY <1>b, <2>1 DEF Queue
  <2>3. Contents(txq') = <<>> /\ InRegister' = <<>>
    BY <2>1, <2>2, EmptyContents DEF InRegister
  <2>4. line' = put /\ put \in Seq(Printed)
    BY <1>a, <2>1 DEF Out, Types
  <2>5. Types'
    BY <1>a, <2>1, <2>2, <2>3, <2>4, SMT DEF Types
  <2>6. Polled' /\ In' /\ Holder'
    BY <1>a, <2>1, <2>2 DEF Polled, In, Holder
  <2>7. Out'
    BY <2>1, <2>3, <2>4, ConcatEmptySeq DEF Out
  <2>8. Waiter' /\ Turn' /\ Apart'
    BY <1>a, <2>1, <2>2 DEF Waiter, Turn, Apart
  <2>9. QED
    BY <2>5, <2>6, <2>7, <2>8
<1>14. ASSUME keyboard_interrupt
      PROVE  Types' /\ Polled' /\ Out' /\ In' /\ Holder' /\ Waiter' /\ Turn' /\ Apart'
  <2>1. /\ keys' = keys + 1
        /\ UNCHANGED <<mode, console_lock, console_lock_depth, txq, thr, rbr, line, sent,
                       put, got, notes, kernel>>
        /\ \/ UNCHANGED <<buffer, typed, pc>>
           \/ /\ ~intq_full(buffer) /\ buffer' = Added(buffer, keys')
              /\ typed' = Append(typed, keys') /\ pc' = Wake({buffer.not_empty})
    BY <1>14 DEF keyboard_interrupt, lock
  <2>2. keys' \in Nat
    BY <1>a, <2>1, SMT DEF Types
  <2>3. /\ buffer' \in Queue /\ typed' \in Seq(Nat) /\ Contents(buffer') \in Seq(Nat) /\ In'
        /\ buffer'.not_empty \in {buffer.not_empty, NULL}
    <3>1. CASE UNCHANGED <<buffer, typed, pc>>
      BY <1>a, <2>1, <3>1 DEF Types, In
    <3>2. CASE /\ ~intq_full(buffer) /\ buffer' = Added(buffer, keys')
               /\ typed' = Append(typed, keys')
      BY <1>a, <2>1, <2>2, <3>2, PutKey
    <3>3. QED
      BY <2>1, <3>1, <3>2
  <2>4. /\ pc' \in [T -> Label] /\ Holder' /\ \A u \in Writer : pc'[u] = pc[u]
    <3>1. CASE pc' = pc
      BY <1>a, <1>b, <2>1, <3>1 DEF Holder
    <3>2. CASE pc' = Wake({buffer.not_empty})
      <4>1. {buffer.not_empty} \in SUBSET {buffer.not_empty, txq.not_full}
        OBVIOUS
      <4>2. \A u \in Writer : u \notin {buffer.not_empty}
        BY <1>a, ConsoleAssumption DEF Waiter
      <4>3. QED
        BY <1>a, <2>1, <3>2, <4>1, <4>2, Woken
    <3>3. QED
      BY <2>1, <3>1, <3>2
  <2>5. Types'
    BY <1>a, <2>1, <2>2, <2>3, <2>4 DEF Types
  <2>6. Polled' /\ Out'
    BY <1>a, <2>1, <2>4 DEF Polled, Out, InRegister
  <2>7. Waiter'
    BY <1>a, <2>1, <2>3, <2>4 DEF Waiter
  <2>8. Turn' /\ Apart'
    BY <1>a, <2>1, <2>4 DEF Turn, Apart
  <2>9. QED
    BY <2>3, <2>4, <2>5, <2>6, <2>7, <2>8
<1>15. ASSUME Send
      PROVE  Types' /\ Polled' /\ Out' /\ In' /\ Holder' /\ Waiter' /\ Turn' /\ Apart'
  <2>1. /\ thr # NULL /\ line' = Append(line, thr) /\ thr' = NULL
        /\ UNCHANGED <<mode, console_lock, console_lock_depth, txq, buffer, rbr, pc, sent,
                       put, typed, got, keys, notes, kernel>>
    BY <1>15 DEF Send, lock, history, bounds
  <2>2. thr \in Printed
    BY <1>b, <2>1
  <2>3. line' \in Seq(Printed) /\ line' = line \o <<thr>>
    BY <1>b, <2>1, <2>2, AppendProperties, AppendIsConcat
  <2>4. InRegister = <<thr>> /\ InRegister' = <<>> /\ line' \o <<>> = line'
    BY <2>1, <2>3, ConcatEmptySeq DEF InRegister
  <2>5. Out'
    BY <1>a, <2>1, <2>3, <2>4 DEF Out
  <2>6. Types'
    BY <1>a, <2>1, <2>3 DEF Types
  <2>7. Polled' /\ In' /\ Holder'
    BY <1>a, <2>1 DEF Polled, In, Holder
  <2>8. Waiter' /\ Turn' /\ Apart'
    BY <1>a, <2>1 DEF Waiter, Turn, Apart
  <2>9. QED
    BY <2>5, <2>6, <2>7, <2>8
<1>16. ASSUME Receive
      PROVE  Types' /\ Polled' /\ Out' /\ In' /\ Holder' /\ Waiter' /\ Turn' /\ Apart'
  <2>1. /\ rbr' = keys + 1 /\ keys' = keys + 1
        /\ UNCHANGED <<mode, console_lock, console_lock_depth, txq, buffer, thr, line, pc,
                       sent, put, typed, got, notes, kernel>>
    BY <1>16 DEF Receive, lock, history
  <2>2. rbr' \in Nat /\ keys' \in Nat
    BY <1>a, <2>1, SMT DEF Types
  <2>3. Types' /\ Polled' /\ Out' /\ In'
    BY <1>a, <2>1, <2>2 DEF Types, Polled, Out, In, InRegister
  <2>4. Holder' /\ Waiter' /\ Turn' /\ Apart'
    BY <1>a, <2>1 DEF Holder, Waiter, Turn, Apart
  <2>5. QED
    BY <2>3, <2>4
<1>17. ASSUME UNCHANGED vars
      PROVE  Types' /\ Polled' /\ Out' /\ In' /\ Holder' /\ Waiter' /\ Turn' /\ Apart'
  <2>1. UNCHANGED <<mode, console_lock, console_lock_depth, txq, buffer, thr, rbr, line, pc,
                    sent, put, typed, got, keys, notes, kernel>>
    BY <1>17 DEF vars, lock, uart, history, bounds
  <2>2. Types' /\ Polled' /\ Out' /\ In'
    BY <1>a, <2>1 DEF Types, Polled, Out, In, InRegister
  <2>3. Holder' /\ Waiter' /\ Turn' /\ Apart'
    BY <1>a, <2>1 DEF Holder, Waiter, Turn, Apart
  <2>4. QED
    BY <2>2, <2>3
<1>18. QED
  BY <1>1, <1>2, <1>3, <1>4, <1>5, <1>6, <1>7, <1>8, <1>9, <1>10, <1>11, <1>12, <1>13,
     <1>14, <1>15, <1>16, <1>17 DEF Next, WriterStep

\* Printing threads do not fail wait's assertion.
LEMMA WriterAsserts ==
  ASSUME IInv, NEW t \in Writer, WriterStep(t)
  PROVE  kernel' = kernel
<1>1. CASE PutcFull(t)
  <2>1. pc[t] = "print"
    BY <1>1 DEF PutcFull, IInv, Holder
  <2>2. QED
    BY <1>1, <2>1 DEF PutcFull
<1>2. QED
  BY <1>1 DEF WriterStep, acquire_console, release_console, PutcPoll, PutcQueue,
     QueueByte, PutcResume

(***************************************************************************)
(* One reader: it never finds the lock of the input buffer taken, so wait's *)
(* assertion holds whenever it gets there.                                 *)
(***************************************************************************)
Lone ==
  /\ kernel # "panic"
  /\ \A r \in Reader : /\ pc[r] # "lock"
                       /\ buffer.lock # NULL => pc[r] \in {"blocked", "woken"}

\* A reader's step.
LEMMA LoneReads ==
  ASSUME \A r, s \in Reader : r = s, IInv, Lone,
         NEW t \in Reader, input_getc(t) \/ GetcEmpty(t)
  PROVE  Lone'
<1>1. pc \in [T -> Label] /\ t \in T /\ buffer \in Queue /\ \A r \in Reader : r = t
  BY DEF IInv, Types, T
<1>2. /\ pc[t] # "lock" /\ kernel # "panic"
      /\ buffer.lock # NULL => pc[t] \in {"blocked", "woken"}
  BY DEF Lone
<1>3. CASE GetcEmpty(t)
  <2>1. intq_empty(buffer) /\ ~(buffer.lock # NULL /\ pc[t] = "start")
    BY <1>2, <1>3 DEF GetcEmpty
  <2>2. pc' = [pc EXCEPT ![t] = "blocked"] /\ kernel' = kernel
    BY <1>3, <2>1 DEF GetcEmpty
  <2>3. pc'[t] = "blocked"
    BY <1>1, <2>2
  <2>4. QED
    BY <1>1, <1>2, <2>2, <2>3 DEF Lone
<1>4. ASSUME NEW q \in Queue, TakeKey(t, q), q.lock = NULL
      PROVE  Lone'
  <2>1. buffer' = Taken(q) /\ pc' = [pc EXCEPT ![t] = "start"] /\ kernel' = kernel
    BY <1>4 DEF TakeKey
  <2>2. buffer'.lock = NULL
    BY <1>4, <2>1, TakenQueue
  <2>3. pc'[t] = "start"
    BY <1>1, <2>1
  <2>4. QED
    BY <1>1, <1>2, <2>1, <2>2, <2>3 DEF Lone
<1>5. CASE At(t, "start") /\ TakeKey(t, buffer)
  <2>1. buffer.lock = NULL
    BY <1>2, <1>5 DEF At
  <2>2. QED
    BY <1>1, <1>4, <1>5, <2>1
<1>6. CASE TakeKey(t, [buffer EXCEPT !.lock = NULL])
  <2> DEFINE q == [buffer EXCEPT !.lock = NULL]
  <2>1. q \in Queue /\ q.lock = NULL
    BY <1>1, UnlockQueue
  <2>2. TakeKey(t, q)
    BY <1>6
  <2> HIDE DEF q
  <2>3. QED
    BY <1>4, <2>1, <2>2
<1>7. QED
  BY <1>3, <1>5, <1>6 DEF input_getc

\* Every step: printing threads do not sleep for the lock of their queue, and
\* the others only wake the reader.
LEMMA LoneStep ==
  ASSUME \A r, s \in Reader : r = s, IInv, Lone, [Next]_vars
  PROVE  Lone'
<1>1. /\ pc \in [T -> Label] /\ buffer \in Queue /\ Writer \subseteq T
      /\ Reader \subseteq T /\ \A t \in Writer : t \notin Reader
  BY ConsoleAssumption DEF IInv, Types, T
<1>2. ASSUME buffer'.lock = buffer.lock, kernel' \in {kernel, "off"},
             \A r \in Reader : pc'[r] = pc[r] \/ pc'[r] = "woken"
      PROVE  Lone'
  BY <1>2 DEF Lone
<1>3. ASSUME NEW ws, pc' = Wake(ws), NEW r \in Reader
      PROVE  pc'[r] = pc[r] \/ pc'[r] = "woken"
  BY <1>3 DEF Wake
<1>4. ASSUME NEW t \in Writer, WriterStep(t)
      PROVE  Lone'
  <2>1. buffer' = buffer /\ \E label : pc' = [pc EXCEPT ![t] = label] \/ pc' = pc
    BY <1>4 DEF WriterStep, acquire_console, release_console, PutcPoll, PutcQueue,
       QueueByte, PutcFull, PutcResume
  <2>2. kernel' = kernel
    BY <1>4, WriterAsserts
  <2>3. \A r \in Reader : pc'[r] = pc[r]
    BY <1>1, <1>4, <2>1
  <2>4. QED
    BY <1>2, <2>1, <2>2, <2>3
<1>5. CASE \E t \in Writer : Nested(t)
  BY <1>2, <1>5 DEF Nested
<1>6. CASE serial_init_queue \/ serial_flush \/ Send \/ Receive
  BY <1>2, <1>6 DEF serial_init_queue, serial_flush, Send, Receive
<1>7. CASE PutcOff
  <2>1. UNCHANGED <<buffer, kernel>> /\ (pc' = pc \/ pc' = Wake({txq.not_full}))
    BY <1>7 DEF PutcOff
  <2>2. QED
    BY <1>2, <1>3, <2>1
<1>8. ASSUME NEW key \in Item, buffer' = Added(buffer, key)
      PROVE  buffer'.lock = buffer.lock
  BY <1>1, <1>8, AddedQueue
<1>9. CASE serial_interrupt
  <2>1. /\ kernel' = kernel
        /\ buffer' = buffer \/ (rbr # NULL /\ buffer' = Added(buffer, rbr))
    BY <1>9 DEF serial_interrupt
  <2>2. \E ws : pc' = Wake(ws)
    BY <1>9 DEF serial_interrupt
  <2>3. buffer'.lock = buffer.lock
    <3>1. rbr # NULL => rbr \in Item
      BY DEF IInv, Types, Item
    <3>2. QED
      BY <1>8, <2>1, <3>1
  <2>4. QED
    BY <1>2, <1>3, <2>1, <2>2, <2>3
<1>10. CASE keyboard_interrupt
  <2>1. /\ kernel' = kernel /\ keys' = keys + 1
        /\ buffer' = buffer \/ buffer' = Added(buffer, keys')
        /\ pc' = pc \/ pc' = Wake({buffer.not_empty})
    BY <1>10 DEF keyboard_interrupt
  <2>2. keys' \in Item
    <3>1. keys \in Nat
      BY DEF IInv, Types
    <3>2. keys' \in Nat
      BY <2>1, <3>1, SMT
    <3>3. QED
      BY <3>2 DEF Item
  <2>3. buffer'.lock = buffer.lock
    BY <1>8, <2>1, <2>2
  <2>4. QED
    BY <1>2, <1>3, <2>1, <2>3
<1>11. CASE UNCHANGED vars
  BY <1>2, <1>11 DEF vars
<1>12. QED
  BY <1>4, <1>5, <1>6, <1>7, <1>9, <1>10, <1>11, LoneReads DEF Next

(***************************************************************************)
(* The theorems.                                                           *)
(***************************************************************************)
\* Bytes leave the serial port in the order in which they were printed and
\* keys are returned in the order in which they were typed, for queues of any
\* size and any number of printing and reading threads.
THEOREM BytesInOrder == Spec => []InOrder
<1>1. Spec => []IInv
  BY InitIInv, StepIInv, PTL DEF Spec
<1>2. IInv => InOrder
  BY DEF IInv
<1>3. QED
  BY <1>1, <1>2, PTL

\* A step that fails an assertion is a reader's; after it there is none.
LEMMA StepNotMixed ==
  ASSUME IInv, IInv', NotMixed, [Next]_vars
  PROVE  NotMixed'
<1>1. Apart'
  BY DEF IInv
<1>2. CASE UNCHANGED vars
  BY <1>1, <1>2 DEF vars, NotMixed, intq_empty
<1>3. ASSUME NEW t \in Reader, GetcEmpty(t), kernel' = "panic"
      PROVE  buffer'.not_empty \in Reader /\ ~intq_empty(buffer')
  <2>1. kernel # "panic" /\ buffer \in Queue
    BY <1>3 DEF GetcEmpty, Up, IInv, Types
  <2>2. buffer' = Sleep(t, buffer, "not_empty") /\ ~intq_empty(buffer)
    BY <1>3, <2>1 DEF GetcEmpty
  <2>3. /\ buffer'.not_empty = t
        /\ buffer'.head = buffer.head /\ buffer'.tail = buffer.tail
    BY <1>3, <2>1, <2>2, SleepQueue, ZenonT(30)
  <2>4. QED
    BY <1>3, <2>2, <2>3 DEF intq_empty
<1>4. CASE Next
  <2>1. kernel # "panic"
    BY <1>4 DEF Next, WriterStep, acquire_console, release_console, PutcPoll, PutcQueue,
       PutcFull, PutcResume, Nested, Printing, input_getc, GetcEmpty, serial_init_queue,
       PutcOff, serial_interrupt, serial_flush, keyboard_interrupt, Send, Receive, At, Up
  <2>2. kernel' = "panic" => \E t \in Reader : GetcEmpty(t)
    BY <1>4, <2>1, WriterAsserts DEF Next, Nested, input_getc, TakeKey, serial_init_queue,
       PutcOff, serial_interrupt, serial_flush, keyboard_interrupt, Send, Receive
  <2>3. QED
    BY <1>1, <1>3, <2>2 DEF NotMixed
<1>5. QED
  BY <1>2, <1>4

\* The output of two calls of printf does not mix, and wait's assertion in
\* intq.c holds for the transmit queue, for any number of printing and reading
\* threads; where it fails, it is for a reader of the keyboard.
THEOREM MessagesNotMixed == Spec => []NotMixed
<1>1. Init => NotMixed
  BY InitIInv DEF Init, IInv, NotMixed
<1>2. IInv /\ IInv' /\ NotMixed /\ [Next]_vars => NotMixed'
  BY StepNotMixed
<1>3. QED
  BY <1>1, <1>2, InitIInv, StepIInv, PTL DEF Spec

\* With one reader wait's assertion in intq.c never fails: nobody makes it sleep
\* for the lock of the input buffer.
THEOREM OneReaderNoPanic ==
  ASSUME \A r, s \in Reader : r = s
  PROVE  Spec => [](kernel # "panic")
<1>1. Init => Lone
  <2> SUFFICES ASSUME Init PROVE Lone
    OBVIOUS
  <2>1. buffer.lock = NULL /\ kernel # "panic"
    BY DEF Init, EmptyQueue
  <2>2. \A r \in Reader : pc[r] \in {"start", "done"}
    BY DEF Init
  <2>3. QED
    BY <2>1, <2>2 DEF Lone
<1>2. IInv /\ Lone /\ [Next]_vars => Lone'
  BY LoneStep
<1>3. Lone => kernel # "panic"
  BY DEF Lone
<1>4. QED
  BY <1>1, <1>2, <1>3, InitIInv, StepIInv, PTL DEF Spec
=============================================================================
