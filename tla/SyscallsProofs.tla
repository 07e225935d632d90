--------------------------- MODULE SyscallsProofs ---------------------------
(***************************************************************************)
(* Proofs about module Syscalls for any set of processes and any size of   *)
(* the table of descriptors.                                               *)
(***************************************************************************)
EXTENDS Syscalls, FiniteSetTheorems, WellFoundedInduction, TLAPS

\* Zenon proves most steps; the others say which prover they need.
USE Zenon

Label == {"user", "down", "in", "use", "get_fd", "set_fd", "up", "dead"}

Op == {"create", "remove", "open", "read", "write", "filesize", "close",
       "seek", "tell"}

Entry == File \cup {NULL, NAME}

Types ==
  /\ filesys_sema \in {0, 1}
  /\ file_descriptors \in [Index -> Entry]
  /\ pc \in [Proc -> Label]
  /\ op \in [Proc -> Op]
  /\ fd \in [Proc -> Fd]
  /\ file_ptr \in [Proc -> Entry]
  /\ opened \in Nat
  /\ own \in [Proc -> SUBSET Fd]
  /\ careful \in BOOLEAN

\* filesys_sema counts the processes that are inside, and of careful programs
\* it counts them exactly.
Exclusive ==
  /\ \A p, q \in Proc : p \in Holding /\ q \in Holding => p = q
  /\ \A p \in Proc : p \in Holding => filesys_sema = 0
  /\ careful /\ filesys_sema = 0 => \E p \in Proc : p \in Holding

\* What a call knows of its descriptor: open has none until it has taken an
\* entry, which holds the name and then the file.
Opening ==
  \A p \in Proc :
    /\ op[p] = "open" /\ pc[p] \in {"down", "in"} => fd[p] = 0
    /\ pc[p] = "use" => op[p] # "open"
    /\ pc[p] = "get_fd" => op[p] = "open" /\ fd[p] = 0 /\ file_ptr[p] > 0
    /\ pc[p] = "set_fd" => /\ op[p] = "open" /\ fd[p] >= 2 /\ file_ptr[p] > 0
                           /\ file_descriptors[fd[p] - 2] = NAME
    /\ pc[p] = "up" /\ op[p] = "open" /\ fd[p] # 0 =>
         fd[p] >= 2 /\ file_descriptors[fd[p] - 2] > 0

\* A descriptor that open has returned leads to a file, and careful programs
\* use no other.
Returned ==
  \A p \in Proc :
    /\ \A d \in own[p] : d >= 2 /\ file_descriptors[d - 2] > 0
    /\ careful /\ pc[p] \in {"down", "in"} =>
         /\ op[p] = "filesize" => fd[p] >= 2
         /\ op[p] \in {"seek", "tell"} => file_ptr[p] > 0

\* An entry holds a name only while the one process inside is about to put the
\* file there, or for ever when that process died there with the semaphore.
Naming ==
  \A i \in Index : file_descriptors[i] = NAME =>
    /\ filesys_sema = 0
    /\ \A p \in Proc : p \in Holding => pc[p] = "set_fd" /\ fd[p] - 2 = i

\* The calls that use a file have one.
Using == \A p \in Proc : pc[p] = "use" => file_ptr[p] > 0

IInv == Types /\ Exclusive /\ Opening /\ Returned /\ Naming /\ Using

\* get_file_descriptor takes an empty entry: the least one exists.
LEMMA MinIsEmpty ==
  ASSUME file_descriptors \in [Index -> Entry], Empty # {}
  PROVE  Min(Empty) \in Index /\ file_descriptors[Min(Empty)] = NULL
<1>1. Empty \subseteq Nat
  BY SizeAssumption, SMT DEF Empty, Index
<1> DEFINE R == {ss \in Nat \X Nat : ss[1] < ss[2]}
<1>a. IsWellFoundedOn(R, Nat)
  BY NatLessThanWellFounded DEF OpToRel
<1>2. PICK x \in Empty : \A y \in Empty : ~(<<y, x>> \in R)
  <2> HIDE DEF R
  <2> QED BY <1>1, <1>a, WFMin
<1>3. ASSUME NEW y \in Empty PROVE x <= y
  <2>1. x \in Nat /\ y \in Nat
    BY <1>1
  <2>2. y < x => <<y, x>> \in R
    BY <2>1
  <2>3. QED
    BY <1>2, <2>1, <2>2, SMT
<1>4. Min(Empty) \in Empty
  BY <1>3 DEF Min
<1>5. QED
  BY <1>4 DEF Empty

\* Init establishes the invariant.
LEMMA InitIInv == Init => IInv
<1> SUFFICES ASSUME Init PROVE IInv
  OBVIOUS
<1> USE SizeAssumption DEF Init, Index, Fd, NULL
<1>1. Types
  BY SMT DEF Types, Label, Op, Entry
<1>2. Exclusive
  BY SMT DEF Exclusive, Holding
<1>3. Opening /\ Returned /\ Naming /\ Using
  BY SMT DEF Opening, Returned, Naming, Using, NAME
<1>4. QED
  BY <1>1, <1>2, <1>3 DEF IInv

\* What a process brings to sema_down.
LEMMA Entering ==
  ASSUME IInv, NEW p \in Proc, Enter(p)
  PROVE  \E o \in Op, d \in Fd, label \in {"user", "down", "dead"}, f \in Entry :
           /\ Call(p, o, d, label)
           /\ file_ptr' = [file_ptr EXCEPT ![p] = f]
           /\ o = "open" => d = 0
           /\ careful /\ label = "down" =>
                /\ o = "filesize" => d >= 2
                /\ o \in {"seek", "tell"} => f > 0
<1> USE SizeAssumption DEF IInv, Types, Op, Fd, Entry, File, NULL, NAME
<1> DEFINE Goal ==
       \E o \in Op, d \in Fd, label \in {"user", "down", "dead"}, f \in Entry :
       /\ Call(p, o, d, label)
       /\ file_ptr' = [file_ptr EXCEPT ![p] = f]
       /\ o = "open" => d = 0
       /\ careful /\ label = "down" =>
            /\ o = "filesize" => d >= 2
            /\ o \in {"seek", "tell"} => f > 0
<1>0. file_ptr[p] \in Int /\ file_ptr = [file_ptr EXCEPT ![p] = file_ptr[p]]
  BY SMT
<1>1. CASE \E o \in {"create", "remove", "open"} : CallNamed(p, o)
  BY <1>0, <1>1, SMT DEF CallNamed
<1>2. CASE \E o \in {"create", "open", "read", "write"} : Refused(p, o)
  BY <1>0, <1>2, SMT DEF Refused
<1>3. ASSUME NEW d \in Fd, CallWrite(p, d) \/ CallClose(p, d) PROVE Goal
  BY <1>0, <1>3 DEF CallWrite, CallClose
<1>4. ASSUME NEW d \in Fd, CallFilesize(p, d) \/ CallRead(p, d) PROVE Goal
  BY <1>0, <1>4 DEF CallFilesize, CallRead, MayPass, Returned
<1>5. ASSUME NEW d \in Fd, NEW o \in {"seek", "tell"}, CallSeek(p, o, d) PROVE Goal
  <2>1. fd_to_file_ptr(d) \in Entry
    BY SMT DEF fd_to_file_ptr, Index, NULL
  <2>2. careful => fd_to_file_ptr(d) > 0
    BY <1>5, SMT DEF CallSeek, MayPass, Returned, fd_to_file_ptr
  <2>3. QED
    BY <1>5, <2>1, <2>2 DEF CallSeek
<1>6. QED
  BY <1>1, <1>2, <1>3, <1>4, <1>5, Enter(p) DEF Enter

\* The invariant is inductive.
LEMMA StepIInv == IInv /\ [Next]_vars => IInv'
<1> SUFFICES ASSUME IInv, [Next]_vars PROVE IInv'
  OBVIOUS
<1> USE SizeAssumption DEF IInv, Entry, File, NULL, NAME
<1>1. CASE UNCHANGED vars
  BY <1>1 DEF vars, Types, Exclusive, Opening, Returned, Naming, Using, Holding
<1>2. ASSUME NEW p \in Proc, Enter(p) PROVE IInv'
  <2>1. PICK o \in Op, d \in Fd, label \in {"user", "down", "dead"}, f \in Entry :
          /\ Call(p, o, d, label)
          /\ file_ptr' = [file_ptr EXCEPT ![p] = f]
          /\ o = "open" => d = 0
          /\ careful /\ label = "down" =>
               /\ o = "filesize" => d >= 2
               /\ o \in {"seek", "tell"} => f > 0
    BY <1>2, Entering
  <2> USE <2>1 DEF Call, At, Goto, quiet
  <2>2. Types'
    BY DEF Types, Label
  <2>3. Exclusive'
    BY DEF Types, Label, Exclusive, Holding
  <2>4. Opening'
    BY DEF Types, Label, Opening
  <2>5. Returned'
    BY DEF Types, Label, Returned
  <2>6. Naming' /\ Using'
    BY DEF Types, Label, Exclusive, Holding, Opening, Naming, Using
  <2>7. QED
    BY <2>2, <2>3, <2>4, <2>5, <2>6
<1>3. ASSUME NEW p \in Proc, SemaDown(p) PROVE IInv'
  <2> USE <1>3 DEF SemaDown, Available, At, Goto, quiet
  <2>1. Types'
    BY SMT DEF Types, Label
  <2>2. Exclusive'
    BY SMT DEF Types, Label, Exclusive, Holding
  <2>3. Opening' /\ Returned'
    BY DEF Types, Label, Opening, Returned
  <2>4. Naming' /\ Using'
    BY SMT DEF Types, Label, Exclusive, Holding, Opening, Naming, Using
  <2>5. QED
    BY <2>1, <2>2, <2>3, <2>4
<1>4. ASSUME NEW p \in Proc, WithFile(p) PROVE IInv'
  <2> USE <1>4 DEF WithFile, At, Goto, quiet, NoFile, fd_to_file_ptr, Index, Fd, NULL
  <2>1. Types'
    BY SMT DEF Types, Label
  <2>2. Exclusive'
    BY DEF Types, Label, Exclusive, Holding
  <2>3. Opening'
    BY DEF Types, Label, Opening
  <2>4. Returned'
    BY DEF Types, Label, Opening, Returned
  <2>5. Naming' /\ Using'
    BY SMT DEF Types, Label, Exclusive, Holding, Opening, Naming, Using
  <2>6. QED
    BY <2>1, <2>2, <2>3, <2>4, <2>5
<1>5. ASSUME NEW p \in Proc, FilesizeConsole(p) PROVE IInv'
  <2> USE <1>5 DEF FilesizeConsole, At, Goto, quiet, Fd
  <2>1. Types'
    BY DEF Types, Label
  <2>2. Exclusive'
    BY SMT DEF Types, Label, Exclusive, Holding, Returned
  <2>3. Opening'
    BY DEF Types, Label, Opening
  <2>4. Returned'
    BY DEF Types, Label, Opening, Returned
  <2>5. Naming' /\ Using'
    BY DEF Types, Label, Exclusive, Holding, Opening, Naming, Using
  <2>6. QED
    BY <2>1, <2>2, <2>3, <2>4, <2>5
<1>6. ASSUME NEW p \in Proc, Use(p) PROVE IInv'
  <2> USE <1>6 DEF Use, At, Goto, quiet
  <2>1. Types'
    BY DEF Types, Label
  <2>2. Exclusive'
    BY DEF Types, Label, Exclusive, Holding
  <2>3. Opening'
    BY DEF Types, Label, Opening
  <2>4. Returned'
    BY DEF Types, Label, Opening, Returned
  <2>5. Naming' /\ Using'
    BY DEF Types, Label, Exclusive, Holding, Opening, Naming, Using
  <2>6. QED
    BY <2>1, <2>2, <2>3, <2>4, <2>5
<1>7. ASSUME NEW p \in Proc, OpenFile(p) PROVE IInv'
  <2> USE <1>7 DEF OpenFile, At, Goto, quiet
  <2>1. Types'
    BY SMT DEF Types, Label
  <2>2. Exclusive'
    BY DEF Types, Label, Exclusive, Holding
  <2>3. Opening'
    BY SMT DEF Types, Label, Opening
  <2>4. Returned'
    BY DEF Types, Label, Opening, Returned
  <2>5. Naming' /\ Using'
    BY DEF Types, Label, Exclusive, Holding, Opening, Naming, Using
  <2>6. QED
    BY <2>1, <2>2, <2>3, <2>4, <2>5
<1>8. ASSUME NEW p \in Proc, GetFd(p) PROVE IInv'
  <2> USE <1>8, MinIsEmpty DEF GetFd, At, Goto, quiet, Fd, Index, NAME, NULL
  <2>1. Types'
    BY SMT DEF Types, Label
  <2>2. Exclusive'
    BY DEF Types, Label, Exclusive, Holding
  <2>3. Opening'
    BY SMT DEF Types, Label, Opening, Exclusive, Holding
  <2>4. Returned'
    BY SMT DEF Types, Label, Opening, Returned
  <2>5. Naming' /\ Using'
    BY SMT DEF Types, Label, Exclusive, Holding, Opening, Naming, Using
  <2>6. QED
    BY <2>1, <2>2, <2>3, <2>4, <2>5
<1>9. ASSUME NEW p \in Proc, GetFdFull(p) PROVE IInv'
  <2> USE <1>9 DEF GetFdFull, At, Goto, quiet
  <2>1. Types'
    BY DEF Types, Label
  <2>2. Exclusive'
    BY DEF Types, Label, Exclusive, Holding
  <2>3. Opening'
    BY DEF Types, Label, Opening
  <2>4. Returned'
    BY DEF Types, Label, Opening, Returned
  <2>5. Naming' /\ Using'
    BY DEF Types, Label, Exclusive, Holding, Opening, Naming, Using
  <2>6. QED
    BY <2>1, <2>2, <2>3, <2>4, <2>5
<1>10. ASSUME NEW p \in Proc, SetFd(p) PROVE IInv'
  <2> USE <1>10 DEF SetFd, At, Goto, quiet, Fd, Index, NAME
  <2>1. Types'
    BY DEF Types, Label
  <2>2. Exclusive'
    BY DEF Types, Label, Exclusive, Holding
  <2>3. Opening'
    BY SMT DEF Types, Label, Opening, Exclusive, Holding
  <2>4. Returned'
    BY SMT DEF Types, Label, Opening, Returned
  <2>5. Naming' /\ Using'
    BY SMT DEF Types, Label, Exclusive, Holding, Opening, Naming, Using
  <2>6. QED
    BY <2>1, <2>2, <2>3, <2>4, <2>5
<1>11. ASSUME NEW p \in Proc, OpenNoMemory(p) PROVE IInv'
  <2> USE <1>11 DEF OpenNoMemory, At, Goto, quiet
  <2>1. Types'
    BY DEF Types, Label
  <2>2. Exclusive'
    BY DEF Types, Label, Exclusive, Holding
  <2>3. Opening'
    BY DEF Types, Label, Opening
  <2>4. Returned'
    BY DEF Types, Label, Opening, Returned
  <2>5. Naming' /\ Using'
    BY DEF Types, Label, Exclusive, Holding, Opening, Naming, Using
  <2>6. QED
    BY <2>1, <2>2, <2>3, <2>4, <2>5
<1>12. ASSUME NEW p \in Proc, SemaUp(p) PROVE IInv'
  <2> USE <1>12 DEF SemaUp, At, Goto, quiet, Up, Fd, NULL
  <2>1. Types'
    BY SMT DEF Types, Label, Op, Exclusive, Holding
  <2>2. Exclusive'
    BY SMT DEF Types, Label, Exclusive, Holding
  <2>3. Opening'
    BY DEF Types, Label, Opening
  <2>4. Returned'
    BY DEF Types, Label, Opening, Returned
  <2>5. Naming' /\ Using'
    BY DEF Types, Label, Exclusive, Holding, Opening, Naming, Using
  <2>6. QED
    BY <2>1, <2>2, <2>3, <2>4, <2>5
<1>13. ASSUME NEW p \in Proc, Killed(p) PROVE IInv'
  <2> USE <1>13 DEF Killed, At, Goto, quiet, NAME
  <2>1. Types'
    BY DEF Types, Label
  <2>2. Exclusive'
    BY SMT DEF Types, Label, Exclusive, Holding, Returned
  <2>3. Opening'
    BY DEF Types, Label, Opening
  <2>4. Returned'
    BY DEF Types, Label, Opening, Returned
  <2>5. Naming' /\ Using'
    BY DEF Types, Label, Exclusive, Holding, Opening, Naming, Using
  <2>6. QED
    BY <2>1, <2>2, <2>3, <2>4, <2>5
<1>14. QED
  BY <1>1, <1>2, <1>3, <1>4, <1>5, <1>6, <1>7, <1>8, <1>9, <1>10, <1>11, <1>12, <1>13 DEF Next,
     Inside

\* One process at a time is inside the file system (syscall.c's sema_down and
\* sema_up around every call of filesys and file), for any number of processes.
THEOREM Exclusion == Spec => []OneInside
<1>1. IInv => OneInside
  <2> SUFFICES ASSUME IInv PROVE OneInside
    OBVIOUS
  <2>1. CASE Holding = {}
    BY <2>1, FS_EmptySet, SMT DEF OneInside, IInv, Exclusive
  <2>2. CASE Holding # {}
    <3>1. PICK p \in Proc : Holding = {p}
      BY <2>2, SMT DEF IInv, Exclusive, Holding
    <3>2. Cardinality(Holding) = 1
      BY <3>1, FS_Singleton
    <3>3. QED
      BY <3>1, <3>2, SMT DEF OneInside, IInv, Exclusive
  <2>3. QED
    BY <2>1, <2>2
<1>2. QED
  BY InitIInv, StepIInv, <1>1, PTL DEF Spec

\* read, write, filesize, seek and tell work on a file and never on the name
\* that get_file_descriptor stores for a moment, whatever other processes do.
THEOREM FilesUsed == Spec => []UsesFile
<1>1. IInv => UsesFile
  BY SizeAssumption, SMT DEF IInv, Types, Label, Entry, Using, Returned, UsesFile, TypeOK,
       File, NULL, NAME
<1>2. QED
  BY InitIInv, StepIInv, <1>1, PTL DEF Spec

\* get_file_descriptor and open change no entry that leads to a file, so a
\* descriptor keeps its file whatever other processes open.
THEOREM DescriptorsKept == Spec => FdKept
<1>1. IInv /\ [Next]_vars =>
        [\A i \in Index : file_descriptors[i] \in File =>
                            file_descriptors'[i] = file_descriptors[i]]_vars
  <2> SUFFICES ASSUME IInv, Next, NEW i \in Index, file_descriptors[i] \in File
               PROVE  file_descriptors'[i] = file_descriptors[i]
    OBVIOUS
  <2>1. PICK p \in Proc : Enter(p) \/ SemaDown(p) \/ Inside(p) \/ Killed(p)
    BY DEF Next
  <2>2. CASE GetFd(p)
    BY <2>2, MinIsEmpty DEF GetFd, IInv, Types, File, NULL
  <2>3. CASE SetFd(p)
    BY <2>3, SizeAssumption, SMT DEF SetFd, At, IInv, Types, Opening, File, NAME
  <2>4. CASE Enter(p)
    BY <2>4, Entering DEF Call
  <2>5. CASE ~GetFd(p) /\ ~SetFd(p) /\ ~Enter(p)
    BY <2>1, <2>5 DEF Inside, SemaDown, Killed, WithFile, FilesizeConsole, Use,
         OpenFile, GetFdFull, OpenNoMemory, SemaUp
  <2>6. QED
    BY <2>2, <2>3, <2>4, <2>5
<1>2. QED
  BY InitIInv, StepIInv, <1>1, PTL DEF Spec, FdKept
=============================================================================
