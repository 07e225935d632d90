--------------------------- MODULE FilesysProofs ---------------------------
(***************************************************************************)
(* Proofs about module Filesys, when no unlocked operation overlaps        *)
(* another one: for any threads, names, sectors, file lengths and bounds.  *)
(***************************************************************************)
EXTENDS Filesys, TLAPS

\* Zenon proves most steps; the others say which prover they need.
USE Zenon

Label ==
  {"idle", "running", "up", "create", "create_map", "create_data",
   "create_data_map", "create_inode", "create_zero", "create_add", "fail",
   "fail_map", "lookup", "find", "alloc", "read", "opened", "write_check",
   "write", "mark", "close", "release", "release_map", "release_data",
   "release_data_map"}

\* The types of the locals.
Locals ==
  /\ pc \in [Thread -> Label]
  /\ op \in [Thread -> {"none", "create", "open", "remove", "write", "load"}]
  /\ name \in [Thread -> Name \cup {NONE}]
  /\ isec \in [Thread -> Sector \cup {NONE}]
  /\ data \in [Thread -> Extent]
  /\ ino \in [Thread -> Inodes \cup {NONE}]

Types == TypeOK /\ Locals

\* One thread is inside the file system, and a system call is so with
\* filesys_sema down.
Alone ==
  /\ \A t, u \in Thread : Busy(t) /\ Busy(u) => t = u
  /\ \A t \in Caller : Busy(t) => filesys_sema = 0

(***************************************************************************)
(* What is on disk.  A file lives while the directory has it or an inode   *)
(* object is open for it.                                                  *)
(***************************************************************************)
Entry(s) == \E i \in InUse : dir[i].inode_sector = s
Opened(i) == inode[i].open_cnt > 0
Live(s) == Entry(s) \/ \E i \in Inodes : Opened(i) /\ inode[i].sector = s
Own(s) == {s} \cup Blocks(disk_inode[s])

\* No live file has a sector among S.
Foreign(S) == \A s \in Sector : Live(s) => Own(s) \cap S = {}

Files ==
  /\ \A s, r \in Sector : Live(s) /\ Live(r) /\ s # r => Own(s) \cap Own(r) = {}
  /\ \A s \in Sector : Live(s) => disk_inode[s] # NoInode /\ Own(s) \subseteq free_map

\* The entries in use, by themselves.
Entries ==
  /\ \A i \in InUse : /\ dir[i].inode_sector \in Sector
                      /\ Own(dir[i].inode_sector) \subseteq disk_map
  /\ \A i, j \in InUse : i # j => /\ dir[i].inode_sector # dir[j].inode_sector
                                  /\ dir[i].name = dir[j].name =>
                                       dir[i].name \in missed

\* The inode objects in use hold what is on disk, or are about to be read.
Objects ==
  \A i \in Inodes :
    Opened(i) =>
      /\ inode[i].sector \in Sector
      /\ inode[i].removed => ~Entry(inode[i].sector)
      /\ \/ inode[i].data = disk_inode[inode[i].sector]
         \/ /\ inode[i].data = NoInode
            /\ \E t \in Thread : At(t, "read") /\ ino[t] = i

(***************************************************************************)
(* References to inode objects.                                            *)
(***************************************************************************)
Runners(i) == {t \in Loader : At(t, "running") /\ ino[t] = i}

Holding(i) ==
  \E t \in Thread : pc[t] \in {"read", "opened", "mark", "close"} /\ ino[t] = i

One(b) == IF b THEN 1 ELSE 0

Counted ==
  \A i \in Inodes :
    /\ IsFiniteSet(Runners(i))
    /\ inode[i].deny_write_cnt = Cardinality(Runners(i))
    /\ inode[i].deny_write_cnt + One(Holding(i)) + One(i \in files)
         <= inode[i].open_cnt

(***************************************************************************)
(* What the thread inside the file system may rely on, by the point it has *)
(* reached.                                                                *)
(***************************************************************************)
Creating(t) ==
  /\ pc[t] \in {"create_map", "create_data", "create_data_map", "create_inode",
                "create_zero", "create_add", "fail"} =>
       isec[t] \in free_map /\ Foreign({isec[t]})
  /\ pc[t] \in {"create_data_map", "create_inode", "create_zero", "create_add"} =>
       /\ data[t].start \in Sector
       /\ Blocks(data[t]) \subseteq free_map
       /\ isec[t] \notin Blocks(data[t])
       /\ Foreign(Blocks(data[t]))
  /\ pc[t] \in {"create_inode", "create_zero", "create_add"} =>
       isec[t] \in disk_map /\ Blocks(data[t]) \subseteq disk_map
  /\ pc[t] \in {"create_zero", "create_add"} => disk_inode[isec[t]] = data[t]

\* The entry that lookup found is still the one that dir_remove erases.
Located(t) ==
  LET i == First(Matches(name[t])) IN
  i \in InUse /\ dir[i].name = name[t] /\ dir[i].inode_sector = isec[t]

Looking(t) ==
  /\ pc[t] \in {"lookup", "find", "alloc", "read", "opened"} =>
       op[t] \in (IF t \in Caller THEN {"open", "remove"} ELSE {"load"})
  /\ pc[t] \in {"find", "alloc", "read"} \/ (At(t, "opened") /\ op[t] = "remove") =>
       Located(t)
  /\ At(t, "alloc") => OpenInodes(isec[t]) = {}
  /\ pc[t] \in {"read", "opened"} => inode[ino[t]].sector = isec[t]

Using(t) ==
  /\ pc[t] \in {"read", "opened", "mark", "close", "running"} => ino[t] \in Inodes
  /\ pc[t] \in {"write_check", "write"} => ino[t] \in files
  /\ At(t, "running") => t \in Loader
  /\ At(t, "write") => Writable(ino[t])
  /\ At(t, "mark") => ~Entry(inode[ino[t]].sector)

Releasing(t) ==
  /\ At(t, "release") => Foreign({isec[t]})
  /\ pc[t] \in {"release", "release_map", "release_data"} => Foreign(Blocks(data[t]))

Work == \A t \in Thread : Creating(t) /\ Looking(t) /\ Using(t) /\ Releasing(t)

IInv ==
  /\ Types /\ Alone /\ Files /\ Entries /\ Objects /\ SameInode /\ Counted /\ Work

(***************************************************************************)
(* What the steps rely on.  These facts are proved before the theorems,    *)
(* where the laws of cardinality and of well-founded orders come in.       *)
(***************************************************************************)
\* The first of a set of numbers, which bitmap_scan, lookup and dir_add look
\* for, is a member of it.
Searching == \A S \in SUBSET Nat : S # {} => First(S) \in S

\* A finite set has one more member with a new one, and one less without one.
Counting ==
  /\ IsFiniteSet({}) /\ Cardinality({}) = 0
  /\ \A S : IsFiniteSet(S) =>
       /\ Cardinality(S) \in Nat
       /\ \A x : x \notin S => /\ IsFiniteSet(S \cup {x})
                               /\ Cardinality(S \cup {x}) = Cardinality(S) + 1
       /\ \A x : x \in S => /\ IsFiniteSet(S \ {x})
                            /\ Cardinality(S \ {x}) = Cardinality(S) - 1
                            /\ Cardinality(S \ {x}) \in Nat

(***************************************************************************)
(* Lemmas.                                                                 *)
(***************************************************************************)
\* A new object is about to be read: it has no sectors yet.
LEMMA NoBlocks == Blocks(NoInode) = {}
  BY SMT DEF Blocks, NoInode, NONE

\* The run that bitmap_scan finds is free.
LEMMA RunIs ==
  ASSUME Searching, Types, NEW cnt \in Nat, Runs(cnt) # {}
  PROVE  /\ First(Runs(cnt)) \in Sector
         /\ First(Runs(cnt)) .. First(Runs(cnt)) + cnt - 1 \subseteq Sector \ free_map
<1>1. Runs(cnt) \in SUBSET Nat
  BY FilesysAssumption, SMT DEF Runs, Sector
<1> QED
  BY <1>1 DEF Runs, Searching

\* A step that leaves every live file where it is, and its sectors marked.
LEMMA FilesKept ==
  ASSUME Files,
         \A s \in Sector : Live(s)' => /\ Live(s)
                                       /\ disk_inode'[s] = disk_inode[s]
                                       /\ Own(s) \subseteq free_map'
  PROVE  /\ Files'
         /\ \A S : Foreign(S) => \A s \in Sector : Live(s)' => Own(s)' \cap S = {}
  BY DEF Files, Foreign, Own

\* Only one thread is inside; the others are idle or run a program.
LEMMA Together ==
  ASSUME IInv, ~Overlap, NEW t \in Thread, NEW label \in Label,
         Busy(t) \/ MayStart(t),
         pc' = [pc EXCEPT ![t] = label],
         \A u \in Thread \ {t} : ino'[u] = ino[u],
         t \in Caller /\ Busy(t)' => filesys_sema' = 0,
         Creating(t)', Looking(t)', Using(t)', Releasing(t)',
         Types', Files', Entries', Objects', SameInode', Counted'
  PROVE  IInv'
<1>1. \A u \in Thread \ {t} : ~Busy(u) /\ pc'[u] = pc[u]
  BY DEF IInv, Alone, MayStart, Types, Locals
<1>2. pc'[t] = label
  BY DEF IInv, Types, Locals
<1>3. Alone'
  BY <1>1, <1>2 DEF Alone, Busy, Thread
<1>4. ASSUME NEW u \in Thread, u # t
      PROVE  Creating(u)' /\ Looking(u)' /\ Using(u)' /\ Releasing(u)'
  <2>1. pc'[u] \in {"idle", "running"} /\ pc'[u] = pc[u] /\ ino'[u] = ino[u]
    BY <1>1, <1>4 DEF Busy
  <2>2. Using(u)
    BY DEF IInv, Work
  <2>3. Creating(u)' /\ Releasing(u)'
    BY <2>1 DEF Creating, Releasing, At
  <2>4. Looking(u)'
    BY <2>1 DEF Looking, At
  <2>5. Using(u)'
    BY <2>1, <2>2 DEF Using, At
  <2> QED
    BY <2>3, <2>4, <2>5
<1> QED
  BY <1>3, <1>4 DEF IInv, Work

\* The directory, what the thread looks for and what it found stay the same.
LEMMA LocatedKept ==
  ASSUME NEW t \in Thread, Located(t), UNCHANGED <<dir, name, isec>>
  PROVE  Located(t)'
  BY DEF Located, Matches, First, InUse

\* The entry of a file that has been found is one of the directory's.
LEMMA LocatedEntry ==
  ASSUME NEW t \in Thread, IInv, Located(t)
  PROVE  isec[t] \in Sector /\ Entry(isec[t])
<1>1. PICK k \in InUse : dir[k].inode_sector = isec[t]
  BY DEF Located
<1> QED
  BY <1>1 DEF IInv, Entries, Entry

\* A step between points at which the thread holds the same inode, or none.
LEMMA RefsKept ==
  ASSUME IInv, NEW t \in Thread, NEW label \in Label,
         pc' = [pc EXCEPT ![t] = label],
         pc[t] # "running", label # "running", label # "read",
         label \in {"opened", "mark", "close"} =>
           pc[t] \in {"read", "opened", "mark", "close"} /\ ino'[t] = ino[t],
         \A u \in Thread \ {t} : ino'[u] = ino[u],
         UNCHANGED files,
         \A i \in Inodes : /\ inode'[i].open_cnt = inode[i].open_cnt
                           /\ inode'[i].deny_write_cnt = inode[i].deny_write_cnt
  PROVE  Counted'
<1>1. \A u \in Thread : pc'[u] = IF u = t THEN label ELSE pc[u]
  BY DEF IInv, Types, Locals
<1>2. ASSUME NEW i \in Inodes
      PROVE  Runners(i)' = Runners(i) /\ (Holding(i)' => Holding(i))
  <2>1. \A u \in Loader : At(u, "running")' /\ ino'[u] = i <=> At(u, "running") /\ ino[u] = i
    BY <1>1 DEF At, Thread
  <2>2. Runners(i)' = Runners(i)
    BY <2>1 DEF Runners
  <2>3. Holding(i)' => Holding(i)
    BY <1>1 DEF Holding
  <2> QED
    BY <2>2, <2>3
<1>3. ASSUME NEW i \in Inodes
      PROVE  One(Holding(i)') <= One(Holding(i))
  BY <1>2, <1>3, SMT DEF One
<1>4. ASSUME NEW i \in Inodes
      PROVE  /\ IsFiniteSet(Runners(i)')
             /\ inode'[i].deny_write_cnt = Cardinality(Runners(i)')
             /\ inode'[i].deny_write_cnt + One(Holding(i)') + One(i \in files')
                  <= inode'[i].open_cnt
  <2>1. /\ IsFiniteSet(Runners(i))
        /\ inode[i].deny_write_cnt = Cardinality(Runners(i))
        /\ inode[i].deny_write_cnt + One(Holding(i)) + One(i \in files)
             <= inode[i].open_cnt
    BY DEF IInv, Counted
  <2>2. inode[i].deny_write_cnt \in Int /\ inode[i].open_cnt \in Int
    BY SMT DEF IInv, Types, TypeOK
  <2>3. \A b : One(b) \in Int
    BY SMT DEF One
  <2> QED
    BY <1>2, <1>3, <2>1, <2>2, <2>3, SMT
<1> QED
  BY <1>4 DEF Counted

\* A step that leaves the disk and the inode objects alone.
LEMMA StoreKept ==
  ASSUME IInv, NEW t \in Thread, NEW label \in Label,
         pc' = [pc EXCEPT ![t] = label],
         pc[t] # "read",
         \A u \in Thread \ {t} : ino'[u] = ino[u],
         UNCHANGED <<disk_inode, dir, missed>>,
         \A i \in Inodes : /\ inode'[i].sector = inode[i].sector
                           /\ inode'[i].removed = inode[i].removed
                           /\ inode'[i].data = inode[i].data
                           /\ Opened(i)' = Opened(i),
         \A s \in Sector : Live(s) => Own(s) \subseteq free_map',
         \A i \in InUse : Own(dir[i].inode_sector) \subseteq disk_map'
  PROVE  /\ Files' /\ Entries' /\ Objects' /\ SameInode'
         /\ \A s : Entry(s)' = Entry(s)
         /\ \A S : Foreign(S) => \A s \in Sector : Live(s)' => Own(s)' \cap S = {}
<1>1. InUse' = InUse /\ \A s : Entry(s)' = Entry(s)
  BY DEF InUse, Entry
<1>2. \A s : Live(s)' = Live(s)
  BY <1>1 DEF Live
<1>3. Files' /\ \A S : Foreign(S) => \A s \in Sector : Live(s)' => Own(s)' \cap S = {}
  BY <1>2, FilesKept DEF IInv
<1>4. Entries'
  BY <1>1, SMT DEF IInv, Entries, Own
<1>5. Objects'
  <2>1. \A u \in Thread : At(u, "read") => u # t /\ At(u, "read")' /\ ino'[u] = ino[u]
    BY DEF At, IInv, Types, Locals
  <2>2. Objects
    BY DEF IInv
  <2> QED
    BY <1>1, <2>1, <2>2, SMT DEF Objects
<1>6. SameInode'
  BY DEF IInv, SameInode, Opened
<1> QED
  BY <1>1, <1>3, <1>4, <1>5, <1>6
(***************************************************************************)
(* The steps.                                                              *)
(***************************************************************************)
\* The parts of the invariant that a step from one point to another keeps
\* when it changes neither the disk nor the memory of the file system.
LEMMA QuietKeeps ==
  ASSUME IInv, NEW t \in Thread, NEW label \in Label,
         pc' = [pc EXCEPT ![t] = label],
         pc[t] # "running", pc[t] # "read", label # "running", label # "read",
         label \in {"opened", "mark", "close"} =>
           pc[t] \in {"opened", "mark", "close"} /\ ino'[t] = ino[t],
         \A u \in Thread \ {t} : ino'[u] = ino[u],
         UNCHANGED <<disk, memory>>
  PROVE  /\ Files' /\ Entries' /\ Objects' /\ SameInode' /\ Counted'
         /\ \A s : Entry(s)' = Entry(s)
         /\ \A S : Foreign(S) => \A s \in Sector : Live(s)' => Own(s)' \cap S = {}
<1>1. Counted'
  BY RefsKept DEF memory
<1>2. \A s \in Sector : Live(s) => Own(s) \subseteq free_map'
  BY DEF IInv, Files, memory
<1>3. \A i \in InUse : Own(dir[i].inode_sector) \subseteq disk_map'
  BY DEF IInv, Entries, disk
<1>4. UNCHANGED <<disk_inode, dir, missed, inode>>
  BY DEF disk, memory
<1> QED
  BY <1>1, <1>2, <1>3, <1>4, StoreKept DEF Opened

\* A system call enters with filesys_sema down.
LEMMA EnterInv ==
  ASSUME IInv, ~Overlap, NEW t \in Caller,
         NEW o \in {"create", "open", "remove"}, NEW n \in Name,
         NEW label \in {"create", "lookup"},
         label = "lookup" => o # "create",
         Enter(t, o, n, label),
         data' \in [Thread -> Extent]
  PROVE  IInv'
<1>1. t \in Thread /\ label \in Label
  BY DEF Thread, Label
<1>2. Types'
  <2>1. TypeOK'
    BY SMT DEF Types, TypeOK, IInv, Enter, disk, memory
  <2>2. Locals'
    BY <1>1 DEF Types, Locals, IInv, Enter, Goto
  <2> QED
    BY <2>1, <2>2 DEF Types
<1>3. /\ pc' = [pc EXCEPT ![t] = label] /\ pc[t] = "idle" /\ MayStart(t)
      /\ UNCHANGED <<disk, memory>> /\ ino' = ino
      /\ op'[t] = o
      /\ filesys_sema' = 0
  BY <1>1, SMT DEF Enter, At, Goto, IInv, Types, TypeOK, Locals
<1>4. pc'[t] = label
  BY <1>1, <1>3 DEF IInv, Types, Locals
<1>5. /\ Files' /\ Entries' /\ Objects' /\ SameInode' /\ Counted'
  BY <1>1, <1>3, QuietKeeps
<1>6. Creating(t)' /\ Looking(t)' /\ Using(t)' /\ Releasing(t)'
  BY <1>3, <1>4 DEF Creating, Looking, Using, Releasing, At
<1> QED
  BY <1>1, <1>2, <1>3, <1>5, <1>6, Together

\* load enters without it.
LEMMA LoadInv ==
  ASSUME IInv, ~Overlap, NEW t \in Loader, NEW n \in Name, CallLoad(t, n)
  PROVE  IInv'
<1>1. t \in Thread /\ t \notin Caller /\ "lookup" \in Label
  BY FilesysAssumption DEF Thread, Label
<1>2. Types'
  BY <1>1 DEF Types, TypeOK, Locals, IInv, CallLoad, Goto, disk, memory
<1>3. /\ pc' = [pc EXCEPT ![t] = "lookup"] /\ pc[t] = "idle" /\ MayStart(t)
      /\ UNCHANGED <<disk, memory>> /\ ino' = ino
      /\ op'[t] = "load"
  BY <1>1 DEF CallLoad, At, Goto, IInv, Types, Locals
<1>4. pc'[t] = "lookup"
  BY <1>1, <1>3 DEF IInv, Types, Locals
<1>5. /\ Files' /\ Entries' /\ Objects' /\ SameInode' /\ Counted'
  BY <1>1, <1>3, QuietKeeps
<1>6. Creating(t)' /\ Looking(t)' /\ Using(t)' /\ Releasing(t)'
  BY <1>1, <1>3, <1>4 DEF Creating, Looking, Using, Releasing, At
<1> QED
  BY <1>1, <1>2, <1>3, <1>5, <1>6, Together

\* write enters with a file that a descriptor leads to.
LEMMA CallWriteInv ==
  ASSUME IInv, ~Overlap, NEW t \in Caller, NEW i \in files, CallWrite(t, i)
  PROVE  IInv'
<1>1. t \in Thread /\ "write_check" \in Label /\ i \in Inodes
  BY DEF Thread, Label, IInv, Types, TypeOK
<1>2. Types'
  BY <1>1, SMT DEF Types, TypeOK, Locals, IInv, CallWrite, Goto, disk, memory
<1>3. /\ pc' = [pc EXCEPT ![t] = "write_check"] /\ pc[t] = "idle" /\ MayStart(t)
      /\ UNCHANGED <<disk, memory>> /\ ino' = [ino EXCEPT ![t] = i]
      /\ filesys_sema' = 0
  BY <1>1, SMT DEF CallWrite, At, Goto, IInv, Types, TypeOK
<1>4. pc'[t] = "write_check" /\ ino'[t] = i /\ \A u \in Thread \ {t} : ino'[u] = ino[u]
  BY <1>1, <1>3 DEF IInv, Types, Locals
<1>5. /\ Files' /\ Entries' /\ Objects' /\ SameInode' /\ Counted'
  BY <1>1, <1>3, <1>4, QuietKeeps
<1>6. Creating(t)' /\ Looking(t)' /\ Using(t)' /\ Releasing(t)'
  BY <1>3, <1>4, SMT DEF Creating, Looking, Using, Releasing, At, memory
<1> QED
  BY <1>1, <1>2, <1>3, <1>4, <1>5, <1>6, Together

\* An operation returns.
LEMMA LeaveInv ==
  ASSUME IInv, ~Overlap, NEW t \in Thread, Leave(t)
  PROVE  IInv'
<1>1. "idle" \in Label /\ NoInode \in Extent
  BY DEF Label, NoInode, Extent
<1>2. pc[t] = "up" /\ Busy(t)
  BY DEF Leave, At, Busy
<1>3. filesys_sema' \in {0, 1}
  BY <1>2, SMT DEF Leave, IInv, Alone, Types, TypeOK
<1>4. Types'
  BY <1>1, <1>3 DEF Types, TypeOK, Locals, IInv, Leave, Forget, Goto, disk, memory
<1>5. /\ pc' = [pc EXCEPT ![t] = "idle"]
      /\ UNCHANGED <<disk, memory>> /\ ino' = [ino EXCEPT ![t] = NONE]
  BY DEF Leave, Forget, Goto
<1>6. pc'[t] = "idle" /\ \A u \in Thread \ {t} : ino'[u] = ino[u]
  BY <1>5 DEF IInv, Types, Locals
<1>7. /\ Files' /\ Entries' /\ Objects' /\ SameInode' /\ Counted'
  BY <1>1, <1>2, <1>5, <1>6, QuietKeeps
<1>8. Creating(t)' /\ Looking(t)' /\ Using(t)' /\ Releasing(t)'
  BY <1>6 DEF Creating, Looking, Using, Releasing, At
<1> QED
  BY <1>1, <1>2, <1>4, <1>5, <1>6, <1>7, <1>8, Together DEF Busy
\* A step that only goes on.
LEMMA GoInv ==
  ASSUME IInv, ~Overlap, NEW t \in Thread, NEW label \in Label,
         pc' = [pc EXCEPT ![t] = label],
         Busy(t), pc[t] # "read", label \notin {"running", "read"},
         label \in {"opened", "mark", "close"} => pc[t] \in {"opened", "mark", "close"},
         UNCHANGED <<disk, memory, filesys_sema, local>>,
         Creating(t)', Looking(t)', Using(t)', Releasing(t)'
  PROVE  IInv'
<1>1. Types'
  BY DEF Types, TypeOK, Locals, IInv, disk, memory, local
<1>2. UNCHANGED <<disk, memory>> /\ ino' = ino /\ filesys_sema' = filesys_sema
  BY DEF local
<1>3. pc[t] # "running"
  BY DEF Busy
<1>4. /\ Files' /\ Entries' /\ Objects' /\ SameInode' /\ Counted'
  BY <1>2, <1>3, QuietKeeps
<1>5. t \in Caller => filesys_sema' = 0
  BY <1>2 DEF IInv, Alone
<1> QED
  BY <1>1, <1>2, <1>4, <1>5, Together

\* file_open fails: the inode is closed.
LEMMA FileNotOpenedInv ==
  ASSUME IInv, ~Overlap, NEW t \in Thread, FileNotOpened(t)
  PROVE  IInv'
<1>1. "close" \in Label
  BY DEF Label
<1>2. /\ pc' = [pc EXCEPT ![t] = "close"] /\ pc[t] = "opened"
      /\ UNCHANGED <<disk, memory, filesys_sema, local>>
  BY DEF FileNotOpened, Goto, At
<1>3. pc'[t] = "close" /\ ino'[t] = ino[t] /\ Using(t)
  BY <1>2 DEF IInv, Types, Locals, local, Work
<1>4. Busy(t)
  BY <1>2 DEF Busy
<1>5. Creating(t)' /\ Looking(t)' /\ Using(t)' /\ Releasing(t)'
  BY <1>2, <1>3 DEF Creating, Looking, Using, Releasing, At
<1> QED
  BY <1>1, <1>2, <1>4, <1>5, GoInv

\* inode_write_at looks at deny_write_cnt.
LEMMA WriteCheckInv ==
  ASSUME IInv, ~Overlap, NEW t \in Thread, WriteCheck(t)
  PROVE  IInv'
<1>1. PICK label \in {"write", "up"} :
         /\ pc' = [pc EXCEPT ![t] = label]
         /\ label = "write" => Writable(ino[t])
  BY DEF WriteCheck, Goto
<1>2. /\ pc[t] = "write_check" /\ label \in Label
      /\ UNCHANGED <<disk, memory, filesys_sema, local>>
  BY DEF WriteCheck, At, Label
<1>3. pc'[t] = label /\ ino'[t] = ino[t] /\ Using(t)
  BY <1>1, <1>2 DEF IInv, Types, Locals, local, Work
<1>4. Busy(t)
  BY <1>2 DEF Busy
<1>5. Creating(t)' /\ Looking(t)' /\ Releasing(t)'
  BY <1>1, <1>3 DEF Creating, Looking, Releasing, At
<1>6. Using(t)'
  BY <1>1, <1>2, <1>3 DEF Using, At, Writable, memory
<1> QED
  BY <1>1, <1>2, <1>4, <1>5, <1>6, GoInv

\* lookup finds the entry, if there is one and it can be read.
LEMMA DirLookupInv ==
  ASSUME Searching, IInv, ~Overlap, NEW t \in Thread, DirLookup(t)
  PROVE  IInv'
<1>1. PICK label \in {"up", "find"} :
         /\ pc' = [pc EXCEPT ![t] = label]
         /\ label = "find" =>
              /\ Matches(name[t]) # {}
              /\ isec' = [isec EXCEPT ![t] = dir[First(Matches(name[t]))].inode_sector]
         /\ label = "up" => isec' = isec
  BY DEF DirLookup, Goto
<1>2. /\ pc[t] = "lookup" /\ label \in Label
      /\ UNCHANGED <<disk, memory, filesys_sema, op, name, data, ino>>
  BY DEF DirLookup, At, Label
<1>3. label = "find" => /\ First(Matches(name[t])) \in InUse
                        /\ dir[First(Matches(name[t]))].name = name[t]
  <2>1. Matches(name[t]) \in SUBSET Nat
    BY FilesysAssumption DEF Matches
  <2>2. label = "find" => First(Matches(name[t])) \in Matches(name[t])
    BY <1>1, <2>1 DEF Searching
  <2> QED
    BY <2>2 DEF Matches, InUse
<1>4. isec' \in [Thread -> Sector \cup {NONE}]
  BY <1>1, <1>3 DEF IInv, Types, Locals, Entries
<1>5. Types'
  BY <1>1, <1>2, <1>4 DEF Types, TypeOK, Locals, IInv, disk, memory
<1>6. pc'[t] = label
  BY <1>1 DEF IInv, Types, Locals
<1>7. /\ Files' /\ Entries' /\ Objects' /\ SameInode' /\ Counted'
  BY <1>1, <1>2, QuietKeeps
<1>8. Creating(t)' /\ Using(t)' /\ Releasing(t)'
  BY <1>1, <1>6 DEF Creating, Using, Releasing, At
<1>9. Looking(t)'
  <2>1. Looking(t)
    BY DEF IInv, Work
  <2>2. CASE label = "up"
    BY <1>6, <2>2 DEF Looking, At
  <2>3. CASE label = "find"
    <3>1. isec'[t] = dir[First(Matches(name[t]))].inode_sector
      BY <1>1, <2>3 DEF IInv, Types, Locals
    <3>2. InUse' = InUse /\ Matches(name[t])' = Matches(name[t])
      BY <1>2 DEF InUse, Matches, disk
    <3>3. First(Matches(name[t]))' = First(Matches(name[t]))
      BY <3>2 DEF First
    <3>4. Located(t)'
      BY <1>2, <1>3, <2>3, <3>1, <3>2, <3>3 DEF Located, disk
    <3> QED
      BY <1>2, <1>6, <2>1, <2>3, <3>4 DEF Looking, At
  <2> QED
    BY <2>2, <2>3
<1>10. Busy(t) /\ (t \in Caller => filesys_sema' = 0)
  BY <1>2 DEF Busy, IInv, Alone
<1> QED
  BY <1>1, <1>2, <1>5, <1>7, <1>8, <1>9, <1>10, Together
\* A step that writes or changes the free map only.
LEMMA MapInv ==
  ASSUME IInv, ~Overlap, NEW t \in Thread, NEW label \in Label,
         pc' = [pc EXCEPT ![t] = label], Busy(t),
         pc[t] \notin {"read", "running"},
         label \notin {"read", "opened", "mark", "close", "running"},
         UNCHANGED <<disk_inode, dir, content, missed, inode, files, filesys_sema,
                     op, name, ino>>,
         free_map' \subseteq Sector, disk_map' \subseteq Sector,
         isec' \in [Thread -> Sector \cup {NONE}], data' \in [Thread -> Extent],
         \A s \in Sector : Live(s) => Own(s) \subseteq free_map',
         \A i \in InUse : Own(dir[i].inode_sector) \subseteq disk_map',
         Creating(t)', Looking(t)', Using(t)', Releasing(t)'
  PROVE  IInv'
<1>1. Types'
  BY DEF Types, TypeOK, Locals, IInv
<1>2. Counted'
  BY RefsKept
<1>3. /\ Files' /\ Entries' /\ Objects' /\ SameInode'
  BY StoreKept DEF Opened
<1>4. t \in Caller => filesys_sema' = 0
  BY DEF IInv, Alone
<1> QED
  BY <1>1, <1>2, <1>3, <1>4, Together

\* bitmap_write.
LEMMA WriteMapInv ==
  ASSUME IInv, ~Overlap, NEW t \in Thread, NEW from, NEW to,
         \/ from = "create_map" /\ to = "create_data"
         \/ from = "create_data_map" /\ to = "create_inode"
         \/ from = "fail_map" /\ to = "up"
         \/ from = "release_map" /\ to = "release_data"
         \/ from = "release_data_map" /\ to = "up",
         WriteMap(t, from, to)
  PROVE  IInv'
<1>1. to \in Label
  BY DEF Label
<1>2. /\ pc' = [pc EXCEPT ![t] = to] /\ pc[t] = from
      /\ disk_map' = free_map
      /\ UNCHANGED <<disk_inode, dir, content, missed, free_map, inode, files,
                     filesys_sema, op, name, isec, data, ino>>
  BY DEF WriteMap, Goto, At, memory, local
<1>3. pc'[t] = to
  BY <1>2 DEF IInv, Types, Locals
<1>4. Busy(t)
  BY <1>2 DEF Busy
<1>5. /\ free_map' \subseteq Sector /\ disk_map' \subseteq Sector
      /\ isec' \in [Thread -> Sector \cup {NONE}] /\ data' \in [Thread -> Extent]
  BY <1>2 DEF IInv, Types, TypeOK, Locals
<1>6. \A s \in Sector : Live(s) => Own(s) \subseteq free_map'
  BY <1>2 DEF IInv, Files
<1>7. \A i \in InUse : Own(dir[i].inode_sector) \subseteq disk_map'
  BY <1>2, <1>6 DEF IInv, Entries, Live, Entry
<1>8. Looking(t)' /\ Using(t)'
  BY <1>3 DEF Looking, Using, At
<1>9. \A S : Foreign(S) => Foreign(S)'
  BY <1>2 DEF Foreign, Live, Entry, InUse, Opened, Own
<1>10. Foreign(Blocks(data[t])) => Foreign(Blocks(data[t]))'
  BY <1>2, <1>9 DEF Foreign
<1>11. Foreign({isec[t]}) => Foreign({isec[t]})'
  BY <1>2, <1>9 DEF Foreign
<1>12. Creating(t)'
  <2>1. Creating(t)
    BY DEF IInv, Work
  <2> QED
    BY <1>2, <1>3, <1>10, <1>11, <2>1 DEF Creating
<1>13. Releasing(t)'
  <2>1. Releasing(t)
    BY DEF IInv, Work
  <2> QED
    BY <1>2, <1>3, <1>10, <1>11, <2>1 DEF Releasing, At
<1> QED
  BY <1>1, <1>2, <1>4, <1>5, <1>6, <1>7, <1>8, <1>12, <1>13, MapInv

\* What a bitmap_write that fails has written has the sectors of every entry:
\* they were marked on disk and they are marked in memory.
LEMMA PartWritten ==
  ASSUME IInv, WritePart
  PROVE  /\ disk_map' \subseteq Sector
         /\ \A i \in InUse : Own(dir[i].inode_sector) \subseteq disk_map'
<1>1. PICK b \in Sector :
        disk_map' = {s \in free_map : s < b} \cup {s \in disk_map : s >= b}
  BY DEF WritePart
<1>2. \A i \in InUse : /\ dir[i].inode_sector \in Sector
                       /\ Live(dir[i].inode_sector)
                       /\ Own(dir[i].inode_sector) \subseteq disk_map
  BY DEF IInv, Entries, Live, Entry
<1>3. \A i \in InUse : Own(dir[i].inode_sector) \subseteq free_map \cap disk_map
  BY <1>2 DEF IInv, Files
<1>4. free_map \subseteq Sector /\ disk_map \subseteq Sector
  BY DEF IInv, Types, TypeOK
<1>5. \A s \in Sector : s < b \/ s >= b
  BY SMT DEF Sector
<1> QED
  BY <1>1, <1>3, <1>4, <1>5

\* bitmap_write fails in free_map_release, which goes on.
LEMMA KeepOldMapInv ==
  ASSUME IInv, ~Overlap, NEW t \in Thread, NEW from, NEW to,
         \/ from = "fail_map" /\ to = "up"
         \/ from = "release_map" /\ to = "release_data"
         \/ from = "release_data_map" /\ to = "up",
         KeepOldMap(t, from, to)
  PROVE  IInv'
<1>1. to \in Label
  BY DEF Label
<1>2. /\ pc' = [pc EXCEPT ![t] = to] /\ pc[t] = from
      /\ WritePart
      /\ UNCHANGED <<disk_inode, dir, content, missed, free_map, inode, files,
                     filesys_sema, op, name, isec, data, ino>>
  BY DEF KeepOldMap, Goto, At, memory, local
<1>3. pc'[t] = to
  BY <1>2 DEF IInv, Types, Locals
<1>4. Busy(t)
  BY <1>2 DEF Busy
<1>5. /\ disk_map' \subseteq Sector
      /\ \A i \in InUse : Own(dir[i].inode_sector) \subseteq disk_map'
  BY <1>2, PartWritten
<1>6. /\ free_map' \subseteq Sector
      /\ isec' \in [Thread -> Sector \cup {NONE}] /\ data' \in [Thread -> Extent]
  BY <1>2 DEF IInv, Types, TypeOK, Locals
<1>7. \A s \in Sector : Live(s) => Own(s) \subseteq free_map'
  BY <1>2 DEF IInv, Files
<1>8. Creating(t)' /\ Looking(t)' /\ Using(t)'
  BY <1>3 DEF Creating, Looking, Using, At
<1>9. Foreign(Blocks(data[t])) => Foreign(Blocks(data[t]))'
  <2>1. \A S : Foreign(S) => Foreign(S)'
    BY <1>2 DEF Foreign, Live, Entry, InUse, Opened, Own
  <2> QED
    BY <1>2, <2>1 DEF Foreign
<1>10. Releasing(t)'
  <2>1. Releasing(t)
    BY DEF IInv, Work
  <2> QED
    BY <1>2, <1>3, <1>9, <2>1 DEF Releasing, At
<1> QED
  BY <1>1, <1>2, <1>4, <1>5, <1>6, <1>7, <1>8, <1>10, MapInv

\* Sectors that belong to no live file are given back.
LEMMA FreeInv ==
  ASSUME IInv, ~Overlap, NEW t \in Thread, NEW from, NEW to, NEW S,
         \/ from = "create_map" /\ to = "up" /\ S = {isec[t]}
         \/ from = "create_data_map" /\ to = "fail" /\ S = Blocks(data[t])
         \/ from = "fail" /\ to = "fail_map" /\ S = {isec[t]}
         \/ from = "release" /\ to = "release_map" /\ S = {isec[t]}
         \/ from = "release_data" /\ to = "release_data_map" /\ S = Blocks(data[t]),
         At(t, from), free_map' = free_map \ S, Goto(t, to),
         WritePart \/ UNCHANGED disk_map,
         UNCHANGED <<disk_inode, dir, content, missed, inode, files, filesys_sema,
                     local>>
  PROVE  IInv'
<1>1. to \in Label
  BY DEF Label
<1>2. /\ pc' = [pc EXCEPT ![t] = to] /\ pc[t] = from
      /\ UNCHANGED <<disk_inode, dir, content, missed, inode, files,
                     filesys_sema, op, name, isec, data, ino>>
  BY DEF Goto, At, local
<1>3. pc'[t] = to
  BY <1>2 DEF IInv, Types, Locals
<1>4. Busy(t)
  BY <1>2 DEF Busy
<1>5. /\ free_map' \subseteq Sector
      /\ isec' \in [Thread -> Sector \cup {NONE}] /\ data' \in [Thread -> Extent]
  BY <1>2 DEF IInv, Types, TypeOK, Locals
<1>6. Creating(t) /\ Releasing(t)
  BY DEF IInv, Work
<1>7. Foreign(S)
  BY <1>2, <1>6 DEF Creating, Releasing, At
<1>8. \A s \in Sector : Live(s) => Own(s) \subseteq free_map'
  BY <1>7 DEF IInv, Files, Foreign
<1>9. /\ disk_map' \subseteq Sector
      /\ \A i \in InUse : Own(dir[i].inode_sector) \subseteq disk_map'
  <2>1. CASE UNCHANGED disk_map
    BY <2>1 DEF IInv, Entries, Types, TypeOK
  <2> QED
    BY <2>1, PartWritten
<1>10. Looking(t)' /\ Using(t)'
  BY <1>3 DEF Looking, Using, At
<1>11. \A B : Foreign(B) => Foreign(B)'
  BY <1>2 DEF Foreign, Live, Entry, InUse, Opened, Own
<1>12. Foreign(Blocks(data[t])) => Foreign(Blocks(data[t]))'
  BY <1>2, <1>11 DEF Foreign
<1>13. Foreign({isec[t]}) => Foreign({isec[t]})'
  BY <1>2, <1>11 DEF Foreign
<1>14. Creating(t)'
  BY <1>2, <1>3, <1>6, <1>13 DEF Creating
<1>15. Releasing(t)'
  BY <1>2, <1>3, <1>6, <1>12 DEF Releasing, At
<1> QED
  BY <1>1, <1>2, <1>4, <1>5, <1>8, <1>9, <1>10, <1>14, <1>15, MapInv
\* filesys_create takes a sector for the inode ...
LEMMA CreateSectorInv ==
  ASSUME Searching, IInv, ~Overlap, NEW t \in Thread, CreateSector(t)
  PROVE  IInv'
<1>1. /\ pc[t] = "create" /\ Busy(t)
      /\ UNCHANGED <<disk, inode, files, filesys_sema, op, name, data, ino>>
  BY DEF CreateSector, At, Busy
<1>2. CASE Goto(t, "up") /\ UNCHANGED <<free_map, isec>>
  <2>1. /\ pc' = [pc EXCEPT ![t] = "up"] /\ "up" \in Label
        /\ UNCHANGED <<disk, memory, filesys_sema, local>>
    BY <1>1, <1>2 DEF Goto, memory, local, Label
  <2>2. pc'[t] = "up"
    BY <2>1 DEF IInv, Types, Locals
  <2>3. Creating(t)' /\ Looking(t)' /\ Using(t)' /\ Releasing(t)'
    BY <2>2 DEF Creating, Looking, Using, Releasing, At
  <2> QED
    BY <1>1, <2>1, <2>3, GoInv
<1>3. CASE /\ Runs(1) # {}
           /\ FreeMapAllocate(t, 1)
           /\ isec' = [isec EXCEPT ![t] = First(Runs(1))]
           /\ Goto(t, "create_map")
  <2>1. PICK m : m = First(Runs(1))
    OBVIOUS
  <2>2. /\ pc' = [pc EXCEPT ![t] = "create_map"] /\ "create_map" \in Label
        /\ free_map' = free_map \cup (m .. m + 1 - 1)
        /\ isec' = [isec EXCEPT ![t] = m]
    BY <1>3, <2>1 DEF FreeMapAllocate, Goto, Label
  <2>3. m \in Sector /\ m .. m + 1 - 1 \subseteq Sector \ free_map
    BY <1>3, <2>1, RunIs DEF IInv
  <2>4. m .. m + 1 - 1 = {m}
    BY <2>3, SMT DEF Sector
  <2>5. m \in Sector \ free_map /\ free_map' = free_map \cup {m}
    BY <2>2, <2>3, <2>4
  <2>6. pc'[t] = "create_map" /\ isec'[t] = m
    BY <2>2 DEF IInv, Types, Locals
  <2>7. /\ free_map' \subseteq Sector /\ disk_map' \subseteq Sector
        /\ isec' \in [Thread -> Sector \cup {NONE}] /\ data' \in [Thread -> Extent]
    BY <1>1, <2>2, <2>5 DEF IInv, Types, TypeOK, Locals, disk
  <2>8. \A s \in Sector : Live(s) => Own(s) \subseteq free_map'
    BY <2>5 DEF IInv, Files
  <2>9. \A i \in InUse : Own(dir[i].inode_sector) \subseteq disk_map'
    BY <1>1 DEF IInv, Entries, disk
  <2>10. Looking(t)' /\ Using(t)' /\ Releasing(t)'
    BY <2>6 DEF Looking, Using, Releasing, At
  <2>11. Foreign({m})
    BY <2>5 DEF IInv, Files, Foreign
  <2>12. \A s \in Sector : Live(s)' = Live(s) /\ Own(s)' = Own(s)
    BY <1>1 DEF Live, Entry, InUse, Opened, Own, disk
  <2>13. Creating(t)'
    BY <2>5, <2>6, <2>11, <2>12 DEF Creating, Foreign
  <2> QED
    BY <1>1, <2>2, <2>7, <2>8, <2>9, <2>10, <2>13, MapInv DEF disk
<1> QED
  BY <1>2, <1>3 DEF CreateSector

\* ... and inode_create takes those for the data.
LEMMA CreateDataInv ==
  ASSUME Searching, IInv, ~Overlap, NEW t \in Thread, CreateData(t)
  PROVE  IInv'
<1>1. /\ pc[t] = "create_data" /\ Busy(t)
      /\ UNCHANGED <<disk, inode, files, filesys_sema, op, name, isec, ino>>
  BY DEF CreateData, At, Busy
<1>2. PICK len : len = data[t].length
  OBVIOUS
<1>3. len \in Nat
  BY <1>2 DEF IInv, Types, Locals, Extent
<1>4. isec[t] \in free_map /\ Foreign({isec[t]})
  BY <1>1 DEF IInv, Work, Creating
<1>5. \A s \in Sector : Live(s)' = Live(s) /\ Own(s)' = Own(s)
  BY <1>1 DEF Live, Entry, InUse, Opened, Own, disk
<1>6. CASE /\ Runs(len) # {}
           /\ FreeMapAllocate(t, len)
           /\ data' = [data EXCEPT ![t].start = First(Runs(len))]
           /\ Goto(t, "create_data_map")
  <2>1. PICK m : m = First(Runs(len))
    OBVIOUS
  <2>2. /\ pc' = [pc EXCEPT ![t] = "create_data_map"] /\ "create_data_map" \in Label
        /\ free_map' = free_map \cup (m .. m + len - 1)
        /\ data' = [data EXCEPT ![t].start = m]
    BY <1>6, <2>1 DEF FreeMapAllocate, Goto, Label
  <2>3. m \in Sector /\ m .. m + len - 1 \subseteq Sector \ free_map
    BY <1>3, <1>6, <2>1, RunIs DEF IInv
  <2>4. data'[t] = [start |-> m, length |-> len]
    BY <1>2, <2>2 DEF IInv, Types, Locals, Extent
  <2>5. Blocks(data'[t]) = m .. m + len - 1
    BY <2>4, SMT DEF Blocks
  <2>6. PICK B : B = m .. m + len - 1
    OBVIOUS
  <2>7. /\ B \subseteq Sector \ free_map /\ free_map' = free_map \cup B
        /\ Blocks(data'[t]) = B
    BY <2>2, <2>3, <2>5, <2>6
  <2>8. pc'[t] = "create_data_map" /\ isec'[t] = isec[t]
    BY <1>1, <2>2 DEF IInv, Types, Locals
  <2>9. data' \in [Thread -> Extent]
    <3>1. [data[t] EXCEPT !.start = m] \in Extent
      BY <2>3 DEF IInv, Types, Locals, Extent
    <3> QED
      BY <2>2, <3>1 DEF IInv, Types, Locals
  <2>10. /\ free_map' \subseteq Sector /\ disk_map' \subseteq Sector
         /\ isec' \in [Thread -> Sector \cup {NONE}]
    BY <1>1, <2>7 DEF IInv, Types, TypeOK, Locals, disk
  <2>11. \A s \in Sector : Live(s) => Own(s) \subseteq free_map'
    BY <2>7 DEF IInv, Files
  <2>12. \A i \in InUse : Own(dir[i].inode_sector) \subseteq disk_map'
    BY <1>1 DEF IInv, Entries, disk
  <2>13. Looking(t)' /\ Using(t)' /\ Releasing(t)'
    BY <2>8 DEF Looking, Using, Releasing, At
  <2>14. Foreign(B)
    BY <2>7 DEF IInv, Files, Foreign
  <2>15. Foreign(Blocks(data[t]))' /\ Foreign({isec[t]})'
    BY <1>4, <1>5, <2>7, <2>8, <2>14 DEF Foreign
  <2>16. data'[t].start \in Sector
    BY <2>3, <2>4, SMT
  <2>17. Creating(t)'
    BY <1>4, <2>7, <2>8, <2>15, <2>16 DEF Creating
  <2> QED
    BY <1>1, <2>2, <2>9, <2>10, <2>11, <2>12, <2>13, <2>17, MapInv DEF disk
<1>7. CASE Goto(t, "fail") /\ UNCHANGED <<free_map, data>>
  <2>1. /\ pc' = [pc EXCEPT ![t] = "fail"] /\ "fail" \in Label
        /\ UNCHANGED <<disk, memory, filesys_sema, local>>
    BY <1>1, <1>7 DEF Goto, memory, local, Label
  <2>2. pc'[t] = "fail" /\ isec'[t] = isec[t] /\ free_map' = free_map
    BY <2>1 DEF IInv, Types, Locals, local, memory
  <2>3. Foreign({isec[t]})'
    BY <1>4, <1>5, <2>2 DEF Foreign
  <2>4. Creating(t)'
    BY <1>4, <2>2, <2>3 DEF Creating
  <2>5. Looking(t)' /\ Using(t)' /\ Releasing(t)'
    BY <2>2 DEF Looking, Using, Releasing, At
  <2> QED
    BY <1>1, <2>1, <2>4, <2>5, GoInv
<1> QED
  BY <1>2, <1>6, <1>7 DEF CreateData
\* A step that writes sectors in which no live file has its inode.
LEMMA WriteKeeps ==
  ASSUME IInv, NEW t \in Thread, NEW label \in Label,
         pc' = [pc EXCEPT ![t] = label], pc[t] # "read",
         UNCHANGED <<disk_map, dir, missed, free_map, inode, ino>>,
         \A s \in Sector : Live(s) => disk_inode'[s] = disk_inode[s]
  PROVE  /\ Files' /\ Entries' /\ Objects' /\ SameInode'
         /\ \A S : Foreign(S) => \A s \in Sector : Live(s)' => Own(s)' \cap S = {}
<1>1. InUse' = InUse /\ \A s : Entry(s)' = Entry(s)
  BY DEF InUse, Entry
<1>2. \A i \in Inodes : Opened(i)' = Opened(i)
  BY DEF Opened
<1>3. \A s : Live(s)' = Live(s)
  BY <1>1, <1>2 DEF Live
<1>4. Files' /\ \A S : Foreign(S) => \A s \in Sector : Live(s)' => Own(s)' \cap S = {}
  <2>1. \A s \in Sector : Live(s) => Own(s) \subseteq free_map
    BY DEF IInv, Files
  <2> QED
    BY <1>3, <2>1, FilesKept DEF IInv
<1>5. Entries'
  <2>1. \A i \in InUse : Live(dir[i].inode_sector)
    BY DEF Live, Entry
  <2>2. Entries
    BY DEF IInv
  <2> QED
    BY <1>1, <2>1, <2>2, SMT DEF Entries, Own
<1>6. Objects'
  <2>1. \A u \in Thread : At(u, "read") => u # t /\ At(u, "read")' /\ ino'[u] = ino[u]
    BY DEF At, IInv, Types, Locals
  <2>2. \A i \in Inodes : Opened(i) => Live(inode[i].sector)
    BY DEF Live
  <2>3. Objects
    BY DEF IInv
  <2> QED
    BY <1>1, <1>2, <2>1, <2>2, <2>3 DEF Objects
<1>7. SameInode'
  BY DEF IInv, SameInode
<1> QED
  BY <1>4, <1>5, <1>6, <1>7

\* inode_create writes the inode ...
LEMMA CreateInodeInv ==
  ASSUME IInv, ~Overlap, NEW t \in Thread, CreateInode(t)
  PROVE  IInv'
<1>1. /\ pc' = [pc EXCEPT ![t] = "create_zero"] /\ "create_zero" \in Label
      /\ disk_inode' = [disk_inode EXCEPT ![isec[t]] = data[t]]
      /\ pc[t] = "create_inode" /\ Busy(t)
      /\ UNCHANGED <<disk_map, dir, content, missed, free_map, inode, files,
                     filesys_sema, op, name, isec, data, ino>>
  BY DEF CreateInode, Goto, At, Busy, Label, memory, local
<1>2. pc'[t] = "create_zero"
  BY <1>1 DEF IInv, Types, Locals
<1>3. Creating(t)
  BY DEF IInv, Work
<1>4. isec[t] \in Sector /\ Foreign({isec[t]}) /\ Foreign(Blocks(data[t]))
  BY <1>1, <1>3 DEF Creating, IInv, Types, TypeOK
<1>5. \A s \in Sector : Live(s) => disk_inode'[s] = disk_inode[s]
  BY <1>1, <1>4 DEF Foreign, Own, IInv, Types, TypeOK
<1>6. Types'
  BY <1>1, <1>4 DEF IInv, Types, TypeOK, Locals
<1>7. /\ Files' /\ Entries' /\ Objects' /\ SameInode'
      /\ \A S : Foreign(S) => \A s \in Sector : Live(s)' => Own(s)' \cap S = {}
  BY <1>1, <1>5, WriteKeeps
<1>8. Foreign({isec[t]})' /\ Foreign(Blocks(data[t]))'
  BY <1>1, <1>4, <1>7 DEF Foreign
<1>9. disk_inode'[isec[t]] = data[t]
  BY <1>1, <1>4 DEF IInv, Types, TypeOK
<1>10. Creating(t)'
  BY <1>1, <1>2, <1>3, <1>8, <1>9 DEF Creating
<1>11. Looking(t)' /\ Using(t)' /\ Releasing(t)'
  BY <1>2 DEF Looking, Using, Releasing, At
<1>12. Counted'
  BY <1>1, RefsKept
<1>13. t \in Caller => filesys_sema' = 0
  BY <1>1 DEF IInv, Alone
<1> QED
  BY <1>1, <1>6, <1>7, <1>10, <1>11, <1>12, <1>13, Together

\* ... and then zeros.
LEMMA CreateZeroInv ==
  ASSUME IInv, ~Overlap, NEW t \in Thread, CreateZero(t)
  PROVE  IInv'
<1>1. /\ pc' = [pc EXCEPT ![t] = "create_add"] /\ "create_add" \in Label
      /\ disk_inode' = [s \in Sector |-> IF s \in Blocks(data[t]) THEN NoInode
                                         ELSE disk_inode[s]]
      /\ content' = [s \in Sector |-> IF s \in Blocks(data[t]) THEN 0
                                      ELSE content[s]]
      /\ pc[t] = "create_zero" /\ Busy(t)
      /\ UNCHANGED <<disk_map, dir, missed, free_map, inode, files,
                     filesys_sema, op, name, isec, data, ino>>
  BY DEF CreateZero, Goto, At, Busy, Label, memory, local
<1>2. pc'[t] = "create_add"
  BY <1>1 DEF IInv, Types, Locals
<1>3. Creating(t)
  BY DEF IInv, Work
<1>4. /\ isec[t] \in Sector /\ isec[t] \notin Blocks(data[t])
      /\ Foreign({isec[t]}) /\ Foreign(Blocks(data[t]))
      /\ disk_inode[isec[t]] = data[t]
  BY <1>1, <1>3 DEF Creating, IInv, Types, TypeOK
<1>5. \A s \in Sector : Live(s) => disk_inode'[s] = disk_inode[s]
  BY <1>1, <1>4 DEF Foreign, Own
<1>6. Types'
  <2>1. NoInode \in Extent
    BY DEF NoInode, Extent
  <2>2. disk_inode' \in [Sector -> Extent] /\ content' \in [Sector -> {0, 1}]
    BY <1>1, <2>1 DEF IInv, Types, TypeOK
  <2> QED
    BY <1>1, <2>2 DEF IInv, Types, TypeOK, Locals
<1>7. /\ Files' /\ Entries' /\ Objects' /\ SameInode'
      /\ \A S : Foreign(S) => \A s \in Sector : Live(s)' => Own(s)' \cap S = {}
  BY <1>1, <1>5, WriteKeeps
<1>8. Foreign({isec[t]})' /\ Foreign(Blocks(data[t]))'
  BY <1>1, <1>4, <1>7 DEF Foreign
<1>9. disk_inode'[isec[t]] = data[t]
  BY <1>1, <1>4
<1>10. Creating(t)'
  BY <1>1, <1>2, <1>3, <1>8, <1>9 DEF Creating
<1>11. Looking(t)' /\ Using(t)' /\ Releasing(t)'
  BY <1>2 DEF Looking, Using, Releasing, At
<1>12. Counted'
  BY <1>1, RefsKept
<1>13. t \in Caller => filesys_sema' = 0
  BY <1>1 DEF IInv, Alone
<1> QED
  BY <1>1, <1>6, <1>7, <1>10, <1>11, <1>12, <1>13, Together

\* inode_write_at writes the sector.
LEMMA WriteSectorInv ==
  ASSUME IInv, ~Overlap, NEW t \in Thread, WriteSector(t)
  PROVE  IInv'
<1>1. /\ pc' = [pc EXCEPT ![t] = "up"] /\ "up" \in Label
      /\ pc[t] = "write" /\ Busy(t)
      /\ UNCHANGED <<disk_map, disk_inode, dir, missed, free_map, inode, files,
                     filesys_sema, op, name, isec, data, ino>>
  BY DEF WriteSector, Goto, At, Busy, Label, memory, local
<1>2. pc'[t] = "up"
  BY <1>1 DEF IInv, Types, Locals
<1>3. content' \in [Sector -> {0, 1}]
  BY SMT DEF WriteSector, IInv, Types, TypeOK
<1>4. Types'
  BY <1>1, <1>3 DEF IInv, Types, TypeOK, Locals
<1>5. /\ Files' /\ Entries' /\ Objects' /\ SameInode'
  BY <1>1, WriteKeeps
<1>6. Creating(t)' /\ Looking(t)' /\ Using(t)' /\ Releasing(t)'
  BY <1>2 DEF Creating, Looking, Using, Releasing, At
<1>7. Counted'
  BY <1>1, RefsKept
<1>8. t \in Caller => filesys_sema' = 0
  BY <1>1 DEF IInv, Alone
<1> QED
  BY <1>1, <1>4, <1>5, <1>6, <1>7, <1>8, Together
\* dir_add: the new file becomes live.
LEMMA DirAddInv ==
  ASSUME IInv, ~Overlap, NEW t \in Thread, DirAdd(t)
  PROVE  IInv'
<1>1. /\ pc[t] = "create_add" /\ Busy(t)
      /\ UNCHANGED <<disk_map, disk_inode, content, memory, filesys_sema, local>>
  BY DEF DirAdd, At, Busy
<1>2. /\ isec[t] \in free_map /\ Foreign({isec[t]})
      /\ data[t].start \in Sector
      /\ Blocks(data[t]) \subseteq free_map
      /\ Foreign(Blocks(data[t]))
      /\ isec[t] \in disk_map /\ Blocks(data[t]) \subseteq disk_map
      /\ disk_inode[isec[t]] = data[t]
  BY <1>1 DEF IInv, Work, Creating
<1>3. CASE Goto(t, "fail") /\ UNCHANGED <<dir, missed>>
  <2>1. /\ pc' = [pc EXCEPT ![t] = "fail"] /\ "fail" \in Label
        /\ UNCHANGED <<disk, memory, filesys_sema, local>>
    BY <1>1, <1>3 DEF Goto, disk, Label
  <2>2. pc'[t] = "fail" /\ isec'[t] = isec[t] /\ free_map' = free_map
    BY <2>1 DEF IInv, Types, Locals, local, memory
  <2>3. Foreign({isec[t]})'
    BY <1>2, <2>1, <2>2 DEF Foreign, Live, Entry, InUse, Opened, Own, disk, memory
  <2>4. Creating(t)'
    BY <1>2, <2>2, <2>3 DEF Creating
  <2>5. Looking(t)' /\ Using(t)' /\ Releasing(t)'
    BY <2>2 DEF Looking, Using, Releasing, At
  <2> QED
    BY <1>1, <2>1, <2>4, <2>5, GoInv
<1>4. ASSUME NEW k \in Slot, NEW short \in BOOLEAN,
             ~NameTaken(name[t]) \/ short,
             dir' = [dir EXCEPT ![k] =
               [in_use |-> TRUE, name |-> name[t], inode_sector |-> isec[t]]],
             missed' = IF NameTaken(name[t]) /\ short
                       THEN missed \cup {name[t]} ELSE missed,
             Goto(t, "up")
      PROVE  IInv'
  <2>1. NameTaken(name[t]) => name[t] \in missed'
    BY <1>4
  <2>2. missed \subseteq missed' /\ missed' \subseteq missed \cup {name[t]}
    BY <1>4
  <2>3. pc' = [pc EXCEPT ![t] = "up"] /\ "up" \in Label
    BY <1>4 DEF Goto, Label
  <2>4. /\ UNCHANGED <<disk_map, disk_inode, content, free_map, inode, files,
                       filesys_sema, op, name, isec, data, ino>>
    BY <1>1 DEF memory, local
  <2>5. pc'[t] = "up" /\ isec[t] \in Sector
    BY <1>2, <2>3 DEF IInv, Types, TypeOK, Locals
  <2>6. Types'
    <3>1. [in_use |-> TRUE, name |-> name[t], inode_sector |-> isec[t]]
            \in [in_use : BOOLEAN, name : Name \cup {NONE},
                 inode_sector : Sector \cup {NONE}]
      BY DEF IInv, Types, Locals
    <3>2. missed' \subseteq Name \cup {NONE}
      BY <2>2 DEF IInv, Types, TypeOK, Locals
    <3> QED
      BY <1>4, <2>3, <2>4, <3>1, <3>2 DEF IInv, Types, TypeOK, Locals
  <2>7. /\ InUse' = InUse \cup {k}
        /\ dir'[k].inode_sector = isec[t] /\ dir'[k].name = name[t]
        /\ \A i \in InUse : i # k => dir'[i] = dir[i]
    BY <1>4 DEF InUse, IInv, Types, TypeOK
  <2>8. \A s : Entry(s)' => Entry(s) \/ s = isec[t]
    BY <2>7 DEF Entry
  <2>9. \A i \in Inodes : Opened(i)' = Opened(i)
    BY <2>4 DEF Opened
  <2>10. \A s : Live(s)' => Live(s) \/ s = isec[t]
    BY <2>4, <2>8, <2>9 DEF Live
  <2>11. \A s : Own(s)' = Own(s)
    BY <2>4 DEF Own
  <2>12. /\ Own(isec[t]) = {isec[t]} \cup Blocks(data[t])
         /\ \A s \in Sector : Live(s) => Own(s) \cap Own(isec[t]) = {}
         /\ ~Live(isec[t])
    BY <1>2, <2>5 DEF Own, Foreign
  <2>13. disk_inode[isec[t]] # NoInode
    BY <1>2, SMT DEF NoInode, NONE, Sector
  <2>14. Files'
    <3>1. \A s \in Sector : Live(s)' => disk_inode'[s] # NoInode /\ Own(s)' \subseteq free_map'
      BY <1>2, <2>4, <2>10, <2>11, <2>12, <2>13 DEF IInv, Files
    <3>2. \A s, r \in Sector : Live(s)' /\ Live(r)' /\ s # r => Own(s)' \cap Own(r)' = {}
      BY <2>5, <2>10, <2>11, <2>12 DEF IInv, Files
    <3> QED
      BY <3>1, <3>2 DEF Files
  <2>15. Entries'
    <3>1. \A i \in InUse : /\ dir[i].inode_sector \in Sector
                           /\ Own(dir[i].inode_sector) \subseteq disk_map
                           /\ dir[i].inode_sector # isec[t]
                           /\ dir[i].name = name[t] => name[t] \in missed'
      <4>1. \A i \in InUse : Live(dir[i].inode_sector)
        BY DEF Live, Entry
      <4>2. \A i \in InUse : dir[i].name = name[t] => name[t] \in missed'
        BY <2>1 DEF NameTaken, Matches, InUse
      <4> QED
        BY <2>12, <4>1, <4>2 DEF IInv, Entries
    <3>2. Own(isec[t]) \subseteq disk_map
      BY <1>2, <2>12
    <3>3. \A i \in InUse' : /\ dir'[i].inode_sector \in Sector
                            /\ Own(dir'[i].inode_sector) \subseteq disk_map'
      BY <2>4, <2>5, <2>7, <3>1, <3>2
    <3>4. \A i, j \in InUse' : i # j => dir'[i].inode_sector # dir'[j].inode_sector
      BY <2>7, <3>1, SMT DEF IInv, Entries
    <3>5. \A i, j \in InUse' :
            i # j /\ dir'[i].name = dir'[j].name => dir'[i].name \in missed'
      BY <2>2, <2>7, <3>1, SMT DEF IInv, Entries
    <3> QED
      BY <2>4, <3>3, <3>4, <3>5 DEF Entries, Own
  <2>16. Objects'
    <3>1. \A u \in Thread : At(u, "read") => u # t /\ At(u, "read")' /\ ino'[u] = ino[u]
      BY <1>1, <2>3, <2>4 DEF At, IInv, Types, Locals
    <3>2. \A i \in Inodes : Opened(i) => Live(inode[i].sector)
      BY DEF Live
    <3>3. Objects
      BY DEF IInv
    <3> QED
      BY <2>4, <2>8, <2>9, <2>12, <3>1, <3>2, <3>3 DEF Objects
  <2>17. SameInode'
    BY <2>4 DEF IInv, SameInode
  <2>18. Counted'
    BY <1>1, <2>3, <2>4, RefsKept
  <2>19. Creating(t)' /\ Looking(t)' /\ Using(t)' /\ Releasing(t)'
    BY <2>5 DEF Creating, Looking, Using, Releasing, At
  <2>20. t \in Caller => filesys_sema' = 0
    BY <1>1 DEF IInv, Alone
  <2> QED
    BY <1>1, <2>3, <2>4, <2>6, <2>14, <2>15, <2>16, <2>17, <2>18, <2>19, <2>20, Together
<1> QED
  BY <1>3, <1>4 DEF DirAdd

\* dir_remove cannot write the entry: it closes the inode.
LEMMA NotErasedInv ==
  ASSUME IInv, ~Overlap, NEW t \in Thread, DirErase(t), Goto(t, "close"), UNCHANGED dir
  PROVE  IInv'
<1>1. /\ pc[t] = "opened" /\ Busy(t)
      /\ pc' = [pc EXCEPT ![t] = "close"] /\ "close" \in Label
      /\ UNCHANGED <<disk, memory, filesys_sema, local>>
  BY DEF DirErase, At, Busy, Goto, Label, disk
<1>2. pc'[t] = "close" /\ ino'[t] = ino[t] /\ ino[t] \in Inodes
  BY <1>1 DEF IInv, Types, Locals, Work, Using, local
<1>3. Creating(t)' /\ Looking(t)' /\ Using(t)' /\ Releasing(t)'
  BY <1>2 DEF Creating, Looking, Using, Releasing, At
<1> QED
  BY <1>1, <1>3, GoInv

\* dir_remove erases the entry that lookup found: the file lives on in the
\* open inode.
LEMMA DirEraseInv ==
  ASSUME IInv, ~Overlap, NEW t \in Thread, DirErase(t), Goto(t, "mark"),
         dir' = [dir EXCEPT ![First(Matches(name[t]))] = FreeEntry]
  PROVE  IInv'
<1>1. /\ pc[t] = "opened" /\ op[t] = "remove" /\ Busy(t)
      /\ pc' = [pc EXCEPT ![t] = "mark"] /\ "mark" \in Label
      /\ dir' = [dir EXCEPT ![First(Matches(name[t]))] = FreeEntry]
      /\ UNCHANGED <<disk_map, disk_inode, content, missed, free_map, inode, files,
                     filesys_sema, op, name, isec, data, ino>>
  BY DEF DirErase, At, Busy, Goto, Label, memory, local
<1>2. pc'[t] = "mark" /\ ino'[t] = ino[t] /\ ino[t] \in Inodes
  BY <1>1 DEF IInv, Types, Locals, Work, Using
<1>3. inode[ino[t]].sector = isec[t] /\ Opened(ino[t])
  <2>1. Holding(ino[t])
    BY <1>1 DEF Holding
  <2>2. inode[ino[t]].deny_write_cnt + 1 + One(ino[t] \in files) <= inode[ino[t]].open_cnt
    BY <1>2, <2>1 DEF IInv, Counted, One
  <2>3. Opened(ino[t])
    BY <1>2, <2>2, SMT DEF Opened, One, IInv, Types, TypeOK
  <2> QED
    BY <1>1, <2>3 DEF IInv, Work, Looking
<1>4. PICK k : k = First(Matches(name[t]))
  OBVIOUS
<1>5. k \in InUse /\ dir[k].name = name[t] /\ dir[k].inode_sector = isec[t]
  BY <1>1, <1>4 DEF IInv, Work, Looking, Located, At
<1>6. /\ InUse' = InUse \ {k}
      /\ \A i \in InUse' : dir'[i] = dir[i]
  <2>1. dir' = [dir EXCEPT ![k] = FreeEntry]
    BY <1>1, <1>4
  <2>2. k \in Slot /\ dir'[k] = FreeEntry /\ \A i \in Slot : i # k => dir'[i] = dir[i]
    BY <1>5, <2>1 DEF InUse, IInv, Types, TypeOK
  <2> QED
    BY <2>2, SMT DEF InUse, FreeEntry
<1>7. ~Entry(isec[t])' /\ \A s : Entry(s)' => Entry(s)
  BY <1>1, <1>5, <1>6, SMT DEF Entry, IInv, Entries
<1>8. \A i \in Inodes : Opened(i)' = Opened(i)
  BY <1>1 DEF Opened
<1>9. \A s : Live(s)' => Live(s)
  BY <1>1, <1>7, <1>8 DEF Live
<1>10. Files'
  <2>1. \A s \in Sector : Live(s) => Own(s) \subseteq free_map'
    BY <1>1 DEF IInv, Files
  <2> QED
    BY <1>1, <1>9, <2>1, FilesKept DEF IInv
<1>11. Entries'
  BY <1>1, <1>6, SMT DEF IInv, Entries, Own
<1>12. Objects'
  <2>1. \A u \in Thread : At(u, "read") => u # t /\ At(u, "read")' /\ ino'[u] = ino[u]
    BY <1>1 DEF At, IInv, Types, Locals
  <2>2. Objects
    BY DEF IInv
  <2> QED
    BY <1>1, <1>7, <1>8, <2>1, <2>2 DEF Objects
<1>13. SameInode'
  BY <1>1 DEF IInv, SameInode
<1>14. Counted'
  BY <1>1, RefsKept
<1>15. Types'
  <2>1. FreeEntry \in [in_use : BOOLEAN, name : Name \cup {NONE},
                       inode_sector : Sector \cup {NONE}]
    BY DEF FreeEntry
  <2> QED
    BY <1>1, <2>1 DEF IInv, Types, TypeOK, Locals
<1>16. Creating(t)' /\ Looking(t)' /\ Releasing(t)'
  BY <1>2 DEF Creating, Looking, Releasing, At
<1>17. Using(t)'
  <2>1. ~Entry(inode[ino[t]].sector)'
    BY <1>1, <1>3, <1>7 DEF Entry
  <2> QED
    BY <1>2, <2>1 DEF Using, At
<1>18. t \in Caller => filesys_sema' = 0
  BY <1>1 DEF IInv, Alone
<1> QED
  BY <1>1, <1>10, <1>11, <1>12, <1>13, <1>14, <1>15, <1>16, <1>17, <1>18, Together
(***************************************************************************)
(* Inode objects.                                                          *)
(***************************************************************************)
\* Only the thread that is inside can hold an inode.
LEMMA SoleHolder ==
  ASSUME IInv, ~Overlap, NEW t \in Thread, NEW label \in Label,
         Busy(t) \/ MayStart(t),
         pc' = [pc EXCEPT ![t] = label],
         \A u \in Thread \ {t} : ino'[u] = ino[u]
  PROVE  /\ \A i : Holding(i) <=>
                     pc[t] \in {"read", "opened", "mark", "close"} /\ ino[t] = i
         /\ \A i : Holding(i)' <=>
                     label \in {"read", "opened", "mark", "close"} /\ ino'[t] = i
         /\ \A u \in Thread \ {t} : pc'[u] = pc[u] /\ ~Busy(u)
<1>1. \A u \in Thread \ {t} : pc'[u] = pc[u] /\ ~Busy(u)
  BY DEF IInv, Alone, MayStart, Types, Locals
<1>2. pc'[t] = label
  BY DEF IInv, Types, Locals
<1> QED
  BY <1>1, <1>2 DEF Holding, Busy

\* The processes that run stay the same.
LEMMA SameRunners ==
  ASSUME IInv, NEW t \in Thread, NEW label \in Label,
         pc' = [pc EXCEPT ![t] = label],
         pc[t] # "running", label # "running",
         \A u \in Thread \ {t} : ino'[u] = ino[u],
         NEW i \in Inodes
  PROVE  Runners(i)' = Runners(i)
<1>1. \A u \in Loader : At(u, "running")' /\ ino'[u] = i <=> At(u, "running") /\ ino[u] = i
  BY DEF At, Thread, IInv, Types, Locals
<1> QED
  BY <1>1 DEF Runners

\* The numbers that count references.
LEMMA CountTypes ==
  ASSUME IInv, NEW i \in Inodes
  PROVE  /\ inode[i].deny_write_cnt \in Nat /\ inode[i].open_cnt \in Nat
         /\ inode[i].open_cnt <= MaxOpen
         /\ One(Holding(i)) \in {0, 1} /\ One(i \in files) \in {0, 1}
         /\ inode[i].deny_write_cnt + One(Holding(i)) + One(i \in files)
              <= inode[i].open_cnt
  BY FilesysAssumption, SMT DEF IInv, Types, TypeOK, One, Counted

\* inode_open finds the object of another opener, or none.
LEMMA InodeFindInv ==
  ASSUME IInv, ~Overlap, NEW t \in Thread, InodeFind(t)
  PROVE  IInv'
<1>1. /\ pc[t] = "find" /\ Busy(t)
      /\ UNCHANGED <<disk, free_map, files, filesys_sema, op, name, isec, data>>
  BY DEF InodeFind, At, Busy
<1>2. Looking(t)
  BY DEF IInv, Work
<1>3. Located(t)
  BY <1>1, <1>2 DEF Looking
<1>4. Located(t)'
  BY <1>1, <1>3, LocatedKept DEF disk
<1>5. CASE OpenInodes(isec[t]) = {}
  <2>1. /\ pc' = [pc EXCEPT ![t] = "alloc"] /\ "alloc" \in Label
        /\ UNCHANGED <<disk, memory, filesys_sema, local>>
    BY <1>1, <1>5 DEF InodeFind, Goto, memory, local, Label
  <2>2. pc'[t] = "alloc"
    BY <2>1 DEF IInv, Types, Locals
  <2>3. OpenInodes(isec[t])' = {}
    BY <1>5, <2>1 DEF OpenInodes, memory, local
  <2>4. Creating(t)' /\ Using(t)' /\ Releasing(t)'
    BY <2>2 DEF Creating, Using, Releasing, At
  <2>5. Looking(t)'
    BY <1>1, <1>2, <1>4, <2>2, <2>3 DEF Looking, At
  <2> QED
    BY <1>1, <2>1, <2>4, <2>5, GoInv
<1>6. CASE OpenInodes(isec[t]) # {}
  <2>1. PICK i \in OpenInodes(isec[t]) :
          /\ inode[i].open_cnt < MaxOpen
          /\ inode' = [inode EXCEPT ![i].open_cnt = @ + 1]
          /\ ino' = [ino EXCEPT ![t] = i]
          /\ pc' = [pc EXCEPT ![t] = "opened"]
    BY <1>6 DEF InodeFind, Goto
  <2>2. /\ i \in Inodes /\ inode[i].open_cnt > 0 /\ inode[i].sector = isec[t]
        /\ "opened" \in Label
    BY <2>1 DEF OpenInodes, Label
  <2>3. pc'[t] = "opened" /\ ino'[t] = i /\ \A u \in Thread \ {t} : ino'[u] = ino[u]
    BY <2>1 DEF IInv, Types, Locals
  <2>4. \A j \in Inodes : /\ inode'[j].sector = inode[j].sector
                          /\ inode'[j].removed = inode[j].removed
                          /\ inode'[j].data = inode[j].data
                          /\ inode'[j].deny_write_cnt = inode[j].deny_write_cnt
                          /\ inode'[j].open_cnt = IF j = i THEN inode[j].open_cnt + 1
                                                           ELSE inode[j].open_cnt
    BY <2>1 DEF IInv, Types, TypeOK
  <2>5. Types'
    <3>1. inode[i].open_cnt + 1 \in 0 .. MaxOpen
      BY <2>1, <2>2, FilesysAssumption, SMT DEF IInv, Types, TypeOK
    <3>2. [inode[i] EXCEPT !.open_cnt = @ + 1] \in
            [sector : Sector \cup {NONE}, open_cnt : 0 .. MaxOpen,
             removed : BOOLEAN, deny_write_cnt : 0 .. MaxOpen, data : Extent]
      BY <2>2, <3>1 DEF IInv, Types, TypeOK
    <3>3. TypeOK'
      BY <1>1, <2>1, <2>2, <3>2 DEF IInv, Types, TypeOK, disk
    <3>4. Locals'
      BY <1>1, <2>1, <2>2 DEF IInv, Types, Locals
    <3> QED
      BY <3>3, <3>4 DEF Types
  <2>6. \A j \in Inodes : Opened(j)' = Opened(j)
    BY <2>2, <2>4, SMT DEF Opened, IInv, Types, TypeOK
  <2>7. /\ Files' /\ Entries' /\ Objects' /\ SameInode'
    <3>1. \A s \in Sector : Live(s) => Own(s) \subseteq free_map'
      BY <1>1 DEF IInv, Files
    <3>2. \A j \in InUse : Own(dir[j].inode_sector) \subseteq disk_map'
      BY <1>1 DEF IInv, Entries, disk
    <3>3. UNCHANGED <<disk_inode, dir, missed>>
      BY <1>1 DEF disk
    <3> QED
      BY <1>1, <2>1, <2>2, <2>3, <2>4, <2>6, <3>1, <3>2, <3>3, StoreKept
  <2>8. Counted'
    <3>1. ASSUME NEW j \in Inodes
          PROVE  /\ IsFiniteSet(Runners(j)')
                 /\ inode'[j].deny_write_cnt = Cardinality(Runners(j)')
                 /\ inode'[j].deny_write_cnt + One(Holding(j)') + One(j \in files')
                      <= inode'[j].open_cnt
      <4>1. Runners(j)' = Runners(j)
        BY <1>1, <2>1, <2>2, <2>3, SameRunners
      <4>2. One(Holding(j)) = 0 /\ One(Holding(j)') = IF j = i THEN 1 ELSE 0
        BY <1>1, <2>1, <2>2, <2>3, SoleHolder, ZenonT(30) DEF One
      <4>3. One(j \in files') = One(j \in files)
        BY <1>1
      <4> QED
        BY <2>4, <4>1, <4>2, <4>3, CountTypes, SMT DEF IInv, Counted
    <3> QED
      BY <3>1 DEF Counted
  <2>9. Creating(t)' /\ Releasing(t)'
    BY <2>3 DEF Creating, Releasing, At
  <2>10. Using(t)'
    BY <2>2, <2>3 DEF Using, At
  <2>11. Looking(t)'
    BY <1>1, <1>2, <1>4, <2>2, <2>3, <2>4 DEF Looking, At
  <2>12. t \in Caller => filesys_sema' = 0
    BY <1>1 DEF IInv, Alone
  <2> QED
    BY <1>1, <2>1, <2>2, <2>3, <2>5, <2>7, <2>8, <2>9, <2>10, <2>11, <2>12, Together
<1> QED
  BY <1>5, <1>6
\* inode_open makes a new object.
LEMMA InodeAllocInv ==
  ASSUME IInv, ~Overlap, NEW t \in Thread, InodeAlloc(t)
  PROVE  IInv'
<1>1. /\ pc[t] = "alloc" /\ Busy(t)
      /\ UNCHANGED <<disk, free_map, files, filesys_sema, op, name, isec, data>>
  BY DEF InodeAlloc, At, Busy
<1>2. CASE Goto(t, "up") /\ UNCHANGED <<inode, ino>>
  <2>1. /\ pc' = [pc EXCEPT ![t] = "up"] /\ "up" \in Label
        /\ UNCHANGED <<disk, memory, filesys_sema, local>>
    BY <1>1, <1>2 DEF Goto, memory, local, Label
  <2>2. pc'[t] = "up"
    BY <2>1 DEF IInv, Types, Locals
  <2>3. Creating(t)' /\ Looking(t)' /\ Using(t)' /\ Releasing(t)'
    BY <2>2 DEF Creating, Looking, Using, Releasing, At
  <2> QED
    BY <1>1, <2>1, <2>3, GoInv
<1>3. ASSUME NEW i \in FreeInodes,
             inode' = [inode EXCEPT ![i] =
                         [FreeInode EXCEPT !.sector = isec[t], !.open_cnt = 1]],
             ino' = [ino EXCEPT ![t] = i],
             Goto(t, "read")
      PROVE  IInv'
  <2>1. /\ i \in Inodes /\ inode[i].open_cnt = 0 /\ "read" \in Label
        /\ pc' = [pc EXCEPT ![t] = "read"]
    BY <1>3 DEF FreeInodes, Label, Goto
  <2>2. pc'[t] = "read" /\ ino'[t] = i /\ \A u \in Thread \ {t} : ino'[u] = ino[u]
    BY <1>3, <2>1 DEF IInv, Types, Locals
  <2>3. Looking(t)
    BY DEF IInv, Work
  <2>4. Located(t)
    BY <1>1, <2>3 DEF Looking
  <2>5. Located(t)'
    BY <1>1, <2>4, LocatedKept DEF disk
  <2>6. isec[t] \in Sector /\ Entry(isec[t])
    BY <2>4, LocatedEntry
  <2>7. inode'[i] = [sector |-> isec[t], open_cnt |-> 1, removed |-> FALSE,
                     deny_write_cnt |-> 0, data |-> NoInode]
    BY <1>3, <2>1 DEF FreeInode, IInv, Types, TypeOK
  <2>8. \A j \in Inodes \ {i} : inode'[j] = inode[j]
    BY <1>3 DEF IInv, Types, TypeOK
  <2>9. Types'
    <3>1. inode'[i] \in
            [sector : Sector \cup {NONE}, open_cnt : 0 .. MaxOpen,
             removed : BOOLEAN, deny_write_cnt : 0 .. MaxOpen, data : Extent]
      <4>1. NoInode \in Extent
        BY DEF NoInode, Extent
      <4>2. 0 \in 0 .. MaxOpen /\ 1 \in 0 .. MaxOpen
        BY FilesysAssumption, SMT
      <4> QED
        BY <2>6, <2>7, <4>1, <4>2, SMTT(30)
    <3>2. TypeOK'
      BY <1>1, <1>3, <2>1, <2>7, <3>1 DEF IInv, Types, TypeOK, disk
    <3>3. Locals'
      BY <1>1, <1>3, <2>1 DEF IInv, Types, Locals
    <3> QED
      BY <3>2, <3>3 DEF Types
  <2>10. /\ Opened(i)' /\ ~Opened(i) /\ inode'[i].sector = isec[t]
         /\ \A j \in Inodes \ {i} : Opened(j)' = Opened(j)
    BY <2>1, <2>7, <2>8, SMT DEF Opened
  <2>11. InUse' = InUse /\ \A s : Entry(s)' = Entry(s)
    BY <1>1 DEF InUse, Entry, disk
  <2>12. \A s : Live(s)' => Live(s)
    BY <2>6, <2>8, <2>10, <2>11 DEF Live
  <2>13. Files'
    <3>1. \A s \in Sector : Live(s) => Own(s) \subseteq free_map'
      BY <1>1 DEF IInv, Files
    <3> QED
      BY <1>1, <2>12, <3>1, FilesKept DEF IInv, disk
  <2>14. Entries'
    BY <1>1, <2>11 DEF IInv, Entries, Own, disk
  <2>15. Objects'
    <3>1. \A u \in Thread : At(u, "read") => u # t /\ At(u, "read")' /\ ino'[u] = ino[u]
      BY <1>1, <2>1, <2>2 DEF At, IInv, Types, Locals
    <3>2. Objects /\ disk_inode' = disk_inode
      BY <1>1 DEF IInv, disk
    <3>3. At(t, "read")'
      BY <2>2 DEF At
    <3>4. /\ inode'[i].sector \in Sector /\ ~inode'[i].removed
          /\ inode'[i].data = NoInode
      BY <2>6, <2>7, SMT
    <3> QED
      BY <2>2, <2>8, <2>10, <2>11, <3>1, <3>2, <3>3, <3>4, SMTT(30) DEF Objects
  <2>16. SameInode'
    <3>1. \A j \in Inodes : Opened(j) => inode[j].sector # isec[t]
      BY <1>1, <2>3 DEF Looking, At, OpenInodes, Opened
    <3>2. \A j, m \in Inodes : Opened(j) /\ Opened(m) /\ inode[j].sector = inode[m].sector
                                 => j = m
      BY DEF IInv, SameInode, Opened
    <3>3. \A j, m \in Inodes : Opened(j)' /\ Opened(m)' /\ inode'[j].sector = inode'[m].sector
                                 => j = m
      BY <2>8, <2>10, <3>1, <3>2
    <3> QED
      BY <3>3 DEF SameInode, Opened
  <2>17. Counted'
    <3>1. ASSUME NEW j \in Inodes
          PROVE  /\ IsFiniteSet(Runners(j)')
                 /\ inode'[j].deny_write_cnt = Cardinality(Runners(j)')
                 /\ inode'[j].deny_write_cnt + One(Holding(j)') + One(j \in files')
                      <= inode'[j].open_cnt
      <4>1. Runners(j)' = Runners(j)
        BY <1>1, <2>1, <2>2, SameRunners
      <4>2. One(Holding(j)) = 0 /\ One(Holding(j)') = IF j = i THEN 1 ELSE 0
        BY <1>1, <2>1, <2>2, SoleHolder DEF One
      <4>3. One(j \in files') = One(j \in files)
        BY <1>1
      <4>4. CASE j = i
        <5>1. inode[i].deny_write_cnt = 0 /\ One(i \in files) = 0
          BY <2>1, CountTypes, SMT
        <5>2. inode'[i].deny_write_cnt = 0 /\ inode'[i].open_cnt = 1
          BY <2>7, SMT
        <5> QED
          BY <4>1, <4>2, <4>3, <4>4, <5>1, <5>2, SMT DEF IInv, Counted
      <4>5. CASE j # i
        BY <2>8, <4>1, <4>2, <4>3, <4>5, CountTypes DEF IInv, Counted
      <4> QED
        BY <4>4, <4>5
    <3> QED
      BY <3>1 DEF Counted
  <2>18. Creating(t)' /\ Releasing(t)'
    BY <2>2 DEF Creating, Releasing, At
  <2>19. Using(t)'
    BY <2>1, <2>2 DEF Using, At
  <2>20. Looking(t)'
    BY <1>1, <2>2, <2>3, <2>5, <2>10 DEF Looking, At
  <2>21. t \in Caller => filesys_sema' = 0
    BY <1>1 DEF IInv, Alone
  <2> QED
    BY <1>1, <2>1, <2>2, <2>9, <2>13, <2>14, <2>15, <2>16, <2>17, <2>18, <2>19,
       <2>20, <2>21, Together
<1> QED
  BY <1>2, <1>3 DEF InodeAlloc
\* inode_open reads the new object from disk.
LEMMA InodeReadInv ==
  ASSUME IInv, ~Overlap, NEW t \in Thread, InodeRead(t)
  PROVE  IInv'
<1>1. /\ pc[t] = "read" /\ Busy(t) /\ "opened" \in Label
      /\ pc' = [pc EXCEPT ![t] = "opened"]
      /\ inode' = [inode EXCEPT ![ino[t]].data = disk_inode[isec[t]]]
      /\ UNCHANGED <<disk_map, disk_inode, dir, content, missed, free_map, files,
                     filesys_sema, op, name, isec, data, ino>>
  BY DEF InodeRead, At, Busy, Goto, Label, disk, local
<1>2. Looking(t) /\ Using(t)
  BY DEF IInv, Work
<1>3. pc'[t] = "opened" /\ ino[t] \in Inodes /\ inode[ino[t]].sector = isec[t]
  BY <1>1, <1>2 DEF Looking, Using, IInv, Types, Locals
<1>4. Located(t)
  BY <1>1, <1>2 DEF Looking
<1>5. Located(t)'
  BY <1>1, <1>4, LocatedKept
<1>6. isec[t] \in Sector
  BY <1>4, LocatedEntry
<1>7. \A j \in Inodes : /\ inode'[j].sector = inode[j].sector
                        /\ inode'[j].removed = inode[j].removed
                        /\ inode'[j].deny_write_cnt = inode[j].deny_write_cnt
                        /\ inode'[j].open_cnt = inode[j].open_cnt
                        /\ inode'[j].data = IF j = ino[t] THEN disk_inode[isec[t]]
                                                          ELSE inode[j].data
  BY <1>1, <1>3 DEF IInv, Types, TypeOK
<1>8. Types'
  <2>1. [inode[ino[t]] EXCEPT !.data = disk_inode[isec[t]]] \in
          [sector : Sector \cup {NONE}, open_cnt : 0 .. MaxOpen,
           removed : BOOLEAN, deny_write_cnt : 0 .. MaxOpen, data : Extent]
    BY <1>3, <1>6, SMT DEF IInv, Types, TypeOK
  <2>2. TypeOK'
    BY <1>1, <1>3, <2>1 DEF IInv, Types, TypeOK
  <2>3. Locals'
    BY <1>1 DEF IInv, Types, Locals
  <2> QED
    BY <2>2, <2>3 DEF Types
<1>9. \A j \in Inodes : Opened(j)' = Opened(j)
  BY <1>7 DEF Opened
<1>10. InUse' = InUse /\ \A s : Entry(s)' = Entry(s)
  BY <1>1 DEF InUse, Entry
<1>11. \A s : Live(s)' => Live(s)
  BY <1>7, <1>9, <1>10 DEF Live
<1>12. Files'
  <2>1. \A s \in Sector : Live(s) => Own(s) \subseteq free_map'
    BY <1>1 DEF IInv, Files
  <2> QED
    BY <1>1, <1>11, <2>1, FilesKept DEF IInv
<1>13. Entries'
  BY <1>1, <1>10, SMT DEF IInv, Entries, Own
<1>14. Objects'
  <2>1. \A u \in Thread : At(u, "read") => u = t
    BY <1>1 DEF At, Busy, IInv, Alone
  <2>2. Objects
    BY DEF IInv
  <2> QED
    BY <1>1, <1>3, <1>7, <1>9, <1>10, <2>1, <2>2, SMT DEF Objects
<1>15. SameInode'
  BY <1>7 DEF IInv, SameInode
<1>16. Counted'
  BY <1>1, <1>7, RefsKept
<1>17. Creating(t)' /\ Releasing(t)'
  BY <1>3 DEF Creating, Releasing, At
<1>18. Using(t)'
  BY <1>1, <1>3 DEF Using, At
<1>19. Looking(t)'
  BY <1>1, <1>2, <1>3, <1>5, <1>7 DEF Looking, At
<1>20. t \in Caller => filesys_sema' = 0
  BY <1>1 DEF IInv, Alone
<1> QED
  BY <1>1, <1>8, <1>12, <1>13, <1>14, <1>15, <1>16, <1>17, <1>18, <1>19, <1>20, Together

\* inode_remove marks it.
LEMMA InodeRemoveInv ==
  ASSUME IInv, ~Overlap, NEW t \in Thread, InodeRemove(t)
  PROVE  IInv'
<1>1. /\ pc[t] = "mark" /\ Busy(t) /\ "close" \in Label
      /\ pc' = [pc EXCEPT ![t] = "close"]
      /\ inode' = [inode EXCEPT ![ino[t]].removed = TRUE]
      /\ UNCHANGED <<disk_map, disk_inode, dir, content, missed, free_map, files,
                     filesys_sema, op, name, isec, data, ino>>
  BY DEF InodeRemove, At, Busy, Goto, Label, disk, local
<1>2. /\ pc'[t] = "close" /\ ino[t] \in Inodes
      /\ ~Entry(inode[ino[t]].sector)
  BY <1>1 DEF Using, IInv, Work, Types, Locals, At
<1>3. \A j \in Inodes : /\ inode'[j].sector = inode[j].sector
                        /\ inode'[j].data = inode[j].data
                        /\ inode'[j].deny_write_cnt = inode[j].deny_write_cnt
                        /\ inode'[j].open_cnt = inode[j].open_cnt
                        /\ j # ino[t] => inode'[j].removed = inode[j].removed
  BY <1>1, <1>2 DEF IInv, Types, TypeOK
<1>4. Types'
  <2>1. [inode[ino[t]] EXCEPT !.removed = TRUE] \in
          [sector : Sector \cup {NONE}, open_cnt : 0 .. MaxOpen,
           removed : BOOLEAN, deny_write_cnt : 0 .. MaxOpen, data : Extent]
    BY <1>2, ZenonT(30) DEF IInv, Types, TypeOK
  <2>2. TypeOK'
    BY <1>1, <1>2, <2>1 DEF IInv, Types, TypeOK
  <2>3. Locals'
    BY <1>1 DEF IInv, Types, Locals
  <2> QED
    BY <2>2, <2>3 DEF Types
<1>5. \A j \in Inodes : Opened(j)' = Opened(j)
  BY <1>3 DEF Opened
<1>6. InUse' = InUse /\ \A s : Entry(s)' = Entry(s)
  BY <1>1 DEF InUse, Entry
<1>7. \A s : Live(s)' => Live(s)
  BY <1>3, <1>5, <1>6 DEF Live
<1>8. Files'
  <2>1. \A s \in Sector : Live(s) => Own(s) \subseteq free_map'
    BY <1>1 DEF IInv, Files
  <2> QED
    BY <1>1, <1>7, <2>1, FilesKept DEF IInv
<1>9. Entries'
  BY <1>1, <1>6 DEF IInv, Entries, Own
<1>10. Objects'
  <2>1. \A u \in Thread : At(u, "read") => At(u, "read")'
    BY <1>1 DEF At, IInv, Types, Locals
  <2>2. Objects
    BY DEF IInv
  <2> QED
    BY <1>1, <1>2, <1>3, <1>5, <1>6, <2>1, <2>2, SMT DEF Objects
<1>11. SameInode'
  BY <1>3 DEF IInv, SameInode
<1>12. Counted'
  BY <1>1, <1>3, RefsKept
<1>13. Creating(t)' /\ Looking(t)' /\ Releasing(t)'
  BY <1>2 DEF Creating, Looking, Releasing, At
<1>14. Using(t)'
  BY <1>1, <1>2 DEF Using, At
<1>15. t \in Caller => filesys_sema' = 0
  BY <1>1 DEF IInv, Alone
<1> QED
  BY <1>1, <1>4, <1>8, <1>9, <1>10, <1>11, <1>12, <1>13, <1>14, <1>15, Together
\* inode_close: with the last opener the object is freed, and what a removed
\* file had belongs to no live file any more.
LEMMA InodeCloseInv ==
  ASSUME IInv, ~Overlap, NEW t \in Thread, InodeClose(t)
  PROVE  IInv'
<1>1. PICK i : i = ino[t]
  OBVIOUS
<1>2. /\ pc[t] = "close" /\ Busy(t)
      /\ UNCHANGED <<disk_map, disk_inode, dir, content, missed, free_map, files,
                     filesys_sema, op, name, ino>>
      /\ inode' = IF LastCloser(t) THEN [inode EXCEPT ![i] = FreeInode]
                  ELSE [inode EXCEPT ![i].open_cnt = @ - 1]
  BY <1>1 DEF InodeClose, At, Busy, disk
<1>3. i \in Inodes
  BY <1>1, <1>2 DEF IInv, Work, Using
<1>4. PICK label \in {"release", "up"} :
         /\ pc' = [pc EXCEPT ![t] = label]
         /\ label = "release" =>
              /\ LastCloser(t) /\ inode[i].removed
              /\ isec' = [isec EXCEPT ![t] = inode[i].sector]
              /\ data' = [data EXCEPT ![t] = inode[i].data]
         /\ label = "up" => UNCHANGED <<isec, data>>
  BY <1>1 DEF InodeClose, ReleaseNow, Goto
<1>5. label \in Label /\ pc'[t] = label /\ label \notin {"read", "running"}
  BY <1>4 DEF IInv, Types, Locals, Label
<1>6. /\ inode[i].deny_write_cnt \in Nat /\ inode[i].open_cnt \in Nat
      /\ inode[i].open_cnt <= MaxOpen
      /\ inode[i].deny_write_cnt + 1 + One(i \in files) <= inode[i].open_cnt
      /\ One(i \in files) \in {0, 1}
  <2>1. One(Holding(i)) = 1
    BY <1>1, <1>2 DEF Holding, One
  <2> QED
    BY <1>3, <2>1, CountTypes
<1>7. \A j \in Inodes \ {i} : inode'[j] = inode[j]
  BY <1>2 DEF IInv, Types, TypeOK
<1>8. CASE LastCloser(t)
  <2>1. inode'[i] = FreeInode /\ inode[i].open_cnt = 1
    BY <1>1, <1>2, <1>3, <1>8 DEF IInv, Types, TypeOK, LastCloser
  <2>2. inode[i].deny_write_cnt = 0 /\ One(i \in files) = 0
    BY <1>6, <2>1, SMT
  <2>3. /\ ~Opened(i)' /\ Opened(i)
        /\ \A j \in Inodes \ {i} : Opened(j)' = Opened(j)
    BY <1>7, <2>1, SMT DEF Opened, FreeInode
  <2>4. FreeInode \in [sector : Sector \cup {NONE}, open_cnt : 0 .. MaxOpen,
                       removed : BOOLEAN, deny_write_cnt : 0 .. MaxOpen, data : Extent]
    <3>1. NoInode \in Extent
      BY DEF NoInode, Extent
    <3>2. 0 \in 0 .. MaxOpen
      BY FilesysAssumption, SMT
    <3> QED
      BY <3>1, <3>2 DEF FreeInode
  <2>5. Types'
    <3>1. TypeOK'
      <4>1. inode' = [inode EXCEPT ![i] = FreeInode]
        BY <1>2, <1>8
      <4> QED
        BY <1>2, <2>4, <4>1 DEF IInv, Types, TypeOK
    <3>2. isec' \in [Thread -> Sector \cup {NONE}] /\ data' \in [Thread -> Extent]
      BY <1>3, <1>4 DEF IInv, Types, TypeOK, Locals
    <3>3. Locals'
      BY <1>2, <1>4, <1>5, <3>2 DEF IInv, Types, Locals
    <3> QED
      BY <3>1, <3>3 DEF Types
  <2>6. InUse' = InUse /\ \A s : Entry(s)' = Entry(s)
    BY <1>2 DEF InUse, Entry
  <2>7. \A s : Live(s)' => Live(s)
    BY <1>7, <2>3, <2>6 DEF Live
  <2>8. Files'
    <3>1. \A s \in Sector : Live(s) => Own(s) \subseteq free_map'
      BY <1>2 DEF IInv, Files
    <3> QED
      BY <1>2, <2>7, <3>1, FilesKept DEF IInv
  <2>9. Entries'
    BY <1>2, <2>6 DEF IInv, Entries, Own
  <2>10. Objects'
    <3>1. \A u \in Thread : At(u, "read") => u # t /\ At(u, "read")'
      BY <1>2, <1>4 DEF At, IInv, Types, Locals
    <3>2. Objects
      BY DEF IInv
    <3> QED
      BY <1>2, <1>7, <2>3, <2>6, <3>1, <3>2, SMT DEF Objects
  <2>11. SameInode'
    <3>1. \A j, m \in Inodes : Opened(j) /\ Opened(m) /\ inode[j].sector = inode[m].sector
                                 => j = m
      BY DEF IInv, SameInode, Opened
    <3>2. \A j, m \in Inodes : Opened(j)' /\ Opened(m)' /\ inode'[j].sector = inode'[m].sector
                                 => j = m
      BY <1>7, <2>3, <3>1
    <3> QED
      BY <3>2 DEF SameInode, Opened
  <2>12. Counted'
    <3>1. ASSUME NEW j \in Inodes
          PROVE  /\ IsFiniteSet(Runners(j)')
                 /\ inode'[j].deny_write_cnt = Cardinality(Runners(j)')
                 /\ inode'[j].deny_write_cnt + One(Holding(j)') + One(j \in files')
                      <= inode'[j].open_cnt
      <4>1. Runners(j)' = Runners(j)
        BY <1>2, <1>4, <1>5, SameRunners
      <4>2. One(Holding(j)') = 0 /\ (j # i => One(Holding(j)) = 0)
        BY <1>1, <1>2, <1>4, <1>5, SoleHolder DEF One
      <4>3. One(j \in files') = One(j \in files)
        BY <1>2
      <4>4. CASE j = i
        <5>1. inode'[i].deny_write_cnt = 0 /\ inode'[i].open_cnt = 0
          BY <2>1, SMT DEF FreeInode
        <5> QED
          BY <2>2, <4>1, <4>2, <4>3, <4>4, <5>1, SMT DEF IInv, Counted
      <4>5. CASE j # i
        BY <1>7, <4>1, <4>2, <4>3, <4>5, CountTypes DEF IInv, Counted
      <4> QED
        BY <4>4, <4>5
    <3> QED
      BY <3>1 DEF Counted
  <2>13. Creating(t)' /\ Looking(t)' /\ Using(t)'
    BY <1>4, <1>5 DEF Creating, Looking, Using, At
  <2>14. Releasing(t)'
    <3>1. CASE label = "up"
      BY <1>5, <3>1 DEF Releasing, At
    <3>2. CASE label = "release"
      <4>1. isec'[t] = inode[i].sector /\ data'[t] = inode[i].data /\ inode[i].removed
        BY <1>4, <3>2 DEF IInv, Types, Locals
      <4>2. /\ inode[i].sector \in Sector /\ ~Entry(inode[i].sector)
            /\ inode[i].data = disk_inode[inode[i].sector]
        <5>1. ~\E u \in Thread : At(u, "read") /\ ino[u] = i
          BY <1>2 DEF At, Busy, IInv, Alone
        <5> QED
          BY <1>3, <2>3, <4>1, <5>1 DEF IInv, Objects
      <4>3. \A s : Live(s)' => s # inode[i].sector
        <5>1. \A j \in Inodes \ {i} : Opened(j) => inode[j].sector # inode[i].sector
          BY <1>3, <2>3 DEF IInv, SameInode, Opened
        <5> QED
          BY <1>7, <2>3, <2>6, <4>2, <5>1 DEF Live
      <4>4. Live(inode[i].sector)
        BY <1>3, <2>3 DEF Live
      <4>5. \A s \in Sector : Live(s)' => Own(s) \cap Own(inode[i].sector) = {}
        BY <2>7, <4>2, <4>3, <4>4 DEF IInv, Files
      <4>6. Own(inode[i].sector) = {isec'[t]} \cup Blocks(data'[t])
        BY <4>1, <4>2 DEF Own
      <4>7. \A s : Own(s)' = Own(s)
        BY <1>2 DEF Own
      <4>8. Foreign({isec[t]})' /\ Foreign(Blocks(data[t]))'
        BY <4>5, <4>6, <4>7 DEF Foreign
      <4> QED
        BY <4>8 DEF Releasing
    <3> QED
      BY <3>1, <3>2
  <2>15. t \in Caller => filesys_sema' = 0
    BY <1>2 DEF IInv, Alone
  <2> QED
    BY <1>2, <1>4, <1>5, <2>5, <2>8, <2>9, <2>10, <2>11, <2>12, <2>13, <2>14,
       <2>15, Together
<1>9. CASE ~LastCloser(t)
  <2>1. /\ label = "up"
        /\ inode' = [inode EXCEPT ![i].open_cnt = @ - 1]
    BY <1>2, <1>4, <1>9
  <2>2. \A j \in Inodes : /\ inode'[j].sector = inode[j].sector
                          /\ inode'[j].removed = inode[j].removed
                          /\ inode'[j].data = inode[j].data
                          /\ inode'[j].deny_write_cnt = inode[j].deny_write_cnt
                          /\ inode'[j].open_cnt = IF j = i THEN inode[j].open_cnt - 1
                                                           ELSE inode[j].open_cnt
    BY <1>3, <2>1 DEF IInv, Types, TypeOK
  <2>3. inode[i].open_cnt > 1
    BY <1>1, <1>6, <1>9, SMT DEF LastCloser
  <2>4. Types'
    <3>1. inode[i].open_cnt - 1 \in 0 .. MaxOpen
      BY <1>6, <2>3, FilesysAssumption, SMT
    <3>2. [inode[i] EXCEPT !.open_cnt = @ - 1] \in
            [sector : Sector \cup {NONE}, open_cnt : 0 .. MaxOpen,
             removed : BOOLEAN, deny_write_cnt : 0 .. MaxOpen, data : Extent]
      BY <1>3, <3>1 DEF IInv, Types, TypeOK
    <3>3. TypeOK'
      BY <1>2, <1>3, <2>1, <3>2 DEF IInv, Types, TypeOK
    <3>4. Locals'
      BY <1>2, <1>4, <1>5, <2>1 DEF IInv, Types, Locals
    <3> QED
      BY <3>3, <3>4 DEF Types
  <2>5. \A j \in Inodes : Opened(j)' = Opened(j)
    BY <1>6, <2>2, <2>3, SMT DEF Opened
  <2>6. /\ Files' /\ Entries' /\ Objects' /\ SameInode'
    <3>1. \A s \in Sector : Live(s) => Own(s) \subseteq free_map'
      BY <1>2 DEF IInv, Files
    <3>2. \A j \in InUse : Own(dir[j].inode_sector) \subseteq disk_map'
      BY <1>2 DEF IInv, Entries
    <3> QED
      BY <1>2, <1>4, <1>5, <2>2, <2>5, <3>1, <3>2, StoreKept
  <2>7. Counted'
    <3>1. ASSUME NEW j \in Inodes
          PROVE  /\ IsFiniteSet(Runners(j)')
                 /\ inode'[j].deny_write_cnt = Cardinality(Runners(j)')
                 /\ inode'[j].deny_write_cnt + One(Holding(j)') + One(j \in files')
                      <= inode'[j].open_cnt
      <4>1. Runners(j)' = Runners(j)
        BY <1>2, <1>4, <1>5, SameRunners
      <4>2. /\ One(Holding(j)') = 0
            /\ One(Holding(j)) = IF j = i THEN 1 ELSE 0
        BY <1>1, <1>2, <1>4, <1>5, SoleHolder DEF One
      <4>3. One(j \in files') = One(j \in files)
        BY <1>2
      <4> QED
        BY <2>2, <4>1, <4>2, <4>3, CountTypes, SMT DEF IInv, Counted
    <3> QED
      BY <3>1 DEF Counted
  <2>8. Creating(t)' /\ Looking(t)' /\ Using(t)' /\ Releasing(t)'
    BY <1>5, <2>1 DEF Creating, Looking, Using, Releasing, At
  <2>9. t \in Caller => filesys_sema' = 0
    BY <1>2 DEF IInv, Alone
  <2> QED
    BY <1>2, <1>4, <1>5, <2>4, <2>6, <2>7, <2>8, <2>9, Together
<1> QED
  BY <1>8, <1>9
\* file_open succeeds: open keeps the file, load denies writes to it.
LEMMA FileOpenedInv ==
  ASSUME Counting, IInv, ~Overlap, NEW t \in Thread, FileOpened(t)
  PROVE  IInv'
<1>1. /\ pc[t] = "opened" /\ Busy(t) /\ op[t] # "remove"
      /\ UNCHANGED <<disk_map, disk_inode, dir, content, missed, free_map, filesys_sema,
                     op, name, isec, data, ino>>
  BY DEF FileOpened, At, Busy, disk, local
<1>2. PICK i : i = ino[t]
  OBVIOUS
<1>3. i \in Inodes /\ (t \notin Caller => op[t] = "load") /\ (t \in Caller => op[t] = "open")
  BY <1>1, <1>2 DEF IInv, Work, Using, Looking
<1>4. /\ inode[i].deny_write_cnt \in Nat /\ inode[i].open_cnt \in Nat
      /\ inode[i].open_cnt <= MaxOpen
      /\ inode[i].deny_write_cnt + 1 + One(i \in files) <= inode[i].open_cnt
      /\ One(i \in files) \in {0, 1}
  <2>1. One(Holding(i)) = 1
    BY <1>1, <1>2 DEF Holding, One
  <2> QED
    BY <1>3, <2>1, CountTypes
<1>5. t \in Caller => filesys_sema' = 0
  BY <1>1 DEF IInv, Alone
<1>6. \A s \in Sector : Live(s) => Own(s) \subseteq free_map'
  BY <1>1 DEF IInv, Files
<1>7. \A j \in InUse : Own(dir[j].inode_sector) \subseteq disk_map'
  BY <1>1 DEF IInv, Entries
<1>8. CASE op[t] = "open"
  <2>1. /\ pc' = [pc EXCEPT ![t] = "up"] /\ "up" \in Label
        /\ files' = files \cup {i} /\ inode' = inode
    BY <1>2, <1>8 DEF FileOpened, Goto, Label
  <2>2. pc'[t] = "up"
    BY <2>1 DEF IInv, Types, Locals
  <2>3. Types'
    BY <1>1, <1>3, <2>1 DEF IInv, Types, TypeOK, Locals
  <2>4. /\ Files' /\ Entries' /\ Objects' /\ SameInode'
    BY <1>1, <1>6, <1>7, <2>1, StoreKept DEF Opened
  <2>5. Counted'
    <3>1. ASSUME NEW j \in Inodes
          PROVE  /\ IsFiniteSet(Runners(j)')
                 /\ inode'[j].deny_write_cnt = Cardinality(Runners(j)')
                 /\ inode'[j].deny_write_cnt + One(Holding(j)') + One(j \in files')
                      <= inode'[j].open_cnt
      <4>1. Runners(j)' = Runners(j)
        BY <1>1, <2>1, SameRunners
      <4>2. One(Holding(j)') = 0 /\ One(Holding(j)) = IF j = i THEN 1 ELSE 0
        BY <1>1, <1>2, <2>1, SoleHolder DEF One
      <4>3. One(j \in files') = IF j = i THEN 1 ELSE One(j \in files)
        BY <2>1 DEF One
      <4> QED
        BY <2>1, <4>1, <4>2, <4>3, CountTypes, SMT DEF IInv, Counted
    <3> QED
      BY <3>1 DEF Counted
  <2>6. Creating(t)' /\ Looking(t)' /\ Using(t)' /\ Releasing(t)'
    BY <2>2 DEF Creating, Looking, Using, Releasing, At
  <2> QED
    BY <1>1, <1>5, <2>1, <2>3, <2>4, <2>5, <2>6, Together
<1>9. CASE op[t] # "open"
  <2>1. /\ pc' = [pc EXCEPT ![t] = "running"] /\ "running" \in Label
        /\ inode' = [inode EXCEPT ![i].deny_write_cnt = @ + 1] /\ files' = files
    BY <1>2, <1>9 DEF FileOpened, DenyWrite, Goto, Label
  <2>2. pc'[t] = "running" /\ t \in Loader
    BY <1>3, <1>9, <2>1 DEF IInv, Types, Locals, Thread
  <2>3. \A j \in Inodes : /\ inode'[j].sector = inode[j].sector
                          /\ inode'[j].removed = inode[j].removed
                          /\ inode'[j].data = inode[j].data
                          /\ inode'[j].open_cnt = inode[j].open_cnt
                          /\ inode'[j].deny_write_cnt =
                               IF j = i THEN inode[j].deny_write_cnt + 1
                                        ELSE inode[j].deny_write_cnt
    BY <2>1 DEF IInv, Types, TypeOK
  <2>4. Types'
    <3>1. inode[i].deny_write_cnt + 1 \in 0 .. MaxOpen
      BY <1>4, FilesysAssumption, SMT
    <3>2. [inode[i] EXCEPT !.deny_write_cnt = @ + 1] \in
            [sector : Sector \cup {NONE}, open_cnt : 0 .. MaxOpen,
             removed : BOOLEAN, deny_write_cnt : 0 .. MaxOpen, data : Extent]
      BY <1>3, <3>1 DEF IInv, Types, TypeOK
    <3>3. TypeOK'
      BY <1>1, <1>3, <2>1, <3>2 DEF IInv, Types, TypeOK
    <3>4. Locals'
      BY <1>1, <2>1 DEF IInv, Types, Locals
    <3> QED
      BY <3>3, <3>4 DEF Types
  <2>5. \A j \in Inodes : Opened(j)' = Opened(j)
    BY <2>3 DEF Opened
  <2>6. /\ Files' /\ Entries' /\ Objects' /\ SameInode'
    BY <1>1, <1>6, <1>7, <2>1, <2>3, <2>5, StoreKept
  <2>7. Counted'
    <3>1. ASSUME NEW j \in Inodes
          PROVE  /\ IsFiniteSet(Runners(j)')
                 /\ inode'[j].deny_write_cnt = Cardinality(Runners(j)')
                 /\ inode'[j].deny_write_cnt + One(Holding(j)') + One(j \in files')
                      <= inode'[j].open_cnt
      <4>1. One(Holding(j)') = 0 /\ One(Holding(j)) = IF j = i THEN 1 ELSE 0
        BY <1>1, <1>2, <2>1, SoleHolder DEF One
      <4>2. One(j \in files') = One(j \in files)
        BY <2>1
      <4>3. \A u \in Loader : At(u, "running")' /\ ino'[u] = j <=>
                                \/ At(u, "running") /\ ino[u] = j
                                \/ u = t /\ j = i
        BY <1>1, <1>2, <2>1, <2>2 DEF At, Thread, IInv, Types, Locals
      <4>4. Runners(j)' = IF j = i THEN Runners(j) \cup {t} ELSE Runners(j)
        BY <2>2, <4>3 DEF Runners
      <4>5. t \notin Runners(j)
        BY <1>1 DEF Runners, At
      <4>6. IsFiniteSet(Runners(j)) /\ inode[j].deny_write_cnt = Cardinality(Runners(j))
        BY DEF IInv, Counted
      <4>7. /\ IsFiniteSet(Runners(j) \cup {t})
            /\ Cardinality(Runners(j) \cup {t}) = Cardinality(Runners(j)) + 1
        BY <4>5, <4>6 DEF Counting
      <4>8. CASE j = i
        BY <1>4, <2>3, <4>1, <4>2, <4>4, <4>6, <4>7, <4>8, SMT
      <4>9. CASE j # i
        BY <2>3, <4>1, <4>2, <4>4, <4>6, <4>9, CountTypes
      <4> QED
        BY <4>8, <4>9
    <3> QED
      BY <3>1 DEF Counted
  <2>8. Creating(t)' /\ Looking(t)' /\ Releasing(t)'
    BY <2>2 DEF Creating, Looking, Releasing, At
  <2>9. Using(t)'
    BY <1>1, <1>2, <1>3, <2>2 DEF Using, At
  <2> QED
    BY <1>1, <1>5, <2>1, <2>4, <2>6, <2>7, <2>8, <2>9, Together
<1> QED
  BY <1>8, <1>9

\* file_close, on exit, allows writes again.
LEMMA FileCloseInv ==
  ASSUME Counting, IInv, ~Overlap, NEW t \in Loader, FileClose(t)
  PROVE  IInv'
<1>1. PICK i : i = ino[t]
  OBVIOUS
<1>2. /\ pc[t] = "running" /\ MayStart(t) /\ t \in Thread /\ t \notin Caller
      /\ pc' = [pc EXCEPT ![t] = "close"] /\ "close" \in Label
      /\ inode' = [inode EXCEPT ![i].deny_write_cnt = @ - 1]
      /\ UNCHANGED <<disk_map, disk_inode, dir, content, missed, free_map, files,
                     filesys_sema, op, name, isec, data, ino>>
  BY <1>1, FilesysAssumption
     DEF FileClose, AllowWrite, Goto, At, Label, Thread, disk, local
<1>3. i \in Inodes /\ pc'[t] = "close"
  BY <1>1, <1>2 DEF IInv, Work, Using, Types, Locals
<1>4. \A j \in Inodes : /\ inode'[j].sector = inode[j].sector
                        /\ inode'[j].removed = inode[j].removed
                        /\ inode'[j].data = inode[j].data
                        /\ inode'[j].open_cnt = inode[j].open_cnt
                        /\ inode'[j].deny_write_cnt =
                             IF j = i THEN inode[j].deny_write_cnt - 1
                                      ELSE inode[j].deny_write_cnt
  BY <1>2 DEF IInv, Types, TypeOK
<1>5. ASSUME NEW j \in Inodes
      PROVE  /\ IsFiniteSet(Runners(j))
             /\ inode[j].deny_write_cnt = Cardinality(Runners(j))
  BY DEF IInv, Counted
<1>6. t \in Runners(i)
  BY <1>1, <1>2 DEF Runners, At
<1>7. /\ IsFiniteSet(Runners(i) \ {t})
      /\ Cardinality(Runners(i) \ {t}) = Cardinality(Runners(i)) - 1
      /\ Cardinality(Runners(i) \ {t}) \in Nat
  BY <1>3, <1>5, <1>6 DEF Counting
<1>8. inode[i].deny_write_cnt - 1 \in 0 .. MaxOpen
  <2>1. inode[i].deny_write_cnt \in 0 .. MaxOpen
    BY <1>3 DEF IInv, Types, TypeOK
  <2> QED
    BY <1>3, <1>5, <1>7, <2>1, FilesysAssumption, SMT
<1>9. Types'
  <2>1. [inode[i] EXCEPT !.deny_write_cnt = @ - 1] \in
          [sector : Sector \cup {NONE}, open_cnt : 0 .. MaxOpen,
           removed : BOOLEAN, deny_write_cnt : 0 .. MaxOpen, data : Extent]
    BY <1>3, <1>8 DEF IInv, Types, TypeOK
  <2>2. TypeOK'
    BY <1>2, <1>3, <2>1 DEF IInv, Types, TypeOK
  <2>3. Locals'
    BY <1>2 DEF IInv, Types, Locals
  <2> QED
    BY <2>2, <2>3 DEF Types
<1>10. \A j \in Inodes : Opened(j)' = Opened(j)
  BY <1>4 DEF Opened
<1>11. /\ Files' /\ Entries' /\ Objects' /\ SameInode'
  <2>1. \A s \in Sector : Live(s) => Own(s) \subseteq free_map'
    BY <1>2 DEF IInv, Files
  <2>2. \A j \in InUse : Own(dir[j].inode_sector) \subseteq disk_map'
    BY <1>2 DEF IInv, Entries
  <2> QED
    BY <1>2, <1>4, <1>10, <2>1, <2>2, StoreKept
<1>12. Counted'
  <2>1. ASSUME NEW j \in Inodes
        PROVE  /\ IsFiniteSet(Runners(j)')
               /\ inode'[j].deny_write_cnt = Cardinality(Runners(j)')
               /\ inode'[j].deny_write_cnt + One(Holding(j)') + One(j \in files')
                    <= inode'[j].open_cnt
    <3>1. One(Holding(j)) = 0 /\ One(Holding(j)') = IF j = i THEN 1 ELSE 0
      BY <1>1, <1>2, SoleHolder DEF One
    <3>2. One(j \in files') = One(j \in files)
      BY <1>2
    <3>3. \A u \in Loader : At(u, "running")' /\ ino'[u] = j <=>
                              At(u, "running") /\ ino[u] = j /\ u # t
      BY <1>2 DEF At, Thread, IInv, Types, Locals
    <3>4. Runners(j)' = Runners(j) \ {t}
      BY <3>3 DEF Runners
    <3>5. j # i => Runners(j)' = Runners(j)
      BY <1>1, <3>4 DEF Runners
    <3>6. CASE j = i
      <4>1. Runners(j)' = Runners(i) \ {t}
        BY <3>4, <3>6
      <4>2. inode'[i].deny_write_cnt = Cardinality(Runners(i) \ {t})
        BY <1>3, <1>4, <1>5, <1>7
      <4> QED
        BY <1>3, <1>4, <1>7, <3>1, <3>2, <3>6, <4>1, <4>2, CountTypes, SMT
    <3>7. CASE j # i
      BY <1>4, <1>5, <3>1, <3>2, <3>5, <3>7, CountTypes
    <3> QED
      BY <3>6, <3>7
  <2> QED
    BY <2>1 DEF Counted
<1>13. Creating(t)' /\ Looking(t)' /\ Releasing(t)'
  BY <1>3 DEF Creating, Looking, Releasing, At
<1>14. Using(t)'
  BY <1>1, <1>2, <1>3 DEF Using, At
<1> QED
  BY <1>2, <1>9, <1>11, <1>12, <1>13, <1>14, Together
(***************************************************************************)
(* The invariant and what it gives.                                        *)
(***************************************************************************)
\* When no thread is inside and no inode is open.
LEMMA RestInv ==
  ASSUME Counting, Types, Entries,
         pc = [t \in Thread |-> "idle"], inode = [i \in Inodes |-> FreeInode],
         files = {},
         \A s, r \in Sector : Entry(s) /\ Entry(r) /\ s # r => Own(s) \cap Own(r) = {},
         \A s \in Sector : Entry(s) => disk_inode[s] # NoInode /\ Own(s) \subseteq free_map
  PROVE  IInv
<1>1. \A i \in Inodes : ~Opened(i)
  BY SMT DEF Opened, FreeInode
<1>2. Files
  BY <1>1 DEF Files, Live
<1>3. Objects
  BY <1>1 DEF Objects
<1>4. SameInode
  BY <1>1 DEF SameInode, Opened
<1>5. \A t \in Thread : pc[t] = "idle"
  OBVIOUS
<1>6. Alone
  BY <1>5 DEF Alone, Busy, Thread
<1>7. Counted
  <2>1. ASSUME NEW i \in Inodes
        PROVE  Runners(i) = {} /\ ~Holding(i)
    BY <1>5 DEF Runners, Holding, At, Thread
  <2>2. IsFiniteSet({}) /\ Cardinality({}) = 0
    BY DEF Counting
  <2> QED
    BY <2>1, <2>2, SMT DEF Counted, One, FreeInode
<1>8. Work
  <2>1. ASSUME NEW t \in Thread
        PROVE  Creating(t) /\ Looking(t) /\ Using(t) /\ Releasing(t)
    BY <1>5 DEF Creating, Looking, Using, Releasing, At
  <2> QED
    BY <2>1 DEF Work
<1> QED
  BY <1>2, <1>3, <1>4, <1>6, <1>7, <1>8 DEF IInv

\* Nothing and FreeInode have the types of what they stand for.
LEMMA RestTypes ==
  /\ NoInode \in Extent
  /\ FreeInode \in [sector : Sector \cup {NONE}, open_cnt : 0 .. MaxOpen,
                    removed : BOOLEAN, deny_write_cnt : 0 .. MaxOpen, data : Extent]
  /\ FreeEntry \in [in_use : BOOLEAN, name : Name \cup {NONE},
                    inode_sector : Sector \cup {NONE}]
<1>1. NoInode \in Extent
  BY DEF NoInode, Extent
<1>2. 0 \in 0 .. MaxOpen
  BY FilesysAssumption, SMT
<1> QED
  BY <1>1, <1>2 DEF FreeInode, FreeEntry

\* A formatted disk satisfies the invariant.
LEMMA InitInv ==
  ASSUME Counting, Init
  PROVE  IInv
<1>1. Types
  <2>1. TypeOK
    BY RestTypes DEF Init, TypeOK
  <2>2. Locals
    BY RestTypes DEF Init, Locals, Label
  <2> QED
    BY <2>1, <2>2 DEF Types
<1>2. InUse = {}
  BY DEF Init, InUse, FreeEntry
<1>3. Entries /\ \A s : ~Entry(s)
  BY <1>2 DEF Entries, Entry
<1> QED
  BY <1>1, <1>3, RestInv DEF Init

\* So does a disk on which a crash has left what it had.
LEMMA CrashInv ==
  ASSUME Counting, IInv, Crash
  PROVE  IInv'
<1>1. /\ inode' = [i \in Inodes |-> FreeInode] /\ files' = {}
      /\ pc' = [t \in Thread |-> "idle"] /\ free_map' = disk_map
      /\ UNCHANGED <<disk_map, disk_inode, dir, content, missed>>
  BY DEF Crash, Reset, FreeMapOpen, disk
<1>2. Types'
  <2>1. TypeOK'
    <3>1. filesys_sema' \in {0, 1} /\ inode' \in
            [Inodes -> [sector : Sector \cup {NONE}, open_cnt : 0 .. MaxOpen,
                        removed : BOOLEAN, deny_write_cnt : 0 .. MaxOpen,
                        data : Extent]]
      BY <1>1, RestTypes, ZenonT(30) DEF Crash, Reset
    <3> QED
      BY <1>1, <3>1 DEF IInv, Types, TypeOK
  <2>2. Locals'
    BY RestTypes DEF Crash, Reset, Locals, Label
  <2> QED
    BY <2>1, <2>2 DEF Types
<1>3. InUse' = InUse /\ (\A s : Entry(s)' = Entry(s)) /\ (\A s : Own(s)' = Own(s))
  BY <1>1 DEF InUse, Entry, Own
<1>4. Entries'
  BY <1>1, <1>3 DEF IInv, Entries, Own
<1>5. \A s : Entry(s) => Live(s) /\ Own(s) \subseteq disk_map
  BY DEF Live, Entry, IInv, Entries
<1>6. \A s, r \in Sector : Entry(s)' /\ Entry(r)' /\ s # r => Own(s)' \cap Own(r)' = {}
  BY <1>3, <1>5 DEF IInv, Files
<1>7. \A s \in Sector : Entry(s)' => disk_inode'[s] # NoInode /\ Own(s)' \subseteq free_map'
  BY <1>1, <1>3, <1>5 DEF IInv, Files
<1>8. (/\ Counting /\ Types /\ Entries
       /\ pc = [t \in Thread |-> "idle"] /\ inode = [i \in Inodes |-> FreeInode]
       /\ files = {}
       /\ \A s, r \in Sector : Entry(s) /\ Entry(r) /\ s # r => Own(s) \cap Own(r) = {}
       /\ \A s \in Sector :
            Entry(s) => disk_inode[s] # NoInode /\ Own(s) \subseteq free_map
       => IInv)'
  BY RestInv, PTL
<1>9. Counting'
  BY DEF Counting
<1> QED
  BY <1>1, <1>2, <1>4, <1>6, <1>7, <1>8, <1>9

\* Every step keeps the invariant.
LEMMA NextInv ==
  ASSUME Searching, Counting, ~Overlap, IInv, [Next]_vars
  PROVE  IInv'
<1>1. ASSUME NEW t \in Caller, NEW n \in Name, NEW len \in Length,
             CallCreate(t, n, len)
      PROVE  IInv'
  <2>1. [start |-> NONE, length |-> len] \in Extent
    BY FilesysAssumption DEF Extent
  <2>2. data' \in [Thread -> Extent]
    BY <1>1, <2>1 DEF CallCreate, IInv, Types, Locals
  <2> QED
    BY <1>1, <2>2, EnterInv DEF CallCreate
<1>2. ASSUME NEW t \in Caller, NEW n \in Name, CallOpen(t, n) \/ CallRemove(t, n)
      PROVE  IInv'
  <2>1. data' \in [Thread -> Extent]
    BY <1>2 DEF CallOpen, CallRemove, IInv, Types, Locals
  <2> QED
    BY <1>2, <2>1, EnterInv DEF CallOpen, CallRemove
<1>3. ASSUME NEW t \in Thread, Create(t)
      PROVE  IInv'
  <2>1. CreateMap(t) => IInv'
    BY WriteMapInv, FreeInv DEF CreateMap, UndoAllocate
  <2>2. CreateDataMap(t) => IInv'
    BY WriteMapInv, FreeInv DEF CreateDataMap, UndoAllocate
  <2>3. CreateFail(t) => IInv'
    BY FreeInv DEF CreateFail, disk
  <2>4. CreateFailMap(t) => IInv'
    BY WriteMapInv, KeepOldMapInv DEF CreateFailMap
  <2> QED
    BY <1>3, <2>1, <2>2, <2>3, <2>4, CreateSectorInv, CreateDataInv,
       CreateInodeInv, CreateZeroInv, DirAddInv DEF Create
<1>4. ASSUME NEW t \in Thread, Open(t)
      PROVE  IInv'
  BY <1>4, DirLookupInv, InodeFindInv, InodeAllocInv, InodeReadInv,
     FileOpenedInv, FileNotOpenedInv DEF Open
<1>5. ASSUME NEW t \in Thread, Close(t)
      PROVE  IInv'
  <2>1. ReleaseSector(t) \/ ReleaseData(t) => IInv'
    BY FreeInv DEF ReleaseSector, ReleaseData, Release, disk
  <2>2. ReleaseMap(t) \/ ReleaseDataMap(t) => IInv'
    BY WriteMapInv, KeepOldMapInv DEF ReleaseMap, ReleaseDataMap
  <2> QED
    BY <1>5, <2>1, <2>2, InodeCloseInv DEF Close
<1>6. CASE UNCHANGED vars
  <2>1. UNCHANGED <<disk_map, disk_inode, dir, content, missed, free_map, inode, files,
                    filesys_sema, pc, op, name, isec, data, ino>>
    BY <1>6 DEF vars, disk, memory, local
  <2>2. Types' /\ Alone'
    BY <2>1 DEF IInv, Types, TypeOK, Locals, Alone, Busy
  <2>3. Files' /\ Entries' /\ Objects' /\ SameInode'
    <3>1. \A s : Entry(s)' = Entry(s) /\ Own(s)' = Own(s)
      BY <2>1 DEF Entry, InUse, Own
    <3>2. \A s : Live(s)' = Live(s)
      BY <2>1, <3>1 DEF Live, Opened
    <3>3. Files'
      BY <2>1, <3>1, <3>2 DEF IInv, Files
    <3>4. Entries' /\ SameInode'
      BY <2>1 DEF IInv, Entries, SameInode, InUse, Own
    <3>5. Objects'
      BY <2>1, <3>1 DEF IInv, Objects, Opened, At
    <3> QED
      BY <3>3, <3>4, <3>5
  <2>4. Counted'
    BY <2>1 DEF IInv, Counted, Runners, Holding, At
  <2>5. ASSUME NEW t \in Thread
        PROVE  Creating(t)' /\ Looking(t)' /\ Using(t)' /\ Releasing(t)'
    <3>1. /\ Foreign({isec[t]})' = Foreign({isec[t]})
          /\ Foreign(Blocks(data[t]))' = Foreign(Blocks(data[t]))
      BY <2>1 DEF Foreign, Live, Own, Entry, InUse, Opened
    <3>2. Creating(t)' /\ Releasing(t)'
      BY <2>1, <3>1 DEF IInv, Work, Creating, Releasing, At
    <3>3. Looking(t)'
      <4>1. Located(t) => Located(t)'
        BY <2>1, LocatedKept
      <4> QED
        BY <2>1, <4>1 DEF IInv, Work, Looking, OpenInodes, At
    <3>4. Using(t)'
      BY <2>1 DEF IInv, Work, Using, Entry, InUse, Writable, At
    <3> QED
      BY <3>2, <3>3, <3>4
  <2> QED
    BY <2>2, <2>3, <2>4, <2>5 DEF IInv, Work
<1>7. \A t \in Caller : t \in Thread
  BY DEF Thread
<1>8. \A t \in Loader : t \in Thread
  BY DEF Thread
<1>9. ASSUME NEW t \in Caller,
             \/ \E i \in files : CallWrite(t, i)
             \/ DirErase(t) \/ InodeRemove(t) \/ Write(t) \/ Leave(t)
      PROVE  IInv'
  <2>1. DirErase(t) => IInv'
    BY <1>7, DirEraseInv, NotErasedInv DEF DirErase
  <2> QED
    BY <1>7, <1>9, <2>1, CallWriteInv, InodeRemoveInv, WriteCheckInv,
       WriteSectorInv, LeaveInv DEF Write
<1>10. ASSUME NEW t \in Loader,
              \/ \E n \in Name : CallLoad(t, n)
              \/ FileClose(t) \/ Leave(t)
       PROVE  IInv'
  BY <1>8, <1>10, LoadInv, FileCloseInv, LeaveInv
<1> QED
  BY <1>1, <1>2, <1>3, <1>4, <1>5, <1>6, <1>7, <1>8, <1>9, <1>10, CrashInv DEF Next

(***************************************************************************)
(* First members and cardinalities.                                        *)
(***************************************************************************)
INSTANCE FiniteSetTheorems

LEMMA Least == Searching
<1> SUFFICES ASSUME NEW S \in SUBSET Nat, S # {}
             PROVE  First(S) \in S
  BY DEF Searching
<1> DEFINE R == {ss \in Nat \X Nat : ss[1] < ss[2]}
<1>1. IsWellFoundedOn(R, Nat)
  BY NatLessThanWellFounded DEF OpToRel
<1>2. \E x \in S : \A y \in S : ~ (<<y, x>> \in R)
  <2> HIDE DEF R
  <2> QED
    BY <1>1, WFMin
<1>3. \E x \in S : \A y \in S : x =< y
  <2>1. PICK x \in S : \A y \in S : <<y, x>> \notin R
    BY <1>2
  <2>2. ASSUME NEW y \in S
        PROVE  x =< y
    <3>1. x \in Nat /\ y \in Nat
      OBVIOUS
    <3>2. ~(<<y, x>>[1] < <<y, x>>[2])
      BY <2>1, <3>1
    <3> QED
      BY <3>1, <3>2, SMT
  <2> QED
    BY <2>2
<1> QED
  BY <1>3 DEF First

LEMMA Numbers == Counting
  BY FS_EmptySet, FS_CardinalityType, FS_AddElement, FS_RemoveElement DEF Counting

\* The invariant holds of every behaviour in which no unlocked operation
\* overlaps another one.
THEOREM FilesInvariant ==
  ASSUME ~Overlap
  PROVE  Spec => []IInv
<1>1. Init => IInv
  BY InitInv, Numbers
<1>2. IInv /\ [Next]_vars => IInv'
  BY NextInv, Least, Numbers
<1> QED
  BY <1>1, <1>2, PTL DEF Spec

\* At every moment, and so also when the machine stops, the directory on disk
\* leads to inodes whose sectors are marked and not shared: filesys_create
\* writes the free map and the inode before the entry, and sectors are
\* released only when neither the directory nor an opener has them.
THEOREM DiskSafe ==
  ASSUME ~Overlap
  PROVE  Spec => []DiskConsistent
<1>1. IInv => DiskConsistent
  <2> SUFFICES ASSUME IInv
               PROVE  DiskConsistent
    OBVIOUS
  <2>1. \A i \in InUse : /\ dir[i].inode_sector \in Sector
                         /\ Live(dir[i].inode_sector)
                         /\ Owned(i) = Own(dir[i].inode_sector)
    BY DEF IInv, Entries, Live, Entry, Owned, Own
  <2>2. \A i \in InUse : /\ disk_inode[dir[i].inode_sector] # NoInode
                         /\ Owned(i) \subseteq disk_map
    BY <2>1 DEF IInv, Files, Entries
  <2>3. \A i, j \in InUse : i # j => /\ Owned(i) \cap Owned(j) = {}
                                     /\ dir[i].name = dir[j].name =>
                                          dir[i].name \in missed
    BY <2>1 DEF IInv, Files, Entries
  <2> QED
    BY <2>2, <2>3 DEF DiskConsistent, IInv, Types
<1> QED
  BY <1>1, FilesInvariant, PTL

\* The sectors of an open file stay marked and no other file has them, with
\* or without a name: inode_close releases them with the last opener only.
THEOREM SectorsKept ==
  ASSUME ~Overlap
  PROVE  Spec => []OpenKeepsSectors
<1>1. IInv => OpenKeepsSectors
  <2> SUFFICES ASSUME IInv, NEW i \in Inodes, Opened(i)
               PROVE  /\ inode[i].sector \in free_map
                      /\ Blocks(inode[i].data) \subseteq free_map
                      /\ \A j \in InUse : \/ dir[j].inode_sector = inode[i].sector
                                          \/ inode[i].sector \notin Owned(j)
    BY DEF OpenKeepsSectors, Opened
  <2>1. inode[i].sector \in Sector /\ Live(inode[i].sector)
    BY DEF IInv, Objects, Live
  <2>2. Own(inode[i].sector) \subseteq free_map
    BY <2>1 DEF IInv, Files
  <2>3. Blocks(inode[i].data) \subseteq Own(inode[i].sector)
    BY NoBlocks DEF IInv, Objects, Own
  <2>4. \A j \in InUse : /\ dir[j].inode_sector \in Sector
                         /\ Live(dir[j].inode_sector)
                         /\ Owned(j) = Own(dir[j].inode_sector)
    BY DEF IInv, Entries, Live, Entry, Owned, Own
  <2>5. inode[i].sector \in Own(inode[i].sector)
    BY DEF Own
  <2> QED
    BY <2>1, <2>2, <2>3, <2>4, <2>5 DEF IInv, Files
<1> QED
  BY <1>1, FilesInvariant, PTL

\* Writes to an executable are denied as often as it is being run, and its
\* sectors keep their content as long as it is: the write call checks
\* deny_write_cnt, and another file, a new one included, has other sectors.
THEOREM ExecutablesStable ==
  ASSUME ~Overlap
  PROVE  Spec => TextStable
<1>1. IInv => DenyAccounting
  <2> SUFFICES ASSUME IInv, NEW i \in Inodes
               PROVE  /\ inode[i].deny_write_cnt = Cardinality(Runners(i))
                      /\ inode[i].deny_write_cnt <= inode[i].open_cnt
    BY DEF DenyAccounting, Runners
  <2> QED
    BY CountTypes, SMT DEF IInv, Counted
<1> DEFINE Stable(t) == \A s \in Blocks(inode[ino[t]].data) : content'[s] = content[s]
<1>2. ASSUME IInv, [Next]_vars, NEW t \in Loader, At(t, "running")
      PROVE  Stable(t)
  <2>1. PICK i : i = ino[t]
    OBVIOUS
  <2>2. i \in Inodes /\ t \in Runners(i)
    BY <1>2, <2>1 DEF IInv, Work, Using, Runners, Thread, At
  <2>3. inode[i].deny_write_cnt # 0
    <3>1. IsFiniteSet(Runners(i)) /\ inode[i].deny_write_cnt = Cardinality(Runners(i))
      BY <1>2, <2>2 DEF IInv, Counted
    <3> QED
      BY <2>2, <3>1, FS_EmptySet
  <2>4. Opened(i)
    BY <1>2, <2>2, <2>3, CountTypes, SMT DEF Opened
  <2>5. ASSUME NEW j \in Inodes, Opened(j)
        PROVE  /\ inode[j].sector \in Sector /\ Live(inode[j].sector)
               /\ Blocks(inode[j].data) \subseteq Own(inode[j].sector)
    BY <1>2, <2>5, NoBlocks DEF IInv, Objects, Live, Own
  <2>6. ASSUME NEW s \in Blocks(inode[i].data)
        PROVE  s \in Sector /\ s \in Own(inode[i].sector)
    BY <1>2, <2>2, <2>4, <2>5 DEF IInv, Files, Types, TypeOK
  <2>7. ASSUME NEW u \in Thread, CreateZero(u)
        PROVE  Stable(t)
    <3>1. Foreign(Blocks(data[u]))
      BY <1>2, <2>7 DEF IInv, Work, Creating, CreateZero, At
    <3>2. \A s \in Blocks(inode[i].data) : s \notin Blocks(data[u])
      BY <2>2, <2>4, <2>5, <2>6, <3>1 DEF Foreign
    <3> QED
      BY <2>1, <2>6, <2>7, <3>2 DEF CreateZero
  <2>8. ASSUME NEW u \in Thread, WriteSector(u)
        PROVE  Stable(t)
    <3>1. PICK j : j = ino[u]
      OBVIOUS
    <3>2. j \in files /\ j \in Inodes /\ inode[j].deny_write_cnt = 0
      BY <1>2, <2>8, <3>1
         DEF IInv, Work, Using, WriteSector, At, Writable, Types, TypeOK
    <3>3. j # i /\ Opened(j)
      BY <1>2, <2>3, <3>2, CountTypes, SMT DEF Opened, One
    <3>4. inode[j].sector # inode[i].sector
      BY <1>2, <2>2, <2>4, <3>2, <3>3 DEF IInv, SameInode, Opened
    <3>5. \A s \in Blocks(inode[i].data) : s \notin Blocks(inode[j].data)
      BY <1>2, <2>2, <2>4, <2>5, <2>6, <3>2, <3>3, <3>4 DEF IInv, Files
    <3> QED
      BY <2>1, <2>6, <2>8, <3>1, <3>5 DEF WriteSector
  <2>9. CASE content' = content
    BY <2>9
  <2>10. \/ content' = content
         \/ \E u \in Thread : CreateZero(u) \/ WriteSector(u)
    <3>1. ASSUME NEW u \in Thread, Create(u)
          PROVE  content' = content \/ CreateZero(u)
      BY <3>1 DEF Create, CreateSector, CreateMap, CreateData, CreateDataMap,
           CreateInode, DirAdd, CreateFail, CreateFailMap, WriteMap,
           UndoAllocate, KeepOldMap, disk
    <3>2. ASSUME NEW u \in Thread, Open(u) \/ Close(u) \/ Leave(u)
          PROVE  content' = content
      BY <3>2 DEF Open, DirLookup, InodeFind, InodeAlloc, InodeRead, FileOpened,
           FileNotOpened, Close, InodeClose, ReleaseSector, ReleaseMap,
           ReleaseData, ReleaseDataMap, Release, WriteMap, KeepOldMap, Leave, disk
    <3>3. ASSUME NEW u \in Caller,
                 \/ \E n \in Name : \/ \E len \in Length : CallCreate(u, n, len)
                                    \/ CallOpen(u, n)
                                    \/ CallRemove(u, n)
                 \/ \E j \in files : CallWrite(u, j)
                 \/ DirErase(u) \/ InodeRemove(u) \/ WriteCheck(u)
          PROVE  content' = content
      BY <3>3 DEF CallCreate, CallOpen, CallRemove, Enter, CallWrite, DirErase,
           InodeRemove, WriteCheck, disk
    <3>4. ASSUME NEW u \in Loader, (\E n \in Name : CallLoad(u, n)) \/ FileClose(u)
          PROVE  content' = content
      BY <3>4 DEF CallLoad, FileClose, disk
    <3>5. Crash \/ UNCHANGED vars => content' = content
      BY DEF Crash, vars, disk
    <3>6. Caller \subseteq Thread /\ Loader \subseteq Thread
      BY DEF Thread
    <3> QED
      BY <1>2, <3>1, <3>2, <3>3, <3>4, <3>5, <3>6 DEF Next, Write
  <2> QED
    BY <2>7, <2>8, <2>9, <2>10
<1>3. IInv /\ [Next]_vars =>
        [\A t \in Loader :
           At(t, "running") =>
             \A s \in Blocks(inode[ino[t]].data) : content'[s] = content[s]]_vars
  BY <1>2
<1> QED
  BY <1>1, <1>3, FilesInvariant, PTL DEF Spec, TextStable
=============================================================================
