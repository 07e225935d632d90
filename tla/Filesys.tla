------------------------------ MODULE Filesys ------------------------------
(***************************************************************************)
(* The file system: free map (src/filesys/free-map.c), inodes (inode.c),   *)
(* the root directory (directory.c) and the operations of filesys.c and    *)
(* file.c built on them.  What is on disk survives a crash.                *)
(*                                                                         *)
(* System calls come here with filesys_sema down.  load opens an           *)
(* executable, and thread_exit closes it, without it.  A step ends where   *)
(* the code waits for the disk or may be preempted with an effect that     *)
(* another thread can see.                                                 *)
(***************************************************************************)
EXTENDS Integers, FiniteSets

CONSTANTS
  Caller,     \* threads that make file system calls
  Loader,     \* threads that load an executable and exit
  Name,       \* file names
  Slot,       \* places in the root directory: 1 .. n
  LastSector, \* the file sectors are 2 .. LastSector
  Length,     \* file lengths, in sectors
  Inodes,     \* bound: struct inode objects, 1 .. n
  MaxOpen,    \* bound: openers of an inode
  Overlap     \* FALSE: no unlocked operation runs while another one does

Sector == 2 .. LastSector
NONE == -1

ASSUME FilesysAssumption ==
  /\ LastSector \in Nat /\ Length \subseteq Nat /\ MaxOpen \in Nat \ {0}
  /\ Slot \subseteq Nat /\ Inodes \subseteq Nat /\ IsFiniteSet(Slot)
  /\ Caller \cap Loader = {} /\ Overlap \in BOOLEAN

VARIABLES
  disk_map,     \* on disk: sectors marked in the free map file
  disk_inode,   \* on disk: the inode in a sector, or NoInode
  dir,          \* on disk: the entries of the root directory
  content,      \* on disk: what the first data sector of a file holds
  missed,       \* names that dir_add took although they were in use
  free_map,     \* sectors marked in memory
  inode,        \* struct inode objects; those with open_cnt 0 are free
  files,        \* the inodes that file descriptors lead to
  filesys_sema,
  pc,           \* where each thread is
  op,           \* in which operation
  name,         \* the name it was called with
  isec,         \* the inode's sector
  data,         \* start and length of the data
  ino           \* the inode object

disk == <<disk_map, disk_inode, dir, content, missed>>
memory == <<free_map, inode, files>>
local == <<op, name, isec, data, ino>>
vars == <<disk, memory, filesys_sema, pc, local>>

Thread == Caller \cup Loader

NoInode == [start |-> NONE, length |-> 0]
FreeEntry == [in_use |-> FALSE, name |-> NONE, inode_sector |-> NONE]
FreeInode == [sector |-> NONE, open_cnt |-> 0, removed |-> FALSE,
              deny_write_cnt |-> 0, data |-> NoInode]

Blocks(d) == d.start .. d.start + d.length - 1

At(t, label) == pc[t] = label
Goto(t, label) == pc' = [pc EXCEPT ![t] = label]

\* lookup: the first entry in use with the name.  It takes a read that fails,
\* for want of memory for the bounce buffer, for the end of the directory.
Matches(n) == {i \in Slot : dir[i].in_use /\ dir[i].name = n}

(***************************************************************************)
(* Entering and leaving.                                                   *)
(***************************************************************************)
Busy(t) == pc[t] \notin {"idle", "running"}

MayStart(t) == Overlap \/ \A u \in Thread \ {t} : ~Busy(u)

Enter(t, o, n, label) ==
  /\ At(t, "idle") /\ MayStart(t) /\ filesys_sema > 0
  /\ filesys_sema' = filesys_sema - 1
  /\ op' = [op EXCEPT ![t] = o]
  /\ name' = [name EXCEPT ![t] = n]
  /\ Goto(t, label)
  /\ UNCHANGED <<disk, memory, isec, ino>>

CallCreate(t, n, len) ==
  /\ Enter(t, "create", n, "create")
  /\ data' = [data EXCEPT ![t] = [start |-> NONE, length |-> len]]

CallOpen(t, n) == Enter(t, "open", n, "lookup") /\ UNCHANGED data

CallRemove(t, n) == Enter(t, "remove", n, "lookup") /\ UNCHANGED data

\* The locals of an operation are gone when it returns.
Forget(t) ==
  /\ op' = [op EXCEPT ![t] = "none"]
  /\ name' = [name EXCEPT ![t] = NONE]
  /\ isec' = [isec EXCEPT ![t] = NONE]
  /\ data' = [data EXCEPT ![t] = NoInode]
  /\ ino' = [ino EXCEPT ![t] = NONE]

Leave(t) ==
  /\ At(t, "up")
  /\ IF t \in Caller THEN filesys_sema' = filesys_sema + 1
                     ELSE UNCHANGED filesys_sema
  /\ Goto(t, "idle")
  /\ Forget(t)
  /\ UNCHANGED <<disk, memory>>

\* The first of a set of indices, which bitmap_scan and the loops of
\* directory.c find.
First(S) == CHOOSE i \in S : \A j \in S : i <= j

(***************************************************************************)
(* free-map.c.                                                             *)
(***************************************************************************)
\* bitmap_scan: the first run of cnt free sectors, from the start of the map
\* (whose first two sectors are always marked).
Runs(cnt) == {s \in Sector : s .. s + cnt - 1 \subseteq Sector \ free_map}

FreeMapAllocate(t, cnt) ==
  free_map' = free_map \cup (First(Runs(cnt)) .. First(Runs(cnt)) + cnt - 1)

\* Mutation: the bitmap_write is left out.
WriteMap_Not(t, from, to) ==
  /\ At(t, from)
  /\ Goto(t, to)
  /\ UNCHANGED <<disk, memory, filesys_sema, local>>

\* bitmap_write.
WriteMap(t, from, to) ==
  /\ At(t, from)
  /\ disk_map' = free_map
  /\ Goto(t, to)
  /\ UNCHANGED <<disk_inode, dir, content, missed, memory, filesys_sema, local>>

\* bitmap_write fails for want of a bounce buffer for the last sector of the
\* map file: what is before it has been written.
WritePart ==
  \E b \in Sector :
    disk_map' = {s \in free_map : s < b} \cup {s \in disk_map : s >= b}

\* Then free_map_allocate takes its sectors back, free_map_release goes on.
UndoAllocate(t, from, blocks, to) ==
  /\ At(t, from)
  /\ WritePart
  /\ free_map' = free_map \ blocks
  /\ Goto(t, to)
  /\ UNCHANGED <<disk_inode, dir, content, missed, inode, files, filesys_sema, local>>

KeepOldMap(t, from, to) ==
  /\ At(t, from)
  /\ WritePart
  /\ Goto(t, to)
  /\ UNCHANGED <<disk_inode, dir, content, missed, memory, filesys_sema, local>>

(***************************************************************************)
(* filesys_create.                                                         *)
(***************************************************************************)
\* A sector for the inode (dir_open_root may fail before) ...
CreateSector(t) ==
  /\ At(t, "create")
  /\ \/ /\ Runs(1) # {}
        /\ FreeMapAllocate(t, 1)
        /\ isec' = [isec EXCEPT ![t] = First(Runs(1))]
        /\ Goto(t, "create_map")
     \/ Goto(t, "up") /\ UNCHANGED <<free_map, isec>>
  /\ UNCHANGED <<disk, inode, files, filesys_sema, op, name, data, ino>>

CreateMap(t) ==
  \/ WriteMap(t, "create_map", "create_data")
  \/ UndoAllocate(t, "create_map", {isec[t]}, "up")

\* ... inode_create: sectors for the data (the allocation of disk_inode may
\* fail as well), the inode, zeros ...
CreateData(t) ==
  LET len == data[t].length IN
  /\ At(t, "create_data")
  /\ \/ /\ Runs(len) # {}
        /\ FreeMapAllocate(t, len)
        /\ data' = [data EXCEPT ![t].start = First(Runs(len))]
        /\ Goto(t, "create_data_map")
     \/ Goto(t, "fail") /\ UNCHANGED <<free_map, data>>
  /\ UNCHANGED <<disk, inode, files, filesys_sema, op, name, isec, ino>>

CreateDataMap(t) ==
  \/ WriteMap(t, "create_data_map", "create_inode")
  \/ UndoAllocate(t, "create_data_map", Blocks(data[t]), "fail")

CreateInode(t) ==
  /\ At(t, "create_inode")
  /\ disk_inode' = [disk_inode EXCEPT ![isec[t]] = data[t]]
  /\ Goto(t, "create_zero")
  /\ UNCHANGED <<disk_map, dir, content, missed, memory, filesys_sema, local>>

CreateZero(t) ==
  /\ At(t, "create_zero")
  /\ disk_inode' = [s \in Sector |-> IF s \in Blocks(data[t]) THEN NoInode
                                     ELSE disk_inode[s]]
  /\ content' = [s \in Sector |-> IF s \in Blocks(data[t]) THEN 0
                                  ELSE content[s]]
  /\ Goto(t, "create_add")
  /\ UNCHANGED <<disk_map, dir, missed, memory, filesys_sema, local>>

\* ... and dir_add.  It fails when it finds the name, when the directory is
\* full, or when the write fails; a read of lookup that fails hides the name.
NameTaken(n) == Matches(n) # {}

\* Its second loop stops at the first free slot, or at one in use before it
\* that could not be read.
SlotFound(i) == \A j \in Slot : j < i => dir[j].in_use

DirAdd(t) ==
  /\ At(t, "create_add")
  /\ \/ \E i \in Slot, short \in BOOLEAN :
          /\ ~NameTaken(name[t]) \/ short
          /\ SlotFound(i)
          /\ dir' = [dir EXCEPT ![i] =
               [in_use |-> TRUE, name |-> name[t], inode_sector |-> isec[t]]]
          /\ missed' = IF NameTaken(name[t]) /\ short
                       THEN missed \cup {name[t]} ELSE missed
          /\ Goto(t, "up")
     \/ Goto(t, "fail") /\ UNCHANGED <<dir, missed>>
  /\ UNCHANGED <<disk_map, disk_inode, content, memory, filesys_sema, local>>

\* A failure gives the inode's sector back, and only that.
CreateFail(t) ==
  /\ At(t, "fail")
  /\ free_map' = free_map \ {isec[t]}
  /\ Goto(t, "fail_map")
  /\ UNCHANGED <<disk, inode, files, filesys_sema, local>>

CreateFailMap(t) == WriteMap(t, "fail_map", "up") \/ KeepOldMap(t, "fail_map", "up")

(***************************************************************************)
(* inode_open, for filesys_open (called by open and by load) and for       *)
(* dir_remove.                                                             *)
(***************************************************************************)
CallLoad(t, n) ==
  /\ At(t, "idle") /\ MayStart(t)
  /\ op' = [op EXCEPT ![t] = "load"]
  /\ name' = [name EXCEPT ![t] = n]
  /\ Goto(t, "lookup")
  /\ UNCHANGED <<disk, memory, filesys_sema, isec, data, ino>>

DirLookup(t) ==
  /\ At(t, "lookup")
  /\ \/ /\ Matches(name[t]) # {}
        /\ isec' = [isec EXCEPT
             ![t] = dir[First(Matches(name[t]))].inode_sector]
        /\ Goto(t, "find")
     \/ Goto(t, "up") /\ UNCHANGED isec
  /\ UNCHANGED <<disk, memory, filesys_sema, op, name, data, ino>>

\* The list of open inodes is searched for the sector.
OpenInodes(s) == {i \in Inodes : inode[i].open_cnt > 0 /\ inode[i].sector = s}

InodeFind(t) ==
  /\ At(t, "find")
  /\ IF OpenInodes(isec[t]) = {}
     THEN Goto(t, "alloc") /\ UNCHANGED <<inode, ino>>
     ELSE \E i \in OpenInodes(isec[t]) :
            /\ inode[i].open_cnt < MaxOpen
            /\ inode' = [inode EXCEPT ![i].open_cnt = @ + 1]
            /\ ino' = [ino EXCEPT ![t] = i]
            /\ Goto(t, "opened")
  /\ UNCHANGED <<disk, free_map, files, filesys_sema, op, name, isec, data>>

FreeInodes == {i \in Inodes : inode[i].open_cnt = 0}

\* A new object goes on the list, unless there is no memory for it ...
InodeAlloc(t) ==
  /\ At(t, "alloc")
  /\ \/ \E i \in FreeInodes :
          /\ i = First(FreeInodes)
          /\ inode' = [inode EXCEPT ![i] =
                         [FreeInode EXCEPT !.sector = isec[t], !.open_cnt = 1]]
          /\ ino' = [ino EXCEPT ![t] = i]
          /\ Goto(t, "read")
     \/ Goto(t, "up") /\ UNCHANGED <<inode, ino>>
  /\ UNCHANGED <<disk, free_map, files, filesys_sema, op, name, isec, data>>

\* ... and is then read.
InodeRead(t) ==
  /\ At(t, "read")
  /\ inode' = [inode EXCEPT ![ino[t]].data = disk_inode[isec[t]]]
  /\ Goto(t, "opened")
  /\ UNCHANGED <<disk, free_map, files, filesys_sema, local>>

\* file_open has no memory for the struct file: it closes the inode.
FileNotOpened(t) ==
  /\ At(t, "opened") /\ op[t] # "remove"
  /\ Goto(t, "close")
  /\ UNCHANGED <<disk, memory, filesys_sema, local>>

\* inode_deny_write.
DenyWrite(i) == [inode EXCEPT ![i].deny_write_cnt = @ + 1]

\* open keeps the file: nothing closes it.  load denies writes to it.
FileOpened(t) ==
  /\ At(t, "opened") /\ op[t] # "remove"
  /\ IF op[t] = "open"
     THEN /\ files' = files \cup {ino[t]}
          /\ Goto(t, "up")
          /\ UNCHANGED inode
     ELSE /\ inode' = DenyWrite(ino[t])
          /\ Goto(t, "running")
          /\ UNCHANGED files
  /\ UNCHANGED <<disk, free_map, filesys_sema, local>>

(***************************************************************************)
(* inode_write_at, for the write call: one write of the first sector.      *)
(***************************************************************************)
CallWrite(t, i) ==
  /\ At(t, "idle") /\ MayStart(t) /\ filesys_sema > 0
  /\ filesys_sema' = filesys_sema - 1
  /\ op' = [op EXCEPT ![t] = "write"]
  /\ ino' = [ino EXCEPT ![t] = i]
  /\ Goto(t, "write_check")
  /\ UNCHANGED <<disk, memory, name, isec, data>>

\* Mutation: the count is not looked at.
Writable_Any(i) == TRUE

Writable(i) == inode[i].deny_write_cnt = 0

WriteCheck(t) ==
  /\ At(t, "write_check")
  /\ Goto(t, IF Writable(ino[t]) THEN "write" ELSE "up")
  /\ UNCHANGED <<disk, memory, filesys_sema, local>>

\* Nothing is written to a file without sectors, or without a bounce buffer.
WriteSector(t) ==
  LET d == inode[ino[t]].data IN
  /\ At(t, "write")
  /\ \/ content' = [s \in Sector |-> IF s \in Blocks(d) /\ s = d.start
                                     THEN 1 - content[s] ELSE content[s]]
     \/ UNCHANGED content
  /\ Goto(t, "up")
  /\ UNCHANGED <<disk_map, disk_inode, dir, missed, memory, filesys_sema, local>>

Write(t) == WriteCheck(t) \/ WriteSector(t)

(***************************************************************************)
(* The rest of dir_remove: the entry is erased, the inode marked.  If the   *)
(* write of the entry fails, the inode is only closed.                     *)
(***************************************************************************)
DirErase(t) ==
  /\ At(t, "opened") /\ op[t] = "remove"
  /\ \/ /\ dir' = [dir EXCEPT ![First(Matches(name[t]))] = FreeEntry]
        /\ Goto(t, "mark")
     \/ Goto(t, "close") /\ UNCHANGED dir
  /\ UNCHANGED <<disk_map, disk_inode, content, missed, memory, filesys_sema, local>>

InodeRemove(t) ==
  /\ At(t, "mark")
  /\ inode' = [inode EXCEPT ![ino[t]].removed = TRUE]
  /\ Goto(t, "close")
  /\ UNCHANGED <<disk, free_map, files, filesys_sema, local>>

(***************************************************************************)
(* inode_close.  file_close, on the exit of the process, allows writes     *)
(* first.  The last closer of a removed inode releases its sectors.        *)
(***************************************************************************)
\* inode_allow_write.
AllowWrite(i) == [inode EXCEPT ![i].deny_write_cnt = @ - 1]

FileClose(t) ==
  /\ At(t, "running") /\ MayStart(t)
  /\ inode' = AllowWrite(ino[t])
  /\ Goto(t, "close")
  /\ UNCHANGED <<disk, free_map, files, filesys_sema, local>>

LastCloser(t) == inode[ino[t]].open_cnt = 1

\* Mutation: a removed inode is released by whoever closes it.
ReleaseNow_Eager(t) == inode[ino[t]].removed

ReleaseNow(t) == LastCloser(t) /\ inode[ino[t]].removed

InodeClose(t) ==
  LET i == inode[ino[t]] IN
  /\ At(t, "close")
  /\ inode' = IF LastCloser(t) THEN [inode EXCEPT ![ino[t]] = FreeInode]
              ELSE [inode EXCEPT ![ino[t]].open_cnt = @ - 1]
  /\ IF ReleaseNow(t)
     THEN /\ isec' = [isec EXCEPT ![t] = i.sector]
          /\ data' = [data EXCEPT ![t] = i.data]
          /\ Goto(t, "release")
     ELSE Goto(t, "up") /\ UNCHANGED <<isec, data>>
  /\ UNCHANGED <<disk, free_map, files, filesys_sema, op, name, ino>>

\* free_map_release, of the inode's sector and of the data's.
Release(t, from, blocks, to) ==
  /\ At(t, from)
  /\ free_map' = free_map \ blocks
  /\ Goto(t, to)
  /\ UNCHANGED <<disk, inode, files, filesys_sema, local>>

ReleaseSector(t) == Release(t, "release", {isec[t]}, "release_map")

ReleaseMap(t) ==
  \/ WriteMap(t, "release_map", "release_data")
  \/ KeepOldMap(t, "release_map", "release_data")

ReleaseData(t) == Release(t, "release_data", Blocks(data[t]), "release_data_map")

ReleaseDataMap(t) ==
  \/ WriteMap(t, "release_data_map", "up")
  \/ KeepOldMap(t, "release_data_map", "up")

(***************************************************************************)
(* filesys_init after a crash: memory starts again from the disk.          *)
(***************************************************************************)
Reset ==
  /\ inode' = [i \in Inodes |-> FreeInode]
  /\ files' = {}
  /\ filesys_sema' = 1
  /\ pc' = [t \in Thread |-> "idle"]
  /\ op' = [t \in Thread |-> "none"]
  /\ name' = [t \in Thread |-> NONE]
  /\ isec' = [t \in Thread |-> NONE]
  /\ data' = [t \in Thread |-> NoInode]
  /\ ino' = [t \in Thread |-> NONE]

FreeMapOpen == free_map' = disk_map

Crash == Reset /\ FreeMapOpen /\ UNCHANGED disk

\* A formatted disk.
Init ==
  /\ disk_map = {} /\ free_map = {}
  /\ disk_inode = [s \in Sector |-> NoInode]
  /\ dir = [i \in Slot |-> FreeEntry]
  /\ content = [s \in Sector |-> 0]
  /\ missed = {}
  /\ inode = [i \in Inodes |-> FreeInode]
  /\ files = {}
  /\ filesys_sema = 1
  /\ pc = [t \in Thread |-> "idle"]
  /\ op = [t \in Thread |-> "none"]
  /\ name = [t \in Thread |-> NONE]
  /\ isec = [t \in Thread |-> NONE]
  /\ data = [t \in Thread |-> NoInode]
  /\ ino = [t \in Thread |-> NONE]

Create(t) ==
  \/ CreateSector(t) \/ CreateMap(t) \/ CreateData(t) \/ CreateDataMap(t)
  \/ CreateInode(t) \/ CreateZero(t) \/ DirAdd(t)
  \/ CreateFail(t) \/ CreateFailMap(t)

Open(t) ==
  \/ DirLookup(t) \/ InodeFind(t) \/ InodeAlloc(t) \/ InodeRead(t)
  \/ FileOpened(t) \/ FileNotOpened(t)

Close(t) ==
  \/ InodeClose(t) \/ ReleaseSector(t) \/ ReleaseMap(t)
  \/ ReleaseData(t) \/ ReleaseDataMap(t)

Next ==
  \/ \E t \in Caller :
       \/ \E n \in Name : \/ \E len \in Length : CallCreate(t, n, len)
                          \/ CallOpen(t, n)
                          \/ CallRemove(t, n)
       \/ \E i \in files : CallWrite(t, i)
       \/ Create(t) \/ Open(t) \/ DirErase(t) \/ InodeRemove(t) \/ Close(t)
       \/ Write(t) \/ Leave(t)
  \/ \E t \in Loader :
       \/ \E n \in Name : CallLoad(t, n)
       \/ Open(t) \/ FileClose(t) \/ Close(t) \/ Leave(t)
  \/ Crash

Spec == Init /\ [][Next]_vars

(***************************************************************************)
(* Properties.                                                             *)
(***************************************************************************)
Extent == [start : Sector \cup {NONE}, length : Nat]

\* Every variable has its type; no counter of a struct inode goes below 0.
TypeOK ==
  /\ disk_map \subseteq Sector /\ free_map \subseteq Sector
  /\ disk_inode \in [Sector -> Extent]
  /\ dir \in [Slot -> [in_use : BOOLEAN, name : Name \cup {NONE},
                       inode_sector : Sector \cup {NONE}]]
  /\ inode \in [Inodes -> [sector : Sector \cup {NONE}, open_cnt : 0 .. MaxOpen,
                           removed : BOOLEAN, deny_write_cnt : 0 .. MaxOpen,
                           data : Extent]]
  /\ content \in [Sector -> {0, 1}]
  /\ missed \subseteq Name \cup {NONE}
  /\ files \subseteq Inodes
  /\ filesys_sema \in {0, 1}

\* What a directory entry in use leads to: the sector of the inode and the
\* sectors of the data.
Owned(i) == {dir[i].inode_sector} \cup Blocks(disk_inode[dir[i].inode_sector])

InUse == {i \in Slot : dir[i].in_use}

\* The disk is consistent at every moment, so also when the machine stops
\* between two writes or a read or a write of the directory or of the map fails
\* for want of memory: every entry in use leads to an inode, its sectors are
\* marked in the free map on disk, and no two entries share a sector.  Nor do
\* they share a name, unless dir_add missed it because its lookup could not
\* read the directory, against filesys_create's "Fails if a file named NAME
\* already exists".  This is about the order of the writes in filesys_create,
\* inode_create and dir_remove, and about dir_add, which looks for the name
\* and for a slot apart from writing the entry.
DiskConsistent ==
  /\ TypeOK
  /\ \A i \in InUse : /\ disk_inode[dir[i].inode_sector] # NoInode
                      /\ Owned(i) \subseteq disk_map
  /\ \A i, j \in InUse : i # j => /\ Owned(i) \cap Owned(j) = {}
                                  /\ dir[i].name = dir[j].name
                                       => dir[i].name \in missed

\* "opening a single inode twice returns the same `struct inode'" (inode.c).
SameInode ==
  \A i, j \in Inodes :
    /\ inode[i].open_cnt > 0 /\ inode[j].open_cnt > 0
    /\ inode[i].sector = inode[j].sector
    => i = j

\* The sectors of an open file are not given to another one, even after the
\* file's name has been removed: inode_close releases them with the last
\* opener.
OpenKeepsSectors ==
  \A i \in Inodes :
    inode[i].open_cnt > 0 =>
      /\ inode[i].sector \in free_map
      /\ Blocks(inode[i].data) \subseteq free_map
      /\ \A j \in InUse :
           dir[j].inode_sector = inode[i].sector \/ inode[i].sector \notin Owned(j)

\* Writes to an executable are denied exactly as often as it is being run,
\* and so never more often than it is open (the assertions of
\* inode_deny_write and inode_allow_write).
DenyAccounting ==
  \A i \in Inodes :
    /\ inode[i].deny_write_cnt =
         Cardinality({t \in Loader : At(t, "running") /\ ino[t] = i})
    /\ inode[i].deny_write_cnt <= inode[i].open_cnt

\* While a process runs, the file it was loaded from does not change, whoever
\* has it open for writing: load keeps it open with writes denied until
\* thread_exit, because pages of it are still read from it; and the denials
\* are counted, so that the first of two processes to end does not take back
\* the other's.
TextStable ==
  /\ []DenyAccounting
  /\ [][\A t \in Loader :
         At(t, "running") =>
           \A s \in Blocks(inode[ino[t]].data) : content'[s] = content[s]]_vars
=============================================================================
