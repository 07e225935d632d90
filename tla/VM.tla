--------------------------------- MODULE VM ---------------------------------
(***************************************************************************)
(* Demand paging: the frame table and its clock (src/vm/frame.c), the      *)
(* supplemental page table (src/vm/page.c), swap (src/vm/swap.c), the page *)
(* directory bits they use (src/userprog/pagedir.c), the page fault        *)
(* handler (src/userprog/exception.c), setup_stack and install_page        *)
(* (src/userprog/process.c).                                               *)
(*                                                                         *)
(* The handler runs with interrupts on and without a lock, so the threads  *)
(* interleave between its steps.  The contents of a page are a value:      *)
(* what the file holds, what the process last wrote, or junk.              *)
(***************************************************************************)
EXTENDS Integers, FiniteSets

CONSTANTS
  Proc,       \* processes
  Text,       \* read-only pages of the executable
  Data,       \* writable pages of the executable
  Stack,      \* the page setup_stack maps
  Grown,      \* pages below it that the process reaches by stack growth
  Machine     \* which processes run, which pages programs use, the number of
              \* user pages in memory and of slots in the swap partition

Page == Text \cup Data \cup {Stack} \cup Grown
NONE == -1

ASSUME VMAssumption ==
  /\ IsFiniteSet(Proc) /\ IsFiniteSet(Page)
  /\ \A m \in Machine : /\ m.proc \subseteq Proc /\ m.page \subseteq Page
                        /\ Stack \in m.page
                        /\ m.frames \in Nat \ {0} /\ m.entries \in Nat
  /\ NONE \notin Proc \cup Page
  /\ Stack \notin Text \cup Data \cup Grown
  /\ Text \cap (Data \cup Grown) = {} /\ Data \cap Grown = {}

VARIABLES
  machine,                 \* the machine this is
  ft_status, ft_vaddr,     \* the frame table
  bump_ptr,                \* the clock hand
  pte,                     \* page directories: one entry per process and page
  spt,                     \* supplemental page tables
  swap_tid, swap_data,     \* the swap table and the swap partition
  mem,                     \* contents of the frames
  written,                 \* pages each process has written to
  pc, arg, total, got, victim, vaddr, slot,
    \* the handler of each process: where it is, the page it serves, the
    \* frames it passed, the frame it obtained, the page whose entry evict_page
    \* works on, the page it passed to add_swap_entry, and the swap slot there
  freed,                   \* frames that are free for the page allocator
  kernel
    \* "up", "panic" after a failed assertion, "wild" after an access outside
    \* the frame table

ft == <<machine, ft_status, ft_vaddr>>
swap == <<swap_tid, swap_data>>
store == <<mem, written>>
local == <<arg, total, got, victim, vaddr, slot>>
world == <<freed, kernel>>
vars == <<ft, bump_ptr, pte, spt, swap, store, pc, local, world>>

max_frame == machine.frames
Frame == 0 .. max_frame - 1
Slot == 0 .. machine.entries - 1

NoPte == [present |-> FALSE, frame |-> NONE, accessed |-> FALSE,
          dirty |-> FALSE]

\* create_SPT_entry.
SPTEntry(resident) ==
  [entry |-> TRUE, is_stack_page |-> FALSE, resident_bit |-> resident,
   dirty_bit |-> FALSE, swap_index |-> 0]

NoSPTEntry == [SPTEntry(FALSE) EXCEPT !.entry = FALSE]

\* Contents: what the file holds, what the process wrote, anything else.
FromFile(p, v) == <<p, v, "file">>
FromWrite(p, v) == <<p, v, "written">>
Junk == <<NONE, NONE, "junk">>

At(p, label) == kernel = "up" /\ pc[p] = label
Goto(p, label) == pc' = [pc EXCEPT ![p] = label]
HandInTable == bump_ptr \in Frame

\* The page the frame table names under the hand, and what lookup_page and
\* get_SPT_entry find for it in the tables of p.  A frame never used has an
\* uninitialized vaddr, for which they find nothing.
Hand == ft_vaddr[bump_ptr]
HandPte(p) == IF Hand \in Page THEN pte[p][Hand] ELSE NoPte
HandEntry(p) == IF Hand \in Page THEN spt[p][Hand] ELSE NoSPTEntry

(***************************************************************************)
(* User instructions.                                                      *)
(***************************************************************************)
Read(p, v) ==
  /\ At(p, "user") /\ pte[p][v].present
  /\ pte' = [pte EXCEPT ![p][v].accessed = TRUE]
  /\ UNCHANGED <<ft, bump_ptr, spt, swap, store, pc, local, world>>

Write(p, v) ==
  /\ At(p, "user") /\ pte[p][v].present /\ v \notin Text
  /\ pte' = [pte EXCEPT ![p][v] = [@ EXCEPT !.accessed = TRUE, !.dirty = TRUE]]
  /\ mem' = [mem EXCEPT ![pte[p][v].frame] = FromWrite(p, v)]
  /\ written' = [written EXCEPT ![p] = @ \cup {v}]
  /\ UNCHANGED <<ft, bump_ptr, spt, swap, pc, local, world>>

(***************************************************************************)
(* page_fault.                                                             *)
(***************************************************************************)
\* The call of get_user_page (v).
GetUserPage(p, v) ==
  /\ arg' = [arg EXCEPT ![p] = v]
  /\ total' = [total EXCEPT ![p] = 0]
  /\ Goto(p, "search")
  /\ UNCHANGED <<got, victim, vaddr, slot>>

\* load_segment makes an entry for each page of the file, then setup_stack
\* asks for a frame for the stack page, which has no entry yet.
LoadSegment(p) ==
  /\ At(p, "start")
  /\ spt' = [spt EXCEPT ![p] = [v \in Page |-> IF v \in (Text \cup Data) \cap machine.page
                                               THEN SPTEntry(FALSE)
                                               ELSE NoSPTEntry]]
  /\ GetUserPage(p, Stack)
  /\ UNCHANGED <<ft, bump_ptr, pte, swap, store, world>>

\* A fault on a page with an entry: it is absent, or it is read-only and the
\* access was a write (the handler does not look at the difference).
Fault(p, v) ==
  /\ At(p, "user") /\ spt[p][v].entry
  /\ ~pte[p][v].present \/ v \in Text
  /\ GetUserPage(p, v)
  /\ UNCHANGED <<ft, bump_ptr, pte, spt, swap, store, world>>

\* A fault near the stack pointer on a page without an entry: stack growth.
FaultGrow(p, v) ==
  /\ At(p, "user") /\ ~spt[p][v].entry /\ v \in Grown
  /\ spt' = [spt EXCEPT ![p][v] = SPTEntry(TRUE)]
  /\ GetUserPage(p, v)
  /\ UNCHANGED <<ft, bump_ptr, pte, swap, store, world>>

\* The loop of get_user_page.  Every line that says bump_ptr reads it anew,
\* and is a step: the test, ...
Search(p) ==
  /\ At(p, "search") /\ HandInTable
  /\ Goto(p, IF ft_status[bump_ptr] = "FULL" THEN "bump" ELSE "claim")
  /\ UNCHANGED <<ft, bump_ptr, pte, spt, swap, store, local, world>>

\* ... the move of the hand, ...
Bump(p) ==
  /\ At(p, "bump")
  /\ bump_ptr' = bump_ptr + 1
  /\ total' = [total EXCEPT ![p] = @ + 1]
  /\ Goto(p, "wrap")
  /\ UNCHANGED <<ft, pte, spt, swap, store, arg, got, victim, vaddr, slot, world>>

\* Every frame was seen to be full.
SearchedAll(p) == total[p] = max_frame

Resume(p) == IF SearchedAll(p) THEN "evict" ELSE "search"

\* ... its return to the start, in two steps, ...
Wrap(p, reset, next) ==
  /\ Goto(p, IF bump_ptr = max_frame THEN reset ELSE next)
  /\ UNCHANGED <<ft, bump_ptr, pte, spt, swap, store, local, world>>

Zero(p, next) ==
  /\ bump_ptr' = 0
  /\ Goto(p, next)
  /\ UNCHANGED <<ft, pte, spt, swap, store, local, world>>

SearchWrap(p) == At(p, "wrap") /\ Wrap(p, "zero", Resume(p))
SearchZero(p) == At(p, "zero") /\ Zero(p, Resume(p))

\* ... and the exit: the frame under the hand is marked and named, and the one
\* that is under it then is returned.
Claim(p) ==
  /\ At(p, "claim") /\ HandInTable
  /\ ft_status' = [ft_status EXCEPT ![bump_ptr] = "FULL"]
  /\ Goto(p, "name")
  /\ UNCHANGED <<machine, ft_vaddr, bump_ptr, pte, spt, swap, store, local, world>>

Name(p) ==
  /\ At(p, "name") /\ HandInTable
  /\ ft_vaddr' = [ft_vaddr EXCEPT ![bump_ptr] = arg[p]]
  /\ Goto(p, "take")
  /\ UNCHANGED <<machine, ft_status, bump_ptr, pte, spt, swap, store, local, world>>

Take(p) ==
  /\ At(p, "take") /\ HandInTable
  /\ got' = [got EXCEPT ![p] = bump_ptr]
  /\ Goto(p, "fill")
  /\ UNCHANGED <<ft, bump_ptr, pte, spt, swap, store, arg, total, victim, vaddr,
                 slot, world>>

\* The loop of evict_page passes the pages accessed in the current directory.
EvictTest(p) ==
  /\ At(p, "evict") /\ HandInTable
  /\ Goto(p, IF HandPte(p).accessed THEN "clear" ELSE "empty")
  /\ UNCHANGED <<ft, bump_ptr, pte, spt, swap, store, local, world>>

\* Mutation: pagedir_set_accessed is not called.
SetNotAccessed_Not(p, v) == UNCHANGED pte

SetNotAccessed(p, v) ==
  pte' = IF v \in Page THEN [pte EXCEPT ![p][v].accessed = FALSE] ELSE pte

Clear(p) ==
  /\ At(p, "clear") /\ HandInTable
  /\ SetNotAccessed(p, Hand)
  /\ Goto(p, "turn")
  /\ UNCHANGED <<ft, bump_ptr, spt, swap, store, local, world>>

Turn(p) ==
  /\ At(p, "turn")
  /\ bump_ptr' = bump_ptr + 1
  /\ Goto(p, "evict_wrap")
  /\ UNCHANGED <<ft, pte, spt, swap, store, local, world>>

EvictWrap(p) == At(p, "evict_wrap") /\ Wrap(p, "evict_zero", "evict")
EvictZero(p) == At(p, "evict_zero") /\ Zero(p, "evict")

\* evict_page has its victim, or what is under the hand by then.
SetEmpty(p) ==
  /\ At(p, "empty") /\ HandInTable
  /\ ft_status' = [ft_status EXCEPT ![bump_ptr] = "EMPTY"]
  /\ Goto(p, "entry")
  /\ UNCHANGED <<machine, ft_vaddr, bump_ptr, pte, spt, swap, store, local, world>>

\* Without an entry in the current table it dereferences a null pointer, and
\* the nested fault ends in exit.
Victim(p) ==
  /\ At(p, "entry") /\ HandInTable
  /\ IF HandEntry(p).entry
     THEN /\ victim' = [victim EXCEPT ![p] = Hand]
          /\ spt' = [spt EXCEPT ![p][Hand].resident_bit = FALSE]
          /\ Goto(p, "dirty")
     ELSE Goto(p, "exit") /\ UNCHANGED <<victim, spt>>
  /\ UNCHANGED <<ft, bump_ptr, pte, swap, store, arg, total, got, vaddr, slot, world>>

DirtyTest(p) ==
  /\ At(p, "dirty") /\ HandInTable
  /\ Goto(p, IF HandPte(p).dirty \/ spt[p][victim[p]].is_stack_page
             THEN "remember" ELSE "unmap")
  /\ UNCHANGED <<ft, bump_ptr, pte, spt, swap, store, local, world>>

\* Mutation: the dirty bit is not remembered.
Remembered_Lost(e, dirty) == e

\* The dirty bit is remembered.
Remembered(e, dirty) == [e EXCEPT !.dirty_bit = @ \/ dirty]

Remember(p) ==
  /\ At(p, "remember") /\ HandInTable
  /\ spt' = [spt EXCEPT ![p][victim[p]] = Remembered(@, HandPte(p).dirty)]
  /\ Goto(p, "save")
  /\ UNCHANGED <<ft, bump_ptr, pte, swap, store, local, world>>

\* The call of add_swap_entry.
Save(p) ==
  /\ At(p, "save") /\ HandInTable
  /\ vaddr' = [vaddr EXCEPT ![p] = Hand]
  /\ slot' = [slot EXCEPT ![p] = 0]
  /\ Goto(p, "slots")
  /\ UNCHANGED <<ft, bump_ptr, pte, spt, swap, store, arg, total, got, victim, world>>

\* It tests one slot after the other; without a free one, exit.
FindSlot(p) ==
  /\ At(p, "slots")
  /\ \/ /\ slot[p] = machine.entries
        /\ spt' = [spt EXCEPT ![p][victim[p]].swap_index = NONE]
        /\ Goto(p, "exit") /\ UNCHANGED slot
     \/ /\ slot[p] \in Slot /\ swap_tid[slot[p]] # NONE
        /\ slot' = [slot EXCEPT ![p] = @ + 1]
        /\ UNCHANGED <<spt, pc>>
     \/ /\ slot[p] \in Slot /\ swap_tid[slot[p]] = NONE
        /\ Goto(p, "swap_out") /\ UNCHANGED <<spt, slot>>
  /\ UNCHANGED <<ft, bump_ptr, pte, swap, store, arg, total, got, victim, vaddr, world>>

VaddrPte(p) == IF vaddr[p] \in Page THEN pte[p][vaddr[p]] ELSE NoPte

\* It claims the slot and writes the page through its address in the current
\* directory.  If that is not mapped, the fault in the middle of block_write
\* wants to read from swap and asserts on the channel's lock.
SwapOut(p) ==
  /\ At(p, "swap_out")
  /\ IF VaddrPte(p).present
     THEN /\ swap_tid' = [swap_tid EXCEPT ![slot[p]] = p]
          /\ swap_data' = [swap_data EXCEPT ![slot[p]] = mem[VaddrPte(p).frame]]
          /\ spt' = [spt EXCEPT ![p][victim[p]].swap_index = slot[p]]
          /\ pte' = [pte EXCEPT ![p][vaddr[p]].accessed = TRUE]
          /\ Goto(p, "unmap") /\ UNCHANGED kernel
     ELSE kernel' = "panic" /\ UNCHANGED <<swap, spt, pte, pc>>
  /\ UNCHANGED <<ft, bump_ptr, store, local, freed>>

\* The end of evict_page: pagedir_clear_page, and the frame is returned.
Unmap(p) ==
  /\ At(p, "unmap") /\ HandInTable
  /\ pte' = IF Hand \in Page THEN [pte EXCEPT ![p][Hand].present = FALSE] ELSE pte
  /\ Goto(p, "take")
  /\ UNCHANGED <<ft, bump_ptr, spt, swap, store, local, world>>

\* These steps read or write frame_table[bump_ptr].
Stray(p) ==
  /\ \E label \in {"search", "claim", "name", "take", "evict", "clear", "empty", "entry",
                   "dirty", "remember", "save", "unmap"} : At(p, label)
  /\ ~HandInTable
  /\ kernel' = "wild"
  /\ UNCHANGED <<ft, bump_ptr, pte, spt, swap, store, pc, local, freed>>

\* Mutation: the slot is not given back.
FreeSlot_Not(i) == UNCHANGED swap_tid

\* page_fault fetches the contents: remove_swap_entry.  swap_table[-1] is the
\* header of the table's own block, whose word there is 0: exit.
FreeSlot(i) == swap_tid' = [swap_tid EXCEPT ![i] = NONE]

FillSwap(p) ==
  LET e == spt[p][arg[p]] IN
  /\ At(p, "fill") /\ ~e.resident_bit /\ (e.dirty_bit \/ e.is_stack_page)
  /\ IF e.swap_index = NONE \/ swap_tid[e.swap_index] = NONE
     THEN Goto(p, "exit") /\ UNCHANGED <<spt, swap_tid, mem>>
     ELSE /\ mem' = [mem EXCEPT ![got[p]] = swap_data[e.swap_index]]
          /\ FreeSlot(e.swap_index)
          /\ spt' = [spt EXCEPT ![p][arg[p]].swap_index = NONE]
          /\ Goto(p, "install")
  /\ UNCHANGED <<ft, bump_ptr, pte, swap_data, written, local, world>>

\* Mutation: the page is not read.
FileRead_Not(p, v) == UNCHANGED mem

\* ... or file_read and memset, of no byte at all for a page that is not in
\* the file; setup_stack and stack growth fetch nothing either.
FileRead(p, v) ==
  mem' = IF v \in Text \cup Data THEN [mem EXCEPT ![got[p]] = FromFile(p, v)]
         ELSE mem

FillFile(p) ==
  LET e == spt[p][arg[p]] IN
  /\ At(p, "fill") /\ (e.resident_bit \/ ~(e.dirty_bit \/ e.is_stack_page))
  /\ FileRead(p, arg[p])
  /\ Goto(p, "install")
  /\ UNCHANGED <<ft, bump_ptr, pte, spt, swap, written, local, world>>

\* install_page.  setup_stack (the stack page has no entry) first makes the
\* entry, and then writes the arguments through the new mapping.
InstalledEntry(e) ==
  IF e.entry THEN [e EXCEPT !.resident_bit = TRUE]
  ELSE [SPTEntry(TRUE) EXCEPT !.is_stack_page = TRUE]

Install(p) ==
  LET v == arg[p]
      setup == ~spt[p][v].entry IN
  /\ At(p, "install")
  /\ IF pte[p][v].present
     THEN Goto(p, "exit") /\ UNCHANGED <<pte, spt, store>>
     ELSE /\ pte' = [pte EXCEPT ![p][v] =
               [present |-> TRUE, frame |-> got[p], accessed |-> setup,
                dirty |-> setup]]
          /\ spt' = [spt EXCEPT ![p][v] = InstalledEntry(@)]
          /\ mem' = IF setup THEN [mem EXCEPT ![got[p]] = FromWrite(p, v)]
                    ELSE mem
          /\ written' = IF setup THEN [written EXCEPT ![p] = @ \cup {v}]
                        ELSE written
          /\ Goto(p, "user")
  /\ UNCHANGED <<ft, bump_ptr, swap, local, world>>

Leave(p) ==
  /\ At(p, "user")
  /\ Goto(p, "exit")
  /\ UNCHANGED <<ft, bump_ptr, pte, spt, swap, store, local, world>>

Mapped(p) == {v \in Page : pte[p][v].present}

\* process_exit and pagedir_destroy: every mapped frame goes back to the page
\* allocator, which asserts that it was in use.  The frame table and the swap
\* table are left as they are.
Exit(p) ==
  LET frames == {pte[p][v].frame : v \in Mapped(p)} IN
  /\ At(p, "exit")
  /\ IF frames \cap freed # {} \/ Cardinality(frames) # Cardinality(Mapped(p))
     THEN kernel' = "panic" /\ UNCHANGED <<freed, mem, pte, pc>>
     ELSE /\ freed' = freed \cup frames
          /\ mem' = [f \in Frame |-> IF f \in frames THEN Junk ELSE mem[f]]
          /\ pte' = [pte EXCEPT ![p] = [v \in Page |-> NoPte]]
          /\ Goto(p, "gone")
          /\ UNCHANGED kernel
  /\ UNCHANGED <<ft, bump_ptr, spt, swap, written, local>>

-----------------------------------------------------------------------------
\* alloc_frame_table takes every page of the user pool.
Init ==
  /\ machine \in Machine
  /\ ft_status = [f \in Frame |-> "EMPTY"]
  /\ ft_vaddr = [f \in Frame |-> NONE]
  /\ bump_ptr = 0
  /\ pte = [p \in Proc |-> [v \in Page |-> NoPte]]
  /\ spt = [p \in Proc |-> [v \in Page |-> NoSPTEntry]]
  /\ swap_tid = [i \in Slot |-> NONE]
  /\ swap_data = [i \in Slot |-> Junk]
  /\ mem = [f \in Frame |-> Junk]
  /\ written = [p \in Proc |-> {}]
  /\ pc = [p \in Proc |-> IF p \in machine.proc THEN "start" ELSE "gone"]
  /\ arg = [p \in Proc |-> NONE]
  /\ total = [p \in Proc |-> 0]
  /\ got = [p \in Proc |-> NONE]
  /\ victim = [p \in Proc |-> NONE]
  /\ vaddr = [p \in Proc |-> NONE]
  /\ slot = [p \in Proc |-> NONE]
  /\ freed = {}
  /\ kernel = "up"

Handler(p) ==
  \/ LoadSegment(p)
  \/ Search(p) \/ Bump(p) \/ SearchWrap(p) \/ SearchZero(p)
  \/ Claim(p) \/ Name(p) \/ Take(p)
  \/ EvictTest(p) \/ Clear(p) \/ Turn(p) \/ EvictWrap(p) \/ EvictZero(p)
  \/ SetEmpty(p) \/ Victim(p) \/ DirtyTest(p) \/ Remember(p)
  \/ Save(p) \/ FindSlot(p) \/ SwapOut(p) \/ Unmap(p) \/ Stray(p)
  \/ FillSwap(p) \/ FillFile(p) \/ Install(p) \/ Exit(p)

User(p) ==
  \/ Leave(p)
  \/ \E v \in machine.page : Read(p, v) \/ Write(p, v) \/ Fault(p, v) \/ FaultGrow(p, v)

Stopped ==
  /\ kernel # "up" \/ \A p \in Proc : pc[p] = "gone"
  /\ UNCHANGED vars

Next == Stopped \/ \E p \in Proc : Handler(p) \/ User(p)

Spec == Init /\ [][Next]_vars

FairSpec == Spec /\ \A p \in Proc : WF_vars(Handler(p))

-----------------------------------------------------------------------------
(***************************************************************************)
(* Properties.                                                             *)
(***************************************************************************)
Label == {"start", "user", "search", "bump", "wrap", "zero", "claim", "name", "take",
          "evict", "clear", "turn", "evict_wrap", "evict_zero", "empty", "entry",
          "dirty", "remember", "save", "slots", "swap_out", "unmap", "fill", "install",
          "exit", "gone"}

\* Every variable has its type.
TypeOK ==
  /\ machine \in Machine
  /\ ft_status \in [Frame -> {"EMPTY", "FULL"}]
  /\ ft_vaddr \in [Frame -> Page \cup {NONE}]
  /\ bump_ptr \in Nat
  /\ pte \in [Proc -> [Page -> [present : BOOLEAN, frame : Frame \cup {NONE},
                                accessed : BOOLEAN, dirty : BOOLEAN]]]
  /\ spt \in [Proc -> [Page -> [entry : BOOLEAN, is_stack_page : BOOLEAN,
                                resident_bit : BOOLEAN, dirty_bit : BOOLEAN,
                                swap_index : Slot \cup {NONE, 0}]]]
  /\ swap_tid \in [Slot -> Proc \cup {NONE}]
  /\ pc \in [Proc -> Label]
  /\ arg \in [Proc -> Page \cup {NONE}]
  /\ total \in [Proc -> 0 .. max_frame]
  /\ got \in [Proc -> Frame \cup {NONE}]
  /\ victim \in [Proc -> Page \cup {NONE}]
  /\ vaddr \in [Proc -> Page \cup {NONE}]
  /\ slot \in [Proc -> (0 .. machine.entries) \cup {NONE}]
  /\ freed \subseteq Frame
  /\ kernel \in {"up", "panic", "wild"}

Lone(p) == machine.proc = {p}

Swapped(p) == {v \in Page : /\ spt[p][v].entry /\ ~spt[p][v].resident_bit
                            /\ spt[p][v].dirty_bit /\ spt[p][v].swap_index # NONE}

\* Between faults the four tables that describe a lone process agree, through
\* any number of evictions, swap-ins and failures of evict_page and
\* page_fault: its supplemental page table calls resident what its page
\* directory maps, and the slots that add_swap_entry and remove_swap_entry
\* leave to it are those of its absent pages, one each, so that none leaks and
\* none is shared.
TablesAgree ==
  /\ TypeOK
  /\ \A p \in Proc : Lone(p) /\ pc[p] = "user" =>
       /\ \A v \in Page : pte[p][v].present
                             <=> spt[p][v].entry /\ spt[p][v].resident_bit
       /\ {i \in Slot : swap_tid[i] = p} = {spt[p][v].swap_index : v \in Swapped(p)}
       /\ \A v, w \in Swapped(p) :
            spt[p][v].swap_index = spt[p][w].swap_index => v = w

\* A page a lone process has written to is never fetched from the file again
\* by page_fault, which would undo the writes without notice: the dirty bit of
\* the page directory, which pagedir_set_page clears, is saved in time.
NoStaleReload ==
  \A p \in Proc : /\ Lone(p) /\ pc[p] = "fill" /\ arg[p] \in written[p]
                  /\ ~pte[p][arg[p]].present
    => ~spt[p][arg[p]].resident_bit /\ spt[p][arg[p]].dirty_bit

\* page_fault ends, wherever earlier faults have left the shared hand and
\* whatever they have left in the frame table, once the others leave these
\* alone: the search stops after max_frame turns, and evict_page clears the
\* accessed bits that keep it going.
FaultEnds ==
  \A p \in Proc :
    <>[](\A q \in Proc \ {p} : pc[q] \in {"user", "gone"})
      => (pc[p] = "search" ~> pc[p] \in {"user", "gone"} \/ kernel # "up")

Backing(f) == {x \in Proc \X Page : /\ pte[x[1]][x[2]].present
                                    /\ pte[x[1]][x[2]].frame = f}

\* frame.h on FT_EMPTY, "frame is empty and can be allocated": get_user_page
\* gives such a frame away, so no page may live in it.
EmptyIsFree ==
  \A f \in Frame : /\ ft_status[f] = "EMPTY"
                   /\ \A p \in machine.proc : pc[p] = "user"
                  => Backing(f) = {}

\* The frames suffice for every page, with one to spare for the fault of a
\* write to a read-only page, so that evict_page is never called.
Roomy == Cardinality(machine.proc) = 1 /\ max_frame > Cardinality(machine.page)

\* Paging cannot be seen by a lone process as long as no frame has to be
\* evicted: page_fault gives every page a frame of its own, the page shows what
\* the file holds or what the process wrote, and process_exit frees each frame
\* once, as the assertion in palloc_free_multiple wants.
Transparent ==
  Roomy =>
    /\ EmptyIsFree
    /\ kernel = "up"
    /\ \A p \in Proc : pc[p] = "user" => \A v \in Mapped(p) :
         LET contents == mem[pte[p][v].frame] IN
         IF v \in written[p] THEN contents = FromWrite(p, v)
         ELSE v \in Text \cup Data => contents = FromFile(p, v)
=============================================================================
