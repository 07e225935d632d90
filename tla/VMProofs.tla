------------------------------ MODULE VMProofs ------------------------------
(***************************************************************************)
(* Proofs about module VM, for any processes, pages, frames and swap       *)
(* slots: the tables of a lone process agree, what it wrote is never read  *)
(* again from the file, and paging without eviction cannot be seen.        *)
(***************************************************************************)
EXTENDS VM, TLAPS

\* Zenon proves most steps; the others say which prover they need.
USE Zenon

(***************************************************************************)
(* The inductive invariant.                                                *)
(***************************************************************************)
Entry(p, v) == spt[p][v].entry
Resident(p, v) == spt[p][v].entry /\ spt[p][v].resident_bit
Dirty(p, v) == spt[p][v].dirty_bit
Index(p, v) == spt[p][v].swap_index
Present(p, v) == pte[p][v].present

Outside == {"start", "user", "exit", "gone"}

\* The places in evict_page: before it has its victim, with it, and with a
\* victim that is to be saved in swap.
Clocking == {"evict", "clear", "turn", "evict_wrap", "evict_zero", "empty", "entry"}
Parting == {"dirty", "remember", "save", "slots", "swap_out", "unmap"}
Storing == {"save", "slots", "swap_out"}

\* What the handler of p knows of its variables at each place, and that the
\* processes which the machine does not run never start.
Placed(p) ==
  /\ p \notin machine.proc => pc[p] = "gone"
  /\ pc[p] \notin Outside => arg[p] \in machine.page
  /\ pc[p] \in {"fill", "install"} => got[p] \in Frame
  /\ pc[p] \in {"search", "bump"} => total[p] < max_frame
  /\ pc[p] \in Parting => victim[p] \in Page
  /\ pc[p] = "swap_out" => slot[p] \in Slot

Types ==
  /\ TypeOK
  /\ written \in [Proc -> SUBSET Page]
  /\ mem = [f \in Frame |-> mem[f]]

Placing == \A p \in Proc : Placed(p)

\* A page that is mapped has a frame, and belongs to a process that runs.
Backed == \A p \in Proc : \A v \in Page :
            Present(p, v) => pte[p][v].frame \in Frame /\ p \in machine.proc

\* The page that evict_page is taking away, and the one page_fault is to bring.
Leaving(p, v) == pc[p] \in Parting /\ v = victim[p]
Coming(p, v) == pc[p] \notin Outside /\ v = arg[p]

\* The page directory and the supplemental page table.
Agreeing(p) ==
  \A v \in Page :
    /\ Present(p, v) /\ ~Leaving(p, v) => Resident(p, v)
    /\ Resident(p, v) /\ ~Coming(p, v) => Present(p, v)

\* What is written to is dirty in one of the two tables, in the supplemental
\* one when the page is not in memory and evict_page is past saying so.
Unsaved(p, v) == pc[p] \in {"dirty", "remember"} /\ v = victim[p]

Saved(p) ==
  \A v \in Page :
    /\ v \in written[p] =>
         /\ Entry(p, v)
         /\ Dirty(p, v) \/ ((Resident(p, v) \/ Unsaved(p, v)) /\ pte[p][v].dirty)
         /\ Resident(p, v) => Present(p, v)
    /\ spt[p][v].is_stack_page => v \in written[p]
    /\ Dirty(p, v) => Entry(p, v)
    /\ Resident(p, v) /\ Dirty(p, v) => Index(p, v) = NONE

\* The page on its way out.
Evicting(p) ==
  pc[p] \in Parting =>
    /\ HandInTable => Hand = victim[p]
    /\ Entry(p, victim[p]) /\ ~Resident(p, victim[p])
    /\ pc[p] \in {"slots", "swap_out"} => vaddr[p] = victim[p]

Saving(p) ==
  /\ pc[p] \in Storing => Dirty(p, victim[p])
  /\ pc[p] = "swap_out" => swap_tid[slot[p]] = NONE
  /\ pc[p] = "remember" => Dirty(p, victim[p]) \/ pte[p][victim[p]].dirty
  /\ pc[p] \in {"dirty", "remember"} /\ Present(p, victim[p]) /\ Dirty(p, victim[p])
       => Index(p, victim[p]) = NONE

\* A page read back has given up its slot.
Fetched(p) ==
  pc[p] = "install" => (Dirty(p, arg[p]) => Index(p, arg[p]) = NONE)

\* The pages whose contents are in swap.
InSwap(p, v) ==
  /\ Entry(p, v) /\ ~Resident(p, v) /\ Dirty(p, v) /\ Index(p, v) # NONE
  /\ ~(pc[p] \in Storing /\ v = victim[p])

\* Each has a slot of its own, and no other slot is taken.
Holding(p) == \A v \in Page : InSwap(p, v) => Index(p, v) \in Slot /\ swap_tid[Index(p, v)] = p
Using(p) == \A i \in Slot : swap_tid[i] = p => \E v \in Page : InSwap(p, v) /\ Index(p, v) = i
Sharing(p) == \E v, w \in Page : /\ InSwap(p, v) /\ InSwap(p, w) /\ v # w
                                 /\ Index(p, v) = Index(p, w)

Slotted(p) ==
  (pc[p] \in Storing => Present(p, victim[p])) => Holding(p) /\ Using(p) /\ ~Sharing(p)

Fresh(p) ==
  pc[p] = "start" => /\ \A v \in Page : ~Present(p, v) /\ ~Entry(p, v)
                     /\ written[p] = {} /\ \A i \in Slot : swap_tid[i] # p

Alone(p) == /\ Agreeing(p) /\ Saved(p) /\ Evicting(p) /\ Saving(p) /\ Fetched(p)
            /\ Slotted(p) /\ Fresh(p)

LoneInv == \A p \in Proc : Lone(p) /\ pc[p] \notin {"exit", "gone"} => Alone(p)

\* The frames between the hand b and frame f.
Ahead(b, f) == IF f >= b THEN f - b ELSE f + max_frame - b
Empty(f) == ft_status[f] = "EMPTY"

\* No page is ever evicted.
Unevicted(p) ==
  /\ pc[p] \notin Clocking \cup Parting
  /\ \A v \in Page : ~Dirty(p, v) /\ (spt[p][v].is_stack_page => Resident(p, v))

\* The search ends in time, at a frame that is empty.
InSight(b, n) == \E f \in Frame : Empty(f) /\ Ahead(b, f) + n < max_frame

Searching(p) ==
  /\ bump_ptr \in 0 .. max_frame
  /\ pc[p] \notin {"wrap", "zero"} => bump_ptr # max_frame
  /\ pc[p] = "zero" => bump_ptr = max_frame
  /\ pc[p] \in {"search", "bump", "wrap", "zero"} => InSight(bump_ptr, total[p])
  /\ pc[p] = "bump" => ~Empty(bump_ptr)
  /\ pc[p] = "claim" => Empty(bump_ptr)

\* Each page has a frame of its own, which the frame table knows of, ...
Lodged(p) ==
  \A v \in Page : Present(p, v) =>
    v \in machine.page /\ ~Empty(pte[p][v].frame) /\ ft_vaddr[pte[p][v].frame] = v

\* ... and so has the page that page_fault brings.
Obtaining(p) == pc[p] \in {"name", "take", "fill", "install"}
Held(p) == IF pc[p] \in {"name", "take"} THEN bump_ptr ELSE got[p]

Bringing(p) ==
  Obtaining(p) => /\ ~Empty(Held(p)) /\ (pc[p] # "name" => ft_vaddr[Held(p)] = arg[p])
                  /\ \A v \in Page : Present(p, v) => pte[p][v].frame # Held(p)

\* No other frame is full.
Occupied(p, f) == \/ \E v \in Page : Present(p, v) /\ pte[p][v].frame = f
                  \/ Obtaining(p) /\ f = Held(p)

Tight(p) == pc[p] # "exit" => \A f \in Frame : ~Empty(f) => Occupied(p, f)

Shown(p, v, contents) ==
  IF v \in written[p] THEN contents = FromWrite(p, v)
  ELSE v \in Text \cup Data => contents = FromFile(p, v)

Showing(p) == \A v \in Page : Present(p, v) => Shown(p, v, mem[pte[p][v].frame])

Filled(p) ==
  pc[p] = "install" /\ arg[p] \in Text \cup Data => mem[got[p]] = FromFile(p, arg[p])

Roomed(p) == /\ Unevicted(p) /\ Searching(p) /\ Lodged(p) /\ Bringing(p) /\ Tight(p)
             /\ Showing(p) /\ Filled(p) /\ freed = {}

RoomInv ==
  Roomy => /\ kernel = "up"
           /\ \A p \in Proc : Lone(p) /\ pc[p] # "gone" => Roomed(p)

(***************************************************************************)
(* Types.                                                                  *)
(***************************************************************************)
PTE == [present : BOOLEAN, frame : Frame \cup {NONE}, accessed : BOOLEAN, dirty : BOOLEAN]
SwapIndex == Slot \cup {NONE, 0}
SPTE == [entry : BOOLEAN, is_stack_page : BOOLEAN, resident_bit : BOOLEAN,
         dirty_bit : BOOLEAN, swap_index : SwapIndex]

SlotNumber == (0 .. machine.entries) \cup {NONE}

FrameTypes == /\ machine \in Machine
              /\ ft_status \in [Frame -> {"EMPTY", "FULL"}]
              /\ ft_vaddr \in [Frame -> Page \cup {NONE}]
              /\ bump_ptr \in Nat
PteType == pte \in [Proc -> [Page -> PTE]]
SptType == spt \in [Proc -> [Page -> SPTE]]
SwapType == swap_tid \in [Slot -> Proc \cup {NONE}]
PlaceTypes == /\ pc \in [Proc -> Label]
              /\ arg \in [Proc -> Page \cup {NONE}]
              /\ total \in [Proc -> 0 .. max_frame]
              /\ got \in [Proc -> Frame \cup {NONE}]
LocalTypes == /\ victim \in [Proc -> Page \cup {NONE}]
              /\ vaddr \in [Proc -> Page \cup {NONE}]
              /\ slot \in [Proc -> SlotNumber]
WorldTypes == /\ freed \subseteq Frame
              /\ kernel \in {"up", "panic", "wild"}
StoreTypes == /\ written \in [Proc -> SUBSET Page]
              /\ mem = [f \in Frame |-> mem[f]]

\* The types, in parts.
LEMMA TypeParts ==
  Types <=> /\ FrameTypes /\ PteType /\ SptType /\ SwapType /\ PlaceTypes /\ LocalTypes
            /\ WorldTypes /\ StoreTypes
  BY DEF Types, TypeOK, FrameTypes, PteType, SptType, SwapType, PlaceTypes, LocalTypes,
         WorldTypes, StoreTypes, PTE, SPTE, SwapIndex, SlotNumber

\* No step changes the machine.
LEMMA SameMachine ==
  ASSUME [Next]_vars
  PROVE  machine' = machine
<1>1. CASE UNCHANGED vars
  BY <1>1 DEF vars, ft
<1>2. CASE \E p \in Proc : \/ LoadSegment(p) \/ Search(p) \/ Bump(p) \/ SearchWrap(p)
                          \/ SearchZero(p) \/ Claim(p) \/ Name(p) \/ Take(p)
  BY <1>2 DEF ft, LoadSegment, Search, Bump, SearchWrap, SearchZero, Wrap, Zero, Claim, Name, Take
<1>a. CASE \E p \in Proc : \/ EvictTest(p) \/ Clear(p) \/ Turn(p) \/ EvictWrap(p) \/ EvictZero(p)
                          \/ SetEmpty(p) \/ Victim(p)
  BY <1>a DEF ft, EvictTest, Clear, Turn, EvictWrap, EvictZero, Wrap, Zero, SetEmpty, Victim
<1>b. CASE \E p \in Proc : DirtyTest(p) \/ Remember(p) \/ Save(p) \/ FindSlot(p)
  BY <1>b DEF ft, DirtyTest, Remember, Save, FindSlot
<1>3. CASE \E p \in Proc : \/ SwapOut(p) \/ Unmap(p) \/ Stray(p) \/ FillSwap(p)
                          \/ FillFile(p) \/ Install(p) \/ Exit(p) \/ Leave(p)
  BY <1>3 DEF ft, SwapOut, Unmap, Stray, FillSwap, FillFile, Install, Exit, Leave
<1>4. CASE \E p \in Proc : \E v \in machine.page :
             Read(p, v) \/ Write(p, v) \/ Fault(p, v) \/ FaultGrow(p, v)
  BY <1>4 DEF ft, Read, Write, Fault, FaultGrow
<1>5. QED
  BY <1>1, <1>2, <1>3, <1>4, <1>a, <1>b DEF Next, Handler, User, Stopped

\* The sets that depend on the machine.
LEMMA SameSets ==
  ASSUME machine' = machine
  PROVE  /\ max_frame' = max_frame /\ Frame' = Frame /\ Slot' = Slot
         /\ PTE' = PTE /\ SPTE' = SPTE /\ SlotNumber' = SlotNumber
  BY DEF max_frame, Frame, Slot, PTE, SPTE, SwapIndex, SlotNumber

\* An entry of a table is set.
SetsEntry(T, U, p, v, e) ==
  /\ U[p][v] = e
  /\ \A w \in Page : w # v => U[p][w] = T[p][w]
  /\ \A q \in Proc : q # p => U[q] = T[q]

\* An entry of a page directory is set.
LEMMA PteSet ==
  ASSUME PteType, NEW p \in Proc, NEW v \in Page, NEW e \in PTE, pte' = [pte EXCEPT ![p][v] = e]
  PROVE  pte' \in [Proc -> [Page -> PTE]] /\ SetsEntry(pte, pte', p, v, e)
<1>1. pte \in [Proc -> [Page -> PTE]]
  BY DEF PteType
<1>2. QED
  BY <1>1, SMT DEF SetsEntry

\* An entry of a supplemental page table is set.
LEMMA SptSet ==
  ASSUME SptType, NEW p \in Proc, NEW v \in Page, NEW e \in SPTE, spt' = [spt EXCEPT ![p][v] = e]
  PROVE  spt' \in [Proc -> [Page -> SPTE]] /\ SetsEntry(spt, spt', p, v, e)
<1>1. spt \in [Proc -> [Page -> SPTE]]
  BY DEF SptType
<1>2. QED
  BY <1>1, SMT DEF SetsEntry

\* A frame is filled.
LEMMA MemSet ==
  ASSUME Types, NEW g, NEW x, mem' = [mem EXCEPT ![g] = x]
  PROVE  /\ mem' = [f \in Frame |-> mem'[f]]
         /\ g \in Frame => mem'[g] = x
         /\ \A f \in Frame : f # g => mem'[f] = mem[f]
<1>1. mem = [f \in Frame |-> mem[f]]
  BY DEF Types
<1>2. QED
  BY <1>1, SMT

\* Fields of an entry are set.
LEMMA AccessedField ==
  ASSUME NEW d \in PTE, NEW b \in BOOLEAN, NEW e, e = [d EXCEPT !.accessed = b]
  PROVE  e \in PTE /\ e.present = d.present /\ e.dirty = d.dirty /\ e.frame = d.frame
  BY DEF PTE

\* The fields of the entries that pagedir_set_dirty and pagedir_clear_page make.
LEMMA DirtyField ==
  ASSUME NEW d \in PTE, NEW e, e = [d EXCEPT !.accessed = TRUE, !.dirty = TRUE]
  PROVE  e \in PTE /\ e.present = d.present /\ e.dirty /\ e.frame = d.frame
  BY DEF PTE

LEMMA PresentField ==
  ASSUME NEW d \in PTE, NEW e, e = [d EXCEPT !.present = FALSE]
  PROVE  e \in PTE /\ ~e.present /\ e.dirty = d.dirty /\ e.frame = d.frame
  BY DEF PTE

\* The fields of an entry of a page directory.
LEMMA PteFields ==
  ASSUME NEW e \in PTE
  PROVE  /\ e.present \in BOOLEAN /\ e.dirty \in BOOLEAN /\ e.accessed \in BOOLEAN
         /\ e.frame \in Frame \cup {NONE}
  BY DEF PTE

\* The fields of an entry of a supplemental page table.
LEMMA SptFields ==
  ASSUME NEW e \in SPTE
  PROVE  /\ e.entry \in BOOLEAN /\ e.is_stack_page \in BOOLEAN /\ e.resident_bit \in BOOLEAN
         /\ e.dirty_bit \in BOOLEAN /\ e.swap_index \in SwapIndex
  BY SMT DEF SPTE

\* The two tables of p are the same but for the accessed bits.
SamePte(p) ==
  \A v \in Page : /\ Present(p, v)' = Present(p, v)
                  /\ pte'[p][v].dirty = pte[p][v].dirty
                  /\ pte'[p][v].frame = pte[p][v].frame
SameSpt(p) == spt'[p] = spt[p]

\* The accessed bit is set or cleared.
LEMMA AccessedSet ==
  ASSUME PteType, NEW p \in Proc, NEW v \in Page, NEW b \in BOOLEAN,
         pte' = [pte EXCEPT ![p][v].accessed = b]
  PROVE  pte' \in [Proc -> [Page -> PTE]] /\ \A q \in Proc : SamePte(q)
<1>1. pte \in [Proc -> [Page -> PTE]] /\ pte[p][v] \in PTE
  BY DEF PteType
<1>2. PICK e : e = [pte[p][v] EXCEPT !.accessed = b]
  OBVIOUS
<1>3. e \in PTE /\ e.present = pte[p][v].present /\ e.dirty = pte[p][v].dirty
      /\ e.frame = pte[p][v].frame
  BY <1>1, <1>2, AccessedField
<1>4. pte' = [pte EXCEPT ![p][v] = e]
  BY <1>2
<1>5. pte' \in [Proc -> [Page -> PTE]] /\ SetsEntry(pte, pte', p, v, e)
  BY <1>3, <1>4, PteSet
<1>6. QED
  BY <1>3, <1>5 DEF SetsEntry, SamePte, Present

\* A write sets the dirty bit.
LEMMA DirtySet ==
  ASSUME PteType, NEW p \in Proc, NEW v \in Page,
         pte' = [pte EXCEPT ![p][v] = [@ EXCEPT !.accessed = TRUE, !.dirty = TRUE]]
  PROVE  /\ pte' \in [Proc -> [Page -> PTE]]
         /\ \A w \in Page : /\ Present(p, w)' = Present(p, w)
                            /\ pte'[p][w].frame = pte[p][w].frame
                            /\ pte'[p][w].dirty = (pte[p][w].dirty \/ w = v)
         /\ \A q \in Proc : q # p => SamePte(q)
<1>1. pte \in [Proc -> [Page -> PTE]] /\ pte[p][v] \in PTE
  BY DEF PteType
<1>2. PICK e : e = [pte[p][v] EXCEPT !.accessed = TRUE, !.dirty = TRUE]
  OBVIOUS
<1>3. e \in PTE /\ e.present = pte[p][v].present /\ e.dirty /\ e.frame = pte[p][v].frame
  BY <1>1, <1>2, DirtyField
<1>4. pte' = [pte EXCEPT ![p][v] = e]
  BY <1>2
<1>5. pte' \in [Proc -> [Page -> PTE]] /\ SetsEntry(pte, pte', p, v, e)
  BY <1>3, <1>4, PteSet
<1>6. ASSUME NEW w \in Page
      PROVE  /\ Present(p, w)' = Present(p, w) /\ pte'[p][w].frame = pte[p][w].frame
             /\ pte'[p][w].dirty = (pte[p][w].dirty \/ w = v)
  <2>1. CASE w = v
    BY <1>3, <1>5, <2>1 DEF SetsEntry, Present
  <2>2. CASE w # v
    <3>1. pte[p][w].dirty \in BOOLEAN
      BY <1>1, PteFields
    <3>2. QED
      BY <1>5, <2>2, <3>1 DEF SetsEntry, Present
  <2>3. QED
    BY <2>1, <2>2
<1>7. QED
  BY <1>5, <1>6 DEF SetsEntry, SamePte, Present

\* pagedir_clear_page.
LEMMA PresentCleared ==
  ASSUME PteType, NEW p \in Proc, NEW v \in Page,
         pte' = [pte EXCEPT ![p][v].present = FALSE]
  PROVE  /\ pte' \in [Proc -> [Page -> PTE]]
         /\ ~pte'[p][v].present /\ pte'[p][v].dirty = pte[p][v].dirty
         /\ \A w \in Page : w # v => pte'[p][w] = pte[p][w]
         /\ \A q \in Proc : q # p => SamePte(q)
<1>1. pte \in [Proc -> [Page -> PTE]] /\ pte[p][v] \in PTE
  BY DEF PteType
<1>2. PICK e : e = [pte[p][v] EXCEPT !.present = FALSE]
  OBVIOUS
<1>3. e \in PTE /\ ~e.present /\ e.dirty = pte[p][v].dirty
  BY <1>1, <1>2, PresentField
<1>4. pte' = [pte EXCEPT ![p][v] = e]
  BY <1>2
<1>5. pte' \in [Proc -> [Page -> PTE]] /\ SetsEntry(pte, pte', p, v, e)
  BY <1>3, <1>4, PteSet
<1>6. QED
  BY <1>3, <1>5 DEF SetsEntry, SamePte, Present

\* An entry of the supplemental page table with another slot.
LEMMA IndexField ==
  ASSUME NEW d \in SPTE, NEW i \in SwapIndex, NEW e, e = [d EXCEPT !.swap_index = i]
  PROVE  /\ e \in SPTE /\ e.entry = d.entry /\ e.is_stack_page = d.is_stack_page
         /\ e.resident_bit = d.resident_bit /\ e.dirty_bit = d.dirty_bit /\ e.swap_index = i
  BY DEF SPTE

\* A new entry, from create_SPT_entry.
LEMMA NewField ==
  ASSUME NEW b \in BOOLEAN, NEW e, e = SPTEntry(b)
  PROVE  /\ e \in SPTE /\ e.entry /\ ~e.is_stack_page
         /\ e.resident_bit = b /\ ~e.dirty_bit /\ e.swap_index = 0
  BY DEF SPTE, SPTEntry, SwapIndex

\* No entry.
LEMMA NoField ==
  /\ NoSPTEntry \in SPTE /\ ~NoSPTEntry.entry /\ ~NoSPTEntry.is_stack_page
  /\ ~NoSPTEntry.resident_bit /\ ~NoSPTEntry.dirty_bit
<1>1. TRUE \in BOOLEAN /\ FALSE \in BOOLEAN
  OBVIOUS
<1>2. PICK d \in SPTE : d = SPTEntry(FALSE) /\ ~d.is_stack_page /\ ~d.resident_bit /\ ~d.dirty_bit
  BY <1>1, NewField
<1>3. PICK e : e = [d EXCEPT !.entry = FALSE]
  OBVIOUS
<1>4. e \in SPTE /\ ~e.entry /\ ~e.is_stack_page /\ ~e.resident_bit /\ ~e.dirty_bit
  BY <1>2, <1>3 DEF SPTE
<1>5. QED
  BY <1>2, <1>3, <1>4 DEF NoSPTEntry

\* What install_page makes of an entry.
LEMMA InstalledField ==
  ASSUME NEW d \in SPTE, NEW e, e = InstalledEntry(d)
  PROVE  /\ e \in SPTE /\ e.entry /\ e.resident_bit
         /\ d.entry => /\ e.is_stack_page = d.is_stack_page /\ e.dirty_bit = d.dirty_bit
                       /\ e.swap_index = d.swap_index
         /\ ~d.entry => e.is_stack_page /\ ~e.dirty_bit
<1>1. CASE d.entry
  <2>1. e = [d EXCEPT !.resident_bit = TRUE]
    BY <1>1 DEF InstalledEntry
  <2>2. QED
    BY <1>1, <2>1 DEF SPTE
<1>2. CASE ~d.entry
  <2>1. TRUE \in BOOLEAN
    OBVIOUS
  <2>2. PICK n \in SPTE : n = SPTEntry(TRUE) /\ n.entry /\ n.resident_bit /\ ~n.dirty_bit
    BY <2>1, NewField
  <2>3. e = [n EXCEPT !.is_stack_page = TRUE]
    BY <1>2, <2>2 DEF InstalledEntry
  <2>4. QED
    BY <1>2, <2>2, <2>3 DEF SPTE
<1>3. QED
  BY <1>1, <1>2

\* Only the place and the variables of one handler change.
LEMMA PlaceStep ==
  ASSUME Types, Placing, NEW p \in Proc, pc[p] # "gone", NEW label \in Label, Goto(p, label),
         machine' = machine,
         \A q \in Proc : q # p => /\ arg'[q] = arg[q] /\ got'[q] = got[q] /\ total'[q] = total[q]
                                  /\ victim'[q] = victim[q] /\ slot'[q] = slot[q],
         label \notin Outside => arg'[p] \in machine.page,
         label \in {"fill", "install"} => got'[p] \in Frame,
         label \in {"search", "bump"} => total'[p] < max_frame,
         label \in Parting => victim'[p] \in Page,
         label = "swap_out" => slot'[p] \in Slot
  PROVE  Placing' /\ pc' \in [Proc -> Label] /\ pc'[p] = label
<1>1. /\ pc \in [Proc -> Label] /\ pc' = [pc EXCEPT ![p] = label]
      /\ Frame' = Frame /\ max_frame' = max_frame /\ Slot' = Slot
  BY DEF Types, TypeOK, Goto, Frame, max_frame, Slot
<1>2. /\ pc' \in [Proc -> Label] /\ pc'[p] = label
      /\ \A q \in Proc : q # p => pc'[q] = pc[q]
  BY <1>1
<1>3. ASSUME NEW q \in Proc PROVE Placed(q)'
  <2>1. Placed(q)
    BY DEF Placing
  <2>2. CASE q # p
    BY <1>1, <1>2, <2>1, <2>2 DEF Placed
  <2>3. CASE q = p
    <3>1. p \in machine.proc
      BY <2>1, <2>3 DEF Placed
    <3>2. QED
      BY <1>1, <1>2, <2>3, <3>1 DEF Placed
  <2>4. QED
    BY <2>2, <2>3
<1>4. QED
  BY <1>2, <1>3 DEF Placing

(***************************************************************************)
(* What the steps do to the supplemental page tables.                      *)
(***************************************************************************)
LEMMA LoadEffect ==
  ASSUME SptType, NEW p \in Proc, LoadSegment(p)
  PROVE  /\ spt' \in [Proc -> [Page -> SPTE]]
         /\ \A v \in Page : /\ ~spt'[p][v].is_stack_page /\ ~spt'[p][v].resident_bit
                            /\ ~spt'[p][v].dirty_bit
<1> DEFINE loaded == [v \in Page |-> IF v \in (Text \cup Data) \cap machine.page
                                     THEN SPTEntry(FALSE) ELSE NoSPTEntry]
<1>1. spt' = [spt EXCEPT ![p] = loaded]
  BY DEF LoadSegment
<1>2. FALSE \in BOOLEAN
  OBVIOUS
<1>3. PICK n \in SPTE : n = SPTEntry(FALSE) /\ ~n.is_stack_page /\ ~n.resident_bit /\ ~n.dirty_bit
  BY <1>2, NewField
<1>4. loaded \in [Page -> SPTE]
  BY <1>3, NoField
<1>5. \A v \in Page : loaded[v] = n \/ loaded[v] = NoSPTEntry
  BY <1>3
<1> HIDE DEF loaded
<1>6. spt' \in [Proc -> [Page -> SPTE]] /\ spt'[p] = loaded
  BY <1>1, <1>4 DEF SptType
<1>7. QED
  BY <1>3, <1>5, <1>6, NoField

\* Stack growth makes an entry.
LEMMA GrowEffect ==
  ASSUME SptType, NEW p \in Proc, NEW v \in Page, FaultGrow(p, v)
  PROVE  \E e : /\ spt' \in [Proc -> [Page -> SPTE]] /\ SetsEntry(spt, spt', p, v, e)
                /\ e.entry /\ ~e.is_stack_page /\ e.resident_bit /\ ~e.dirty_bit
<1>1. TRUE \in BOOLEAN
  OBVIOUS
<1>2. PICK e \in SPTE : /\ e = SPTEntry(TRUE) /\ e.entry /\ ~e.is_stack_page
                        /\ e.resident_bit /\ ~e.dirty_bit
  BY <1>1, NewField
<1>3. spt' = [spt EXCEPT ![p][v] = e]
  BY <1>2 DEF FaultGrow
<1>4. spt' \in [Proc -> [Page -> SPTE]] /\ SetsEntry(spt, spt', p, v, e)
  BY <1>3, SptSet
<1>5. QED
  BY <1>2, <1>4

\* The entry e of page v, once d, is that of a page on its way out, ...
Parted(p, v, d, e) ==
  /\ d = spt[p][v]
  /\ spt' \in [Proc -> [Page -> SPTE]] /\ SetsEntry(spt, spt', p, v, e)
  /\ e.entry = d.entry /\ e.is_stack_page = d.is_stack_page
  /\ ~e.resident_bit /\ e.dirty_bit = d.dirty_bit /\ e.swap_index = d.swap_index

\* ... or has the dirty bit of the page directory.
Noted(p, v, b, d, e) ==
  /\ d = spt[p][v]
  /\ spt' \in [Proc -> [Page -> SPTE]] /\ SetsEntry(spt, spt', p, v, e)
  /\ e.entry = d.entry /\ e.is_stack_page = d.is_stack_page
  /\ e.resident_bit = d.resident_bit /\ e.dirty_bit = (d.dirty_bit \/ b)
  /\ e.swap_index = d.swap_index

\* evict_page clears the resident bit of its victim, ...
LEMMA PartEffect ==
  ASSUME SptType, NEW p \in Proc, NEW v \in Page,
         spt' = [spt EXCEPT ![p][v].resident_bit = FALSE]
  PROVE  \E d, e : Parted(p, v, d, e)
<1>1. PICK d : d = spt[p][v]
  OBVIOUS
<1>2. PICK e : e = [d EXCEPT !.resident_bit = FALSE]
  OBVIOUS
<1>3. d \in SPTE
  BY <1>1 DEF SptType
<1>4. /\ e \in SPTE /\ e.entry = d.entry /\ e.is_stack_page = d.is_stack_page
      /\ ~e.resident_bit /\ e.dirty_bit = d.dirty_bit /\ e.swap_index = d.swap_index
  BY <1>2, <1>3 DEF SPTE
<1>5. spt' = [spt EXCEPT ![p][v] = e]
  BY <1>1, <1>2
<1>6. e \in SPTE
  BY <1>4
<1>7. spt' \in [Proc -> [Page -> SPTE]] /\ SetsEntry(spt, spt', p, v, e)
  BY <1>5, <1>6, SptSet
<1>8. QED
  BY <1>1, <1>4, <1>7 DEF Parted

\* ... and remembers that it is dirty.
LEMMA NoteEffect ==
  ASSUME SptType, NEW p \in Proc, NEW v \in Page, NEW b \in BOOLEAN,
         spt' = [spt EXCEPT ![p][v] = Remembered(@, b)]
  PROVE  \E d, e : Noted(p, v, b, d, e)
<1>1. PICK d : d = spt[p][v]
  OBVIOUS
<1>2. PICK e : e = Remembered(d, b)
  OBVIOUS
<1>3. d \in SPTE
  BY <1>1 DEF SptType
<1>4. /\ e \in SPTE /\ e.entry = d.entry /\ e.is_stack_page = d.is_stack_page
      /\ e.resident_bit = d.resident_bit /\ e.dirty_bit = (d.dirty_bit \/ b)
      /\ e.swap_index = d.swap_index
  BY <1>2, <1>3 DEF SPTE, Remembered
<1>5. spt' = [spt EXCEPT ![p][v] = e]
  BY <1>1, <1>2
<1>6. e \in SPTE
  BY <1>4
<1>7. spt' \in [Proc -> [Page -> SPTE]] /\ SetsEntry(spt, spt', p, v, e)
  BY <1>5, <1>6, SptSet
<1>8. QED
  BY <1>1, <1>4, <1>7 DEF Noted

\* The entry e of page v, once d, has another slot.
Moved(p, v, i, d, e) ==
  /\ d = spt[p][v]
  /\ spt' \in [Proc -> [Page -> SPTE]] /\ SetsEntry(spt, spt', p, v, e)
  /\ e.entry = d.entry /\ e.is_stack_page = d.is_stack_page
  /\ e.resident_bit = d.resident_bit /\ e.dirty_bit = d.dirty_bit /\ e.swap_index = i

\* add_swap_entry and remove_swap_entry set the slot of an entry.
LEMMA IndexEffect ==
  ASSUME SptType, NEW p \in Proc, NEW v \in Page, NEW i \in SwapIndex,
         spt' = [spt EXCEPT ![p][v].swap_index = i]
  PROVE  \E d, e : Moved(p, v, i, d, e)
<1>1. PICK d : d = spt[p][v]
  OBVIOUS
<1>b. PICK e : e = [d EXCEPT !.swap_index = i]
  OBVIOUS
<1>2. d \in SPTE
  BY <1>1 DEF SptType
<1>3. /\ e \in SPTE /\ e.entry = d.entry /\ e.is_stack_page = d.is_stack_page
      /\ e.resident_bit = d.resident_bit /\ e.dirty_bit = d.dirty_bit /\ e.swap_index = i
  BY <1>2, <1>b DEF SPTE
<1>4. spt' = [spt EXCEPT ![p][v] = e]
  BY <1>1, <1>b
<1>a. e \in SPTE
  BY <1>3
<1>5. spt' \in [Proc -> [Page -> SPTE]] /\ SetsEntry(spt, spt', p, v, e)
  BY <1>4, <1>a, SptSet
<1>6. QED
  BY <1>1, <1>3, <1>5 DEF Moved

\* The entries d and g of page v, where the former was e.
Installed(p, v, d, e, g) ==
  /\ e = spt[p][v]
  /\ spt' \in [Proc -> [Page -> SPTE]] /\ SetsEntry(spt, spt', p, v, d)
  /\ pte' \in [Proc -> [Page -> PTE]] /\ SetsEntry(pte, pte', p, v, g)
  /\ g.present /\ g.frame = got[p] /\ (g.dirty <=> ~e.entry)
  /\ d.entry /\ d.resident_bit
  /\ e.entry => /\ d.is_stack_page = e.is_stack_page /\ d.dirty_bit = e.dirty_bit
                /\ d.swap_index = e.swap_index
  /\ ~e.entry => d.is_stack_page /\ ~d.dirty_bit

\* What install_page does to the two tables.
LEMMA InstallEffect ==
  ASSUME Types, NEW p \in Proc, NEW v \in Page, v = arg[p], got[p] \in Frame,
         Install(p), ~Present(p, v)
  PROVE  \E d, e, g : Installed(p, v, d, e, g)
<1>1. SptType /\ PteType
  BY TypeParts
<1>2. PICK d, e, g : /\ e = spt[p][v] /\ d = InstalledEntry(e)
                     /\ g = [present |-> TRUE, frame |-> got[p], accessed |-> ~e.entry,
                             dirty |-> ~e.entry]
  OBVIOUS
<1>3. e \in SPTE
  BY <1>1, <1>2 DEF SptType
<1>4. /\ d \in SPTE /\ d.entry /\ d.resident_bit
      /\ e.entry => /\ d.is_stack_page = e.is_stack_page /\ d.dirty_bit = e.dirty_bit
                    /\ d.swap_index = e.swap_index
      /\ ~e.entry => d.is_stack_page /\ ~d.dirty_bit
  BY <1>2, <1>3, InstalledField
<1>5. g \in PTE /\ g.present /\ g.frame = got[p] /\ (g.dirty <=> ~e.entry)
  BY <1>2 DEF PTE
<1>6. spt' = [spt EXCEPT ![p][v] = d] /\ pte' = [pte EXCEPT ![p][v] = g]
  BY <1>2 DEF Install, Present
<1>a. d \in SPTE /\ g \in PTE
  BY <1>4, <1>5
<1>b. spt' \in [Proc -> [Page -> SPTE]] /\ SetsEntry(spt, spt', p, v, d)
  BY <1>1, <1>6, <1>a, SptSet
<1>7. pte' \in [Proc -> [Page -> PTE]] /\ SetsEntry(pte, pte', p, v, g)
  BY <1>1, <1>6, <1>a, PteSet
<1>8. QED
  BY <1>2, <1>4, <1>5, <1>7, <1>b DEF Installed

(***************************************************************************)
(* The steps keep the types.                                               *)
(***************************************************************************)
\* The types of the next state, variable by variable.
LEMMA NextTypes ==
  ASSUME Types, machine' = machine,
         ft_status' \in [Frame -> {"EMPTY", "FULL"}], ft_vaddr' \in [Frame -> Page \cup {NONE}],
         bump_ptr' \in Nat, pte' \in [Proc -> [Page -> PTE]], spt' \in [Proc -> [Page -> SPTE]],
         swap_tid' \in [Slot -> Proc \cup {NONE}],
         pc' \in [Proc -> Label], arg' \in [Proc -> Page \cup {NONE}],
         total' \in [Proc -> 0 .. max_frame], got' \in [Proc -> Frame \cup {NONE}],
         victim' \in [Proc -> Page \cup {NONE}], vaddr' \in [Proc -> Page \cup {NONE}],
         slot' \in [Proc -> SlotNumber],
         freed' \subseteq Frame, kernel' \in {"up", "panic", "wild"},
         written' \in [Proc -> SUBSET Page], mem' = [f \in Frame |-> mem'[f]]
  PROVE  Types'
<1>1. /\ max_frame' = max_frame /\ Frame' = Frame /\ Slot' = Slot
      /\ PTE' = PTE /\ SPTE' = SPTE /\ SlotNumber' = SlotNumber /\ machine \in Machine
  BY SameSets DEF Types, TypeOK
<1>2. FrameTypes' /\ PteType' /\ SptType' /\ SwapType' /\ WorldTypes'
  BY <1>1 DEF FrameTypes, PteType, SptType, SwapType, WorldTypes
<1>3. PlaceTypes' /\ LocalTypes' /\ StoreTypes'
  BY <1>1 DEF PlaceTypes, LocalTypes, StoreTypes
<1>4. QED
  BY <1>2, <1>3 DEF Types, TypeOK, FrameTypes, PteType, SptType, SwapType, PlaceTypes,
     LocalTypes, WorldTypes, StoreTypes, PTE, SPTE, SwapIndex, SlotNumber

\* The types of the variables, one by one.
LEMMA TypeFacts ==
  ASSUME Types
  PROVE  /\ ft_status \in [Frame -> {"EMPTY", "FULL"}] /\ ft_vaddr \in [Frame -> Page \cup {NONE}]
         /\ bump_ptr \in Nat /\ PteType /\ SptType
         /\ pte \in [Proc -> [Page -> PTE]] /\ spt \in [Proc -> [Page -> SPTE]]
         /\ swap_tid \in [Slot -> Proc \cup {NONE}]
         /\ pc \in [Proc -> Label] /\ arg \in [Proc -> Page \cup {NONE}]
         /\ total \in [Proc -> 0 .. max_frame] /\ got \in [Proc -> Frame \cup {NONE}]
         /\ victim \in [Proc -> Page \cup {NONE}] /\ vaddr \in [Proc -> Page \cup {NONE}]
         /\ slot \in [Proc -> SlotNumber]
         /\ freed \subseteq Frame /\ kernel \in {"up", "panic", "wild"}
         /\ written \in [Proc -> SUBSET Page] /\ mem = [f \in Frame |-> mem[f]]
  BY TypeParts DEF FrameTypes, PteType, SptType, SwapType, PlaceTypes, LocalTypes, WorldTypes,
     StoreTypes

\* The parts of the machine.
LEMMA MachineFacts ==
  ASSUME Types
  PROVE  /\ machine.proc \subseteq Proc /\ machine.page \subseteq Page /\ Stack \in machine.page
         /\ max_frame \in Nat /\ 0 < max_frame /\ machine.entries \in Nat
         /\ 0 \in Frame /\ 0 \in 0 .. max_frame
<1>1. /\ machine.proc \subseteq Proc /\ machine.page \subseteq Page /\ Stack \in machine.page
      /\ machine.frames \in Nat \ {0} /\ machine.entries \in Nat
  BY VMAssumption DEF Types, TypeOK
<1>2. QED
  BY <1>1, SMT DEF max_frame, Frame

\* The call of get_user_page.
LEMMA CallStep ==
  ASSUME Types, Placing, NEW p \in Proc, pc[p] # "gone", NEW v \in machine.page,
         GetUserPage(p, v), machine' = machine
  PROVE  /\ Placing' /\ pc' \in [Proc -> Label] /\ pc'[p] = "search" /\ arg'[p] = v
         /\ \A q \in Proc : q # p => pc'[q] = pc[q]
         /\ arg' \in [Proc -> Page \cup {NONE}] /\ total' \in [Proc -> 0 .. max_frame]
         /\ got' \in [Proc -> Frame \cup {NONE}] /\ victim' \in [Proc -> Page \cup {NONE}]
         /\ slot' \in [Proc -> SlotNumber] /\ vaddr' \in [Proc -> Page \cup {NONE}] /\ total'[p] = 0
<1>1. /\ arg' = [arg EXCEPT ![p] = v] /\ total' = [total EXCEPT ![p] = 0]
      /\ Goto(p, "search") /\ got' = got /\ victim' = victim /\ slot' = slot
      /\ vaddr' = vaddr
  BY DEF GetUserPage
<1>2. /\ arg \in [Proc -> Page \cup {NONE}] /\ total \in [Proc -> 0 .. max_frame]
      /\ pc \in [Proc -> Label]
      /\ got' \in [Proc -> Frame \cup {NONE}] /\ victim' \in [Proc -> Page \cup {NONE}]
      /\ slot' \in [Proc -> SlotNumber] /\ vaddr' \in [Proc -> Page \cup {NONE}]
  BY <1>1, TypeFacts
<1>3. v \in Page /\ 0 < max_frame /\ 0 \in 0 .. max_frame
  BY MachineFacts
<1>4. /\ arg'[p] = v /\ total'[p] = 0 /\ arg' \in [Proc -> Page \cup {NONE}]
      /\ total' \in [Proc -> 0 .. max_frame]
      /\ \A q \in Proc : q # p => arg'[q] = arg[q] /\ total'[q] = total[q]
  BY <1>1, <1>2, <1>3
<1>5. "search" \in Label /\ "search" \notin Parting
  BY DEF Label, Parting
<1>6. Placing' /\ pc' \in [Proc -> Label] /\ pc'[p] = "search"
  BY <1>1, <1>3, <1>4, <1>5, PlaceStep
<1>7. \A q \in Proc : q # p => pc'[q] = pc[q]
  BY <1>1, <1>2 DEF Goto
<1>8. QED
  BY <1>1, <1>2, <1>4, <1>6, <1>7

\* The other moves keep the page served.
LEMMA MoveStep ==
  ASSUME Types, Placing, NEW p \in Proc, pc[p] # "gone", NEW label \in Label, Goto(p, label),
         machine' = machine, arg' = arg,
         label \notin Outside => pc[p] \notin Outside,
         \A q \in Proc : q # p => /\ got'[q] = got[q] /\ total'[q] = total[q]
                                  /\ victim'[q] = victim[q] /\ slot'[q] = slot[q],
         label \in {"fill", "install"} => got'[p] \in Frame,
         label \in {"search", "bump"} => total'[p] < max_frame,
         label \in Parting => victim'[p] \in Page,
         label = "swap_out" => slot'[p] \in Slot
  PROVE  /\ Placing' /\ pc' \in [Proc -> Label] /\ pc'[p] = label
         /\ \A q \in Proc : q # p => pc'[q] = pc[q]
<1>1. label \notin Outside => arg'[p] \in machine.page
  BY DEF Placing, Placed
<1>2. Placing' /\ pc' \in [Proc -> Label] /\ pc'[p] = label
  BY <1>1, PlaceStep
<1>3. \A q \in Proc : q # p => pc'[q] = pc[q]
  BY TypeFacts DEF Goto
<1>4. QED
  BY <1>2, <1>3

\* A move that changes nothing but the frame table and the hand.
Strides(p, label) == Goto(p, label) /\ UNCHANGED <<machine, pte, spt, swap, store, local, world>>

\* Such a move keeps the types.
LEMMA StrideTypes ==
  ASSUME Types, Placing, NEW p \in Proc, pc[p] \notin Outside, NEW label \in Label,
         Strides(p, label), label \notin {"fill", "install", "swap_out"},
         ft_status' \in [Frame -> {"EMPTY", "FULL"}], ft_vaddr' \in [Frame -> Page \cup {NONE}],
         bump_ptr' \in Nat,
         label \in {"search", "bump"} => total[p] < max_frame,
         label \in Parting => victim[p] \in Page
  PROVE  Types' /\ Placing'
<1>1. /\ Goto(p, label) /\ UNCHANGED <<machine, pte, spt, swap, store, local, world>>
      /\ pc[p] # "gone"
  BY DEF Strides, Outside
<1>2. /\ arg' = arg /\ got' = got /\ total' = total /\ victim' = victim /\ slot' = slot
      /\ vaddr' = vaddr
  BY <1>1 DEF local
<1>3. Placing' /\ pc' \in [Proc -> Label]
  BY <1>1, <1>2, MoveStep
<1>4. QED
  BY <1>1, <1>2, <1>3, TypeFacts, NextTypes DEF swap, store, world

\* The places of the loops.
Looping == {"search", "bump", "wrap", "zero", "claim", "name", "take"} \cup Clocking

\* How the sets of places lie.
LEMMA Places ==
  /\ Looping \subseteq Label /\ Looping \cap Outside = {} /\ Looping \cap Parting = {}
  /\ Parting \subseteq Label /\ Parting \cap Outside = {} /\ Storing \subseteq Parting
  /\ Clocking \subseteq Looping /\ {"fill", "install", "swap_out"} \cap Looping = {}
  /\ {"fill", "install"} \cap (Outside \cup Parting) = {}
<1>1. /\ Looping \subseteq Label /\ Parting \subseteq Label /\ Storing \subseteq Parting
      /\ Clocking \subseteq Looping
  BY DEF Looping, Clocking, Parting, Storing, Label
<1>2. Looping \cap Outside = {} /\ Parting \cap Outside = {}
  BY DEF Looping, Clocking, Parting, Outside
<1>3. Looping \cap Parting = {} /\ {"fill", "install", "swap_out"} \cap Looping = {}
  BY DEF Looping, Clocking, Parting
<1>4. {"fill", "install"} \cap (Outside \cup Parting) = {}
  BY DEF Parting, Outside
<1>5. QED
  BY <1>1, <1>2, <1>3, <1>4

\* The instructions of a process, and its faults.
LEMMA UserTypes ==
  ASSUME Types, Placing, NEW p \in Proc, NEW v \in machine.page,
         Read(p, v) \/ Write(p, v) \/ Fault(p, v) \/ FaultGrow(p, v)
  PROVE  Types' /\ Placing'
<1> USE TypeFacts
<1>1. v \in Page /\ "user" # "gone" /\ "user" \in Label
  BY MachineFacts DEF Label
<1>2. CASE Read(p, v)
  <2>1. UNCHANGED <<ft, bump_ptr, spt, swap, store, pc, local, world>>
    BY <1>2 DEF Read
  <2>2. TRUE \in BOOLEAN /\ pte' = [pte EXCEPT ![p][v].accessed = TRUE]
    BY <1>2 DEF Read
  <2>3. pte' \in [Proc -> [Page -> PTE]]
    BY <1>1, <2>2, AccessedSet
  <2>4. Types'
    BY <2>1, <2>3, NextTypes DEF ft, swap, store, local, world
  <2>5. Placing'
    BY <2>1, SameSets DEF Placing, Placed, ft, local
  <2>6. QED
    BY <2>4, <2>5
<1>3. CASE Write(p, v)
  <2>1. /\ UNCHANGED <<ft, bump_ptr, spt, swap, pc, local, world>>
        /\ pte' = [pte EXCEPT ![p][v] = [@ EXCEPT !.accessed = TRUE, !.dirty = TRUE]]
        /\ mem' = [mem EXCEPT ![pte[p][v].frame] = FromWrite(p, v)]
        /\ written' = [written EXCEPT ![p] = @ \cup {v}]
    BY <1>3 DEF Write
  <2>2. pte' \in [Proc -> [Page -> PTE]]
    BY <1>1, <2>1, DirtySet
  <2>3. mem' = [f \in Frame |-> mem'[f]]
    BY <2>1, MemSet
  <2>5. written' \in [Proc -> SUBSET Page]
    BY <1>1, <2>1
  <2>6. Types'
    BY <2>1, <2>2, <2>3, <2>5, NextTypes DEF ft, swap, local, world
  <2>7. Placing'
    BY <2>1, SameSets DEF Placing, Placed, ft, local
  <2>8. QED
    BY <2>6, <2>7
<1>4. CASE Fault(p, v)
  <2>1. /\ UNCHANGED <<ft, bump_ptr, pte, spt, swap, store, world>> /\ GetUserPage(p, v)
        /\ pc[p] = "user"
    BY <1>4 DEF Fault, At
  <2>2. /\ Placing' /\ pc' \in [Proc -> Label]
        /\ arg' \in [Proc -> Page \cup {NONE}] /\ total' \in [Proc -> 0 .. max_frame]
        /\ got' \in [Proc -> Frame \cup {NONE}] /\ victim' \in [Proc -> Page \cup {NONE}]
        /\ slot' \in [Proc -> SlotNumber] /\ vaddr' \in [Proc -> Page \cup {NONE}]
    BY <2>1, CallStep DEF ft
  <2>3. QED
    BY <2>1, <2>2, NextTypes DEF ft, swap, store, world
<1>5. CASE FaultGrow(p, v)
  <2>1. /\ UNCHANGED <<ft, bump_ptr, pte, swap, store, world>> /\ GetUserPage(p, v)
        /\ pc[p] = "user"
    BY <1>5 DEF FaultGrow, At
  <2>2. /\ Placing' /\ pc' \in [Proc -> Label]
        /\ arg' \in [Proc -> Page \cup {NONE}] /\ total' \in [Proc -> 0 .. max_frame]
        /\ got' \in [Proc -> Frame \cup {NONE}] /\ victim' \in [Proc -> Page \cup {NONE}]
        /\ slot' \in [Proc -> SlotNumber] /\ vaddr' \in [Proc -> Page \cup {NONE}]
    BY <2>1, CallStep DEF ft
  <2>3. spt' \in [Proc -> [Page -> SPTE]]
    BY <1>1, <1>5, GrowEffect
  <2>4. QED
    BY <2>1, <2>2, <2>3, NextTypes DEF ft, swap, store, world
<1>6. QED
  BY <1>2, <1>3, <1>4, <1>5

\* load_segment, setup_stack, and the start of process_exit.
LEMMA StartTypes ==
  ASSUME Types, Placing, NEW p \in Proc, LoadSegment(p) \/ Leave(p)
  PROVE  Types' /\ Placing'
<1> USE TypeFacts
<1>1. CASE LoadSegment(p)
  <2>1. /\ UNCHANGED <<ft, bump_ptr, pte, swap, store, world>> /\ GetUserPage(p, Stack)
        /\ pc[p] = "start"
    BY <1>1 DEF LoadSegment, At
  <2>2. Stack \in machine.page
    BY MachineFacts
  <2>3. /\ Placing' /\ pc' \in [Proc -> Label]
        /\ arg' \in [Proc -> Page \cup {NONE}] /\ total' \in [Proc -> 0 .. max_frame]
        /\ got' \in [Proc -> Frame \cup {NONE}] /\ victim' \in [Proc -> Page \cup {NONE}]
        /\ slot' \in [Proc -> SlotNumber] /\ vaddr' \in [Proc -> Page \cup {NONE}]
    BY <2>1, <2>2, CallStep DEF ft
  <2>4. spt' \in [Proc -> [Page -> SPTE]]
    BY <1>1, LoadEffect
  <2>5. QED
    BY <2>1, <2>3, <2>4, NextTypes DEF ft, swap, store, world
<1>2. CASE Leave(p)
  <2>1. /\ UNCHANGED <<ft, bump_ptr, pte, spt, swap, store, local, world>>
        /\ Goto(p, "exit") /\ pc[p] = "user"
    BY <1>2 DEF Leave, At
  <2>2. "exit" \in Label /\ "exit" \in Outside /\ "exit" \notin Parting
    BY DEF Label, Outside, Parting
  <2>3. Placing' /\ pc' \in [Proc -> Label]
    BY <2>1, <2>2, MoveStep DEF ft, local
  <2>4. QED
    BY <2>1, <2>3, NextTypes DEF ft, swap, store, local, world
<1>3. QED
  BY <1>1, <1>2

\* A number up to n that is not n.
LEMMA Below ==
  ASSUME NEW n \in Nat, NEW k \in 0 .. n, k # n
  PROVE  k < n
  BY SMT

\* The loop of get_user_page, and its return.
LEMMA SearchTypes ==
  ASSUME Types, Placing, NEW p \in Proc,
         Search(p) \/ SearchWrap(p) \/ SearchZero(p) \/ Claim(p) \/ Name(p)
  PROVE  Types' /\ Placing'
<1> USE TypeFacts
<1>1. /\ max_frame \in Nat /\ 0 \in Nat /\ total[p] \in 0 .. max_frame
      /\ {"search", "bump", "wrap", "zero", "claim", "name", "take", "evict"} \subseteq Looping
  BY MachineFacts DEF Looping, Clocking
<1>2. CASE Search(p)
  <2>1. PICK label \in {"bump", "claim"} : Goto(p, label)
    BY <1>2 DEF Search
  <2>2. /\ Strides(p, label) /\ pc[p] = "search" /\ UNCHANGED <<ft_status, ft_vaddr, bump_ptr>>
    BY <1>2, <2>1 DEF Search, At, Strides, ft
  <2>3. total[p] < max_frame
    BY <2>2 DEF Placing, Placed
  <2>4. QED
    BY <1>1, <2>1, <2>2, <2>3, Places, StrideTypes, ZenonT(30)
<1>3. Resume(p) \in {"search", "evict"} /\ (Resume(p) = "search" => total[p] < max_frame)
  <2>1. ~SearchedAll(p) => total[p] < max_frame
    BY <1>1, Below DEF SearchedAll
  <2>2. QED
    BY <2>1 DEF Resume
<1>4. CASE SearchWrap(p)
  <2>1. PICK label \in {"zero", Resume(p)} : Goto(p, label)
    BY <1>4 DEF SearchWrap, Wrap
  <2>2. /\ Strides(p, label) /\ pc[p] = "wrap" /\ UNCHANGED <<ft_status, ft_vaddr, bump_ptr>>
    BY <1>4, <2>1 DEF SearchWrap, Wrap, At, Strides, ft
  <2>3. label \in {"zero", "search", "evict"} /\ (label = "search" => total[p] < max_frame)
    BY <1>3, <2>1
  <2>4. label \in Looping /\ pc[p] \in Looping /\ label # "bump"
    BY <1>1, <2>2, <2>3
  <2>5. QED
    BY <2>2, <2>3, <2>4, Places, StrideTypes
<1>5. CASE SearchZero(p)
  <2>1. /\ Strides(p, Resume(p)) /\ pc[p] = "zero" /\ UNCHANGED <<ft_status, ft_vaddr>>
        /\ bump_ptr' \in Nat
    BY <1>1, <1>5 DEF SearchZero, Zero, At, Strides, ft
  <2>2. QED
    BY <1>1, <1>3, <2>1, Places, StrideTypes, ZenonT(30)
<1>6. CASE Claim(p)
  <2>1. /\ Strides(p, "name") /\ pc[p] = "claim" /\ UNCHANGED <<ft_vaddr, bump_ptr>>
        /\ ft_status' = [ft_status EXCEPT ![bump_ptr] = "FULL"]
    BY <1>6 DEF Claim, At, Strides
  <2>2. ft_status' \in [Frame -> {"EMPTY", "FULL"}]
    BY <2>1
  <2>3. QED
    BY <1>1, <2>1, <2>2, Places, StrideTypes
<1>7. CASE Name(p)
  <2>1. /\ Strides(p, "take") /\ pc[p] = "name" /\ UNCHANGED <<ft_status, bump_ptr>>
        /\ ft_vaddr' = [ft_vaddr EXCEPT ![bump_ptr] = arg[p]]
    BY <1>7 DEF Name, At, Strides
  <2>2. ft_vaddr' \in [Frame -> Page \cup {NONE}]
    BY <2>1
  <2>3. QED
    BY <1>1, <2>1, <2>2, Places, StrideTypes, ZenonT(30)
<1>8. QED
  BY <1>2, <1>4, <1>5, <1>6, <1>7

\* The hand moves on, or its frame is returned.
LEMMA TakeTypes ==
  ASSUME Types, Placing, NEW p \in Proc, Bump(p) \/ Take(p)
  PROVE  Types' /\ Placing'
<1> USE TypeFacts
<1>1. /\ max_frame \in Nat /\ {"wrap", "fill"} \subseteq Label
      /\ {"wrap", "fill"} \cap Parting = {} /\ {"bump", "take"} \cap Outside = {}
  BY MachineFacts DEF Label, Parting, Outside
<1>2. CASE Bump(p)
  <2>1. /\ UNCHANGED <<ft, pte, spt, swap, store, arg, got, victim, vaddr, slot, world>>
        /\ bump_ptr' = bump_ptr + 1 /\ total' = [total EXCEPT ![p] = @ + 1]
        /\ Goto(p, "wrap") /\ pc[p] = "bump"
    BY <1>2 DEF Bump, At
  <2>2. total[p] < max_frame /\ total[p] \in 0 .. max_frame
    BY <2>1 DEF Placing, Placed
  <2>3. bump_ptr' \in Nat /\ total[p] + 1 \in 0 .. max_frame
    BY <1>1, <2>1, <2>2, SMT
  <2>4. total' \in [Proc -> 0 .. max_frame] /\ \A q \in Proc : q # p => total'[q] = total[q]
    BY <2>1, <2>3
  <2>5. Placing' /\ pc' \in [Proc -> Label]
    BY <1>1, <2>1, <2>4, MoveStep DEF ft
  <2>6. QED
    BY <2>1, <2>3, <2>4, <2>5, NextTypes DEF ft, swap, store, world
<1>3. CASE Take(p)
  <2>1. /\ UNCHANGED <<ft, bump_ptr, pte, spt, swap, store, arg, total, victim, vaddr, slot, world>>
        /\ got' = [got EXCEPT ![p] = bump_ptr] /\ Goto(p, "fill")
        /\ pc[p] = "take" /\ bump_ptr \in Frame
    BY <1>3 DEF Take, At, HandInTable
  <2>2. /\ got' \in [Proc -> Frame \cup {NONE}] /\ got'[p] \in Frame
        /\ \A q \in Proc : q # p => got'[q] = got[q]
    BY <2>1
  <2>3. Placing' /\ pc' \in [Proc -> Label]
    BY <1>1, <2>1, <2>2, MoveStep DEF ft
  <2>4. QED
    BY <2>1, <2>2, <2>3, NextTypes DEF ft, swap, store, world
<1>4. QED
  BY <1>2, <1>3

\* A page that the directory of p calls accessed or present is one of its pages.
LEMMA HandIsPage ==
  ASSUME NEW p \in Proc, HandPte(p).accessed \/ HandPte(p).present \/ HandPte(p).dirty
  PROVE  Hand \in Page /\ HandPte(p) = pte[p][Hand]
<1>1. ~NoPte.accessed /\ ~NoPte.present /\ ~NoPte.dirty
  BY DEF NoPte
<1>2. QED
  BY <1>1 DEF HandPte

\* The loop of evict_page.
LEMMA ScanTypes ==
  ASSUME Types, Placing, NEW p \in Proc,
         EvictTest(p) \/ Clear(p) \/ Turn(p) \/ EvictWrap(p) \/ EvictZero(p) \/ SetEmpty(p)
  PROVE  Types' /\ Placing'
<1> USE TypeFacts
<1>1. /\ Clocking = {"evict", "clear", "turn", "evict_wrap", "evict_zero", "empty", "entry"}
      /\ {"search", "bump"} \cap Clocking = {} /\ 0 \in Nat
  BY DEF Clocking
<1>2. ASSUME NEW label \in Clocking, Strides(p, label), pc[p] \in Clocking,
             ft_status' \in [Frame -> {"EMPTY", "FULL"}], ft_vaddr' = ft_vaddr, bump_ptr' \in Nat
      PROVE  Types' /\ Placing'
  BY <1>1, <1>2, Places, StrideTypes
<1>3. CASE EvictTest(p)
  <2>1. PICK label \in {"clear", "empty"} : Goto(p, label)
    BY <1>3 DEF EvictTest
  <2>2. Strides(p, label) /\ pc[p] = "evict" /\ UNCHANGED <<ft_status, ft_vaddr, bump_ptr>>
    BY <1>3, <2>1 DEF EvictTest, At, Strides, ft
  <2>3. QED
    BY <1>1, <1>2, <2>1, <2>2
<1>4. CASE Turn(p)
  <2>1. /\ Strides(p, "evict_wrap") /\ pc[p] = "turn" /\ UNCHANGED <<ft_status, ft_vaddr>>
        /\ bump_ptr' = bump_ptr + 1
    BY <1>4 DEF Turn, At, Strides, ft
  <2>2. bump_ptr' \in Nat
    BY <2>1, SMT
  <2>3. QED
    BY <1>1, <1>2, <2>1, <2>2
<1>5. CASE EvictWrap(p)
  <2>1. PICK label \in {"evict_zero", "evict"} : Goto(p, label)
    BY <1>5 DEF EvictWrap, Wrap
  <2>2. Strides(p, label) /\ pc[p] = "evict_wrap" /\ UNCHANGED <<ft_status, ft_vaddr, bump_ptr>>
    BY <1>5, <2>1 DEF EvictWrap, Wrap, At, Strides, ft
  <2>3. QED
    BY <1>1, <1>2, <2>1, <2>2
<1>6. CASE EvictZero(p)
  <2>1. /\ Strides(p, "evict") /\ pc[p] = "evict_zero" /\ UNCHANGED <<ft_status, ft_vaddr>>
        /\ bump_ptr' = 0
    BY <1>6 DEF EvictZero, Zero, At, Strides, ft
  <2>2. QED
    BY <1>1, <1>2, <2>1
<1>7. CASE SetEmpty(p)
  <2>1. /\ Strides(p, "entry") /\ pc[p] = "empty" /\ UNCHANGED <<ft_vaddr, bump_ptr>>
        /\ ft_status' = [ft_status EXCEPT ![bump_ptr] = "EMPTY"]
    BY <1>7 DEF SetEmpty, At, Strides
  <2>2. ft_status' \in [Frame -> {"EMPTY", "FULL"}]
    BY <2>1
  <2>3. QED
    BY <1>1, <1>2, <2>1, <2>2
<1>8. CASE Clear(p)
  <2>1. /\ UNCHANGED <<ft, bump_ptr, spt, swap, store, local, world>> /\ pc[p] = "clear"
        /\ Goto(p, "turn")
        /\ pte' = IF Hand \in Page THEN [pte EXCEPT ![p][Hand].accessed = FALSE] ELSE pte
    BY <1>8 DEF Clear, SetNotAccessed, At
  <2>2. FALSE \in BOOLEAN /\ "turn" \in Clocking /\ "clear" \in Clocking
    BY <1>1
  <2>3. pte' \in [Proc -> [Page -> PTE]]
    BY <2>1, <2>2, AccessedSet
  <2>4. "turn" \in Label /\ "turn" \notin Parting /\ pc[p] \notin Outside
    BY <2>1, <2>2, Places
  <2>5. Placing' /\ pc' \in [Proc -> Label]
    BY <2>1, <2>4, MoveStep DEF ft, local
  <2>6. QED
    BY <2>1, <2>3, <2>5, NextTypes DEF ft, swap, store, local, world
<1>9. QED
  BY <1>3, <1>4, <1>5, <1>6, <1>7, <1>8

\* evict_page has its victim.
LEMMA VictimTypes ==
  ASSUME Types, Placing, NEW p \in Proc, Victim(p) \/ DirtyTest(p) \/ Remember(p)
  PROVE  Types' /\ Placing'
<1> USE TypeFacts
<1>1. /\ {"dirty", "remember", "save", "unmap"} \subseteq Parting /\ "entry" \notin Outside
      /\ "exit" \in Label /\ "exit" \in Outside /\ "exit" \notin Parting
      /\ {"dirty", "remember", "save", "unmap"} \subseteq Label
      /\ {"search", "bump", "fill", "install", "swap_out"} \cap {"dirty", "remember", "save", "unmap"} = {}
  BY DEF Parting, Outside, Label
<1>2. CASE Victim(p)
  <2>1. /\ UNCHANGED <<ft, bump_ptr, pte, swap, store, arg, total, got, vaddr, slot, world>>
        /\ pc[p] = "entry" /\ bump_ptr \in Frame
    BY <1>2 DEF Victim, At, HandInTable
  <2>2. CASE HandEntry(p).entry
    <3>1. /\ victim' = [victim EXCEPT ![p] = Hand] /\ Goto(p, "dirty")
          /\ spt' = [spt EXCEPT ![p][Hand].resident_bit = FALSE]
      BY <1>2, <2>2 DEF Victim
    <3>2. Hand \in Page
      BY <2>2, NoField DEF HandEntry
    <3>3. spt' \in [Proc -> [Page -> SPTE]]
      BY <3>1, <3>2, PartEffect DEF Parted
    <3>4. /\ victim' \in [Proc -> Page \cup {NONE}] /\ victim'[p] \in Page
          /\ \A q \in Proc : q # p => victim'[q] = victim[q]
      BY <3>1, <3>2
    <3>5. /\ machine' = machine /\ pc[p] # "gone" /\ pc[p] \notin Outside
          /\ "dirty" \in Label /\ "dirty" \notin {"search", "bump", "fill", "install", "swap_out"}
      BY <1>1, <2>1 DEF ft
    <3>a. Placing' /\ pc' \in [Proc -> Label]
      BY <2>1, <3>1, <3>4, <3>5, MoveStep
    <3>6. QED
      BY <2>1, <3>3, <3>4, <3>a, NextTypes DEF ft, swap, store, world
  <2>3. CASE ~HandEntry(p).entry
    <3>1. Goto(p, "exit") /\ UNCHANGED <<victim, spt>>
      BY <1>2, <2>3 DEF Victim
    <3>2. Placing' /\ pc' \in [Proc -> Label]
      BY <1>1, <2>1, <3>1, MoveStep DEF ft
    <3>3. QED
      BY <2>1, <3>1, <3>2, NextTypes DEF ft, swap, store, world
  <2>4. QED
    BY <2>2, <2>3
<1>3. CASE DirtyTest(p)
  <2>1. PICK label \in {"remember", "unmap"} : Goto(p, label)
    BY <1>3 DEF DirtyTest
  <2>2. Strides(p, label) /\ pc[p] = "dirty" /\ UNCHANGED <<ft_status, ft_vaddr, bump_ptr>>
    BY <1>3, <2>1 DEF DirtyTest, At, Strides, ft
  <2>3. victim[p] \in Page
    BY <1>1, <2>2 DEF Placing, Placed
  <2>4. pc[p] \notin Outside /\ label \in Label /\ label \notin {"search", "bump", "fill", "install", "swap_out"}
    BY <1>1, <2>1, <2>2 DEF Outside
  <2>5. QED
    BY <2>2, <2>3, <2>4, StrideTypes
<1>4. CASE Remember(p)
  <2>1. /\ UNCHANGED <<ft, bump_ptr, pte, swap, store, local, world>> /\ Goto(p, "save")
        /\ spt' = [spt EXCEPT ![p][victim[p]] = Remembered(@, HandPte(p).dirty)]
        /\ pc[p] = "remember"
    BY <1>4 DEF Remember, At
  <2>2. victim[p] \in Page
    BY <1>1, <2>1 DEF Placing, Placed
  <2>3. HandPte(p).dirty \in BOOLEAN
    <3>1. NoPte.dirty \in BOOLEAN
      BY DEF NoPte
    <3>2. ASSUME Hand \in Page PROVE pte[p][Hand].dirty \in BOOLEAN
      <4>1. pte[p][Hand] \in PTE
        BY <3>2
      <4>2. QED
        BY <4>1, PteFields
    <3>3. QED
      BY <3>1, <3>2 DEF HandPte
  <2>4. spt' \in [Proc -> [Page -> SPTE]]
    BY <2>1, <2>2, <2>3, NoteEffect DEF Noted
  <2>5. Placing' /\ pc' \in [Proc -> Label]
    BY <1>1, <2>1, <2>2, Places, MoveStep, ZenonT(30) DEF ft, local
  <2>6. QED
    BY <2>1, <2>4, <2>5, NextTypes DEF ft, swap, store, local, world
<1>5. QED
  BY <1>2, <1>3, <1>4

\* The search for a free slot.
LEMMA SaveTypes ==
  ASSUME Types, Placing, NEW p \in Proc, Save(p) \/ FindSlot(p)
  PROVE  Types' /\ Placing'
<1> USE TypeFacts
<1>1. /\ {"save", "slots", "swap_out"} \subseteq Parting /\ machine.entries \in Nat
      /\ {"slots", "swap_out"} \subseteq Label /\ {"save", "slots"} \cap Outside = {}
      /\ "exit" \in Label /\ "exit" \in Outside /\ "exit" \notin Parting
  BY MachineFacts DEF Parting, Outside, Label
<1>2. CASE Save(p)
  <2>1. /\ UNCHANGED <<ft, bump_ptr, pte, spt, swap, store, arg, total, got, victim, world>>
        /\ vaddr' = [vaddr EXCEPT ![p] = Hand] /\ slot' = [slot EXCEPT ![p] = 0]
        /\ Goto(p, "slots") /\ pc[p] = "save" /\ bump_ptr \in Frame
    BY <1>2 DEF Save, At, HandInTable
  <2>2. 0 \in SlotNumber
    BY <1>1, SMT DEF SlotNumber
  <2>3. /\ vaddr' \in [Proc -> Page \cup {NONE}] /\ slot' \in [Proc -> SlotNumber]
        /\ \A q \in Proc : q # p => slot'[q] = slot[q]
    BY <2>1, <2>2 DEF Hand
  <2>4. victim[p] \in Page
    BY <1>1, <2>1 DEF Placing, Placed
  <2>5. Placing' /\ pc' \in [Proc -> Label]
    BY <1>1, <2>1, <2>3, <2>4, MoveStep DEF ft
  <2>6. QED
    BY <2>1, <2>3, <2>5, NextTypes DEF ft, swap, store, world
<1>3. CASE FindSlot(p)
  <2>1. /\ UNCHANGED <<ft, bump_ptr, pte, swap, store, arg, total, got, victim, vaddr, world>>
        /\ pc[p] = "slots"
    BY <1>3 DEF FindSlot, At
  <2>2. victim[p] \in Page
    BY <1>1, <2>1 DEF Placing, Placed
  <2>3. CASE /\ spt' = [spt EXCEPT ![p][victim[p]].swap_index = NONE]
             /\ Goto(p, "exit") /\ UNCHANGED slot
    <3>1. NONE \in SwapIndex
      BY DEF SwapIndex
    <3>2. spt' \in [Proc -> [Page -> SPTE]]
      BY <2>2, <2>3, <3>1, IndexEffect DEF Moved
    <3>3. Placing' /\ pc' \in [Proc -> Label]
      BY <1>1, <2>1, <2>3, MoveStep DEF ft
    <3>4. QED
      BY <2>1, <2>3, <3>2, <3>3, NextTypes DEF ft, swap, store, world
  <2>4. CASE /\ slot[p] \in Slot /\ slot' = [slot EXCEPT ![p] = @ + 1]
             /\ UNCHANGED <<spt, pc>>
    <3>1. slot[p] + 1 \in SlotNumber
      BY <1>1, <2>4, SMT DEF Slot, SlotNumber
    <3>2. slot' \in [Proc -> SlotNumber] /\ \A q \in Proc : q # p => slot'[q] = slot[q]
      BY <2>4, <3>1
    <3>3. Frame' = Frame /\ max_frame' = max_frame /\ Slot' = Slot /\ machine' = machine
      BY <2>1, SameSets DEF ft
    <3>4. ASSUME NEW q \in Proc PROVE Placed(q)'
      <4>1. Placed(q)
        BY DEF Placing
      <4>2. pc'[q] = "swap_out" => slot'[q] = slot[q]
        BY <2>1, <2>4, <3>2
      <4>3. QED
        BY <2>1, <2>4, <3>3, <4>1, <4>2 DEF Placed
    <3>5. QED
      BY <2>1, <2>4, <3>2, <3>4, NextTypes DEF ft, swap, store, world, Placing
  <2>5. CASE slot[p] \in Slot /\ Goto(p, "swap_out") /\ UNCHANGED <<spt, slot>>
    <3>1. Placing' /\ pc' \in [Proc -> Label]
      BY <1>1, <2>1, <2>2, <2>5, Places, MoveStep DEF ft
    <3>2. QED
      BY <2>1, <2>5, <3>1, NextTypes DEF ft, swap, store, world
  <2>6. QED
    BY <1>3, <2>3, <2>4, <2>5 DEF FindSlot
<1>4. QED
  BY <1>2, <1>3

\* A page that lookup_page finds for add_swap_entry is one of the pages of p.
LEMMA VaddrIsPage ==
  ASSUME NEW p \in Proc, VaddrPte(p).present
  PROVE  vaddr[p] \in Page /\ VaddrPte(p) = pte[p][vaddr[p]]
<1>1. ~NoPte.present
  BY DEF NoPte
<1>2. QED
  BY <1>1 DEF VaddrPte

\* The other steps of evict_page.
LEMMA EvictTypes ==
  ASSUME Types, Placing, NEW p \in Proc, SwapOut(p) \/ Unmap(p) \/ Stray(p)
  PROVE  Types' /\ Placing'
<1> USE TypeFacts
<1>1. /\ {"unmap", "take"} \subseteq Label /\ {"swap_out", "unmap"} \cap Outside = {}
      /\ {"swap_out", "unmap"} \subseteq Parting /\ "take" \notin Parting
  BY DEF Label, Outside, Parting
<1>2. CASE SwapOut(p) /\ VaddrPte(p).present
  <2>1. /\ UNCHANGED <<ft, bump_ptr, store, local, freed>> /\ kernel' = kernel
        /\ pc[p] = "swap_out" /\ Goto(p, "unmap")
        /\ swap_tid' = [swap_tid EXCEPT ![slot[p]] = p]
        /\ spt' = [spt EXCEPT ![p][victim[p]].swap_index = slot[p]]
        /\ pte' = [pte EXCEPT ![p][vaddr[p]].accessed = TRUE]
    BY <1>2 DEF SwapOut, At
  <2>2. TRUE \in BOOLEAN /\ vaddr[p] \in Page
    BY <1>2, VaddrIsPage
  <2>3. pte' \in [Proc -> [Page -> PTE]]
    BY <2>1, <2>2, AccessedSet
  <2>4. slot[p] \in Slot /\ victim[p] \in Page
    BY <1>1, <2>1 DEF Placing, Placed
  <2>5. spt' \in [Proc -> [Page -> SPTE]]
    <3>1. slot[p] \in SwapIndex
      BY <2>4 DEF SwapIndex
    <3>2. QED
      BY <2>1, <2>4, <3>1, IndexEffect DEF Moved
  <2>6. swap_tid' \in [Slot -> Proc \cup {NONE}]
    BY <2>1
  <2>7. Placing' /\ pc' \in [Proc -> Label]
    BY <1>1, <2>1, <2>4, MoveStep DEF ft, local
  <2>8. QED
    BY <2>1, <2>3, <2>5, <2>6, <2>7, NextTypes DEF ft, store, local
<1>3. CASE (SwapOut(p) /\ ~VaddrPte(p).present) \/ Stray(p)
  <2>1. /\ UNCHANGED <<ft, bump_ptr, pte, spt, swap, store, pc, local, freed>>
        /\ kernel' \in {"up", "panic", "wild"}
    BY <1>3 DEF SwapOut, Stray
  <2>2. Placing'
    BY <2>1, SameSets DEF Placing, Placed, ft, local
  <2>3. QED
    BY <2>1, <2>2, NextTypes DEF ft, swap, store, local
<1>4. CASE Unmap(p)
  <2>1. /\ UNCHANGED <<ft, bump_ptr, spt, swap, store, local, world>>
        /\ pte' = IF Hand \in Page THEN [pte EXCEPT ![p][Hand].present = FALSE] ELSE pte
        /\ Goto(p, "take") /\ pc[p] = "unmap"
    BY <1>4 DEF Unmap, At
  <2>2. pte' \in [Proc -> [Page -> PTE]]
    BY <2>1, PresentCleared
  <2>3. Placing' /\ pc' \in [Proc -> Label]
    BY <1>1, <2>1, MoveStep DEF ft, local
  <2>4. QED
    BY <2>1, <2>2, <2>3, NextTypes DEF ft, swap, store, local, world
<1>5. QED
  BY <1>2, <1>3, <1>4

\* page_fault fetches the contents.
LEMMA FillTypes ==
  ASSUME Types, Placing, NEW p \in Proc, FillSwap(p) \/ FillFile(p)
  PROVE  Types' /\ Placing'
<1> USE TypeFacts
<1>1. /\ {"install", "exit"} \subseteq Label /\ "fill" \notin Outside /\ "exit" \in Outside
      /\ {"install", "exit"} \cap Parting = {}
  BY DEF Label, Outside, Parting
<1>2. pc[p] = "fill" /\ got[p] \in Frame /\ arg[p] \in Page
  <2>1. pc[p] = "fill"
    BY DEF FillSwap, FillFile, At
  <2>2. got[p] \in Frame /\ arg[p] \in machine.page
    BY <1>1, <2>1 DEF Placing, Placed
  <2>3. QED
    BY <2>1, <2>2, MachineFacts
<1>3. UNCHANGED <<ft, bump_ptr, pte, swap_data, written, local, world>>
  BY DEF FillSwap, FillFile, swap
<1>4. CASE FillFile(p)
  <2>1. spt' = spt /\ swap_tid' = swap_tid /\ Goto(p, "install") /\ FileRead(p, arg[p])
    BY <1>4 DEF FillFile, swap
  <2>2. mem' = [f \in Frame |-> mem'[f]]
    BY <2>1, MemSet DEF FileRead
  <2>3. Placing' /\ pc' \in [Proc -> Label]
    BY <1>1, <1>2, <1>3, <2>1, MoveStep DEF ft, local
  <2>4. QED
    BY <1>3, <2>1, <2>2, <2>3, NextTypes DEF ft, local, world
<1>5. CASE FillSwap(p)
  <2>1. PICK i : i = spt[p][arg[p]].swap_index
    OBVIOUS
  <2>2. CASE i = NONE \/ swap_tid[i] = NONE
    <3>1. Goto(p, "exit") /\ UNCHANGED <<spt, swap_tid, mem>>
      BY <1>5, <2>1, <2>2 DEF FillSwap
    <3>2. Placing' /\ pc' \in [Proc -> Label]
      BY <1>1, <1>2, <1>3, <3>1, MoveStep DEF ft, local
    <3>3. QED
      BY <1>3, <3>1, <3>2, NextTypes DEF ft, local, world
  <2>3. CASE ~(i = NONE \/ swap_tid[i] = NONE)
    <3>1. /\ mem' = [mem EXCEPT ![got[p]] = swap_data[i]]
          /\ swap_tid' = [swap_tid EXCEPT ![i] = NONE]
          /\ spt' = [spt EXCEPT ![p][arg[p]].swap_index = NONE] /\ Goto(p, "install")
      BY <1>5, <2>1, <2>3 DEF FillSwap, FreeSlot
    <3>2. mem' = [f \in Frame |-> mem'[f]]
      BY <3>1, MemSet
    <3>3. swap_tid' \in [Slot -> Proc \cup {NONE}]
      BY <3>1
    <3>4. NONE \in SwapIndex
      BY DEF SwapIndex
    <3>5. spt' \in [Proc -> [Page -> SPTE]]
      BY <1>2, <3>1, <3>4, IndexEffect DEF Moved
    <3>6. Placing' /\ pc' \in [Proc -> Label]
      BY <1>1, <1>2, <1>3, <3>1, MoveStep DEF ft, local
    <3>7. QED
      BY <1>3, <3>2, <3>3, <3>5, <3>6, NextTypes DEF ft, local, world
  <2>4. QED
    BY <2>2, <2>3
<1>6. QED
  BY <1>4, <1>5

\* install_page.
LEMMA InstallTypes ==
  ASSUME Types, Placing, NEW p \in Proc, Install(p)
  PROVE  Types' /\ Placing'
<1> USE TypeFacts
<1>1. /\ {"user", "exit"} \subseteq Label /\ {"user", "exit"} \subseteq Outside
      /\ "install" \notin Outside /\ {"user", "exit"} \cap Parting = {}
  BY DEF Label, Outside, Parting
<1>2. pc[p] = "install" /\ got[p] \in Frame /\ arg[p] \in Page
  <2>1. pc[p] = "install"
    BY DEF Install, At
  <2>2. got[p] \in Frame /\ arg[p] \in machine.page
    BY <1>1, <2>1 DEF Placing, Placed
  <2>3. QED
    BY <2>1, <2>2, MachineFacts
<1>3. UNCHANGED <<ft, bump_ptr, swap, local, world>>
  BY DEF Install
<1>4. CASE Present(p, arg[p])
  <2>1. Goto(p, "exit") /\ UNCHANGED <<pte, spt, store>>
    BY <1>4 DEF Install, Present
  <2>2. Placing' /\ pc' \in [Proc -> Label]
    BY <1>1, <1>2, <1>3, <2>1, MoveStep DEF ft, local
  <2>3. QED
    BY <1>3, <2>1, <2>2, NextTypes DEF ft, swap, store, local, world
<1>5. CASE ~Present(p, arg[p])
  <2>1. /\ \/ mem' = [mem EXCEPT ![got[p]] = FromWrite(p, arg[p])]
           \/ mem' = mem
        /\ \/ written' = [written EXCEPT ![p] = @ \cup {arg[p]}]
           \/ written' = written
        /\ Goto(p, "user")
    BY <1>5 DEF Install, Present
  <2>2. mem' = [f \in Frame |-> mem'[f]]
    BY <2>1, MemSet
  <2>3. written' \in [Proc -> SUBSET Page]
    <3>1. written[p] \cup {arg[p]} \in SUBSET Page
      BY <1>2
    <3>2. QED
      BY <2>1, <3>1
  <2>4. pte' \in [Proc -> [Page -> PTE]] /\ spt' \in [Proc -> [Page -> SPTE]]
    BY <1>2, <1>5, InstallEffect DEF Installed
  <2>5. Placing' /\ pc' \in [Proc -> Label]
    BY <1>1, <1>2, <1>3, <2>1, MoveStep DEF ft, local
  <2>6. QED
    BY <1>3, <2>2, <2>3, <2>4, <2>5, NextTypes DEF ft, swap, local, world
<1>6. QED
  BY <1>4, <1>5

\* process_exit.
LEMMA ExitTypes ==
  ASSUME Types, Placing, Backed, NEW p \in Proc, Exit(p)
  PROVE  Types' /\ Placing'
<1> USE TypeFacts
<1>1. "gone" \in Label /\ "gone" \in Outside /\ "gone" \notin Parting
  BY DEF Label, Outside, Parting
<1> DEFINE frames == {pte[p][v].frame : v \in Mapped(p)}
           ok == ~(frames \cap freed # {} \/ Cardinality(frames) # Cardinality(Mapped(p)))
<1>2. UNCHANGED <<ft, bump_ptr, spt, swap, written, local>> /\ pc[p] = "exit"
  BY DEF Exit, At
<1>3. CASE ~ok
  <2>1. kernel' = "panic" /\ UNCHANGED <<freed, mem, pte, pc>>
    BY <1>3 DEF Exit
  <2>2. Placing'
    BY <1>2, <2>1, SameSets DEF Placing, Placed, ft, local
  <2>3. QED
    BY <1>2, <2>1, <2>2, NextTypes DEF ft, swap, local
<1>4. CASE ok
  <2>1. /\ freed' = freed \cup frames
        /\ mem' = [f \in Frame |-> IF f \in frames THEN Junk ELSE mem[f]]
        /\ pte' = [pte EXCEPT ![p] = [v \in Page |-> NoPte]]
        /\ Goto(p, "gone") /\ kernel' = kernel
    BY <1>4 DEF Exit
  <2>2. pte' \in [Proc -> [Page -> PTE]]
    <3>1. NoPte \in PTE
      BY DEF NoPte, PTE
    <3>2. [v \in Page |-> NoPte] \in [Page -> PTE]
      BY <3>1
    <3>3. QED
      BY <2>1, <3>2
  <2>3. mem' = [f \in Frame |-> mem'[f]]
    <3> HIDE DEF frames
    <3>1. QED
      BY <2>1, SMT
  <2>5. Placing' /\ pc' \in [Proc -> Label]
    BY <1>1, <1>2, <2>1, MoveStep DEF ft, local
  <2>6. freed' \subseteq Frame
    <3>1. \A v \in Mapped(p) : pte[p][v].frame \in Frame
      BY DEF Mapped, Backed, Present
    <3>2. frames \subseteq Frame
      BY <3>1
    <3> HIDE DEF frames
    <3>3. QED
      BY <2>1, <3>2
  <2>7. QED
    BY <1>2, <2>1, <2>2, <2>3, <2>5, <2>6, NextTypes DEF ft, swap, local
<1>5. QED
  BY <1>3, <1>4

\* Every step keeps Backed: only install_page maps a page, in the frame it was given.
LEMMA BackedStep ==
  ASSUME Types, Placing, Backed, [Next]_vars
  PROVE  Backed'
<1>0. PteType
  BY TypeFacts
<1>1. machine' = machine /\ Frame' = Frame
  BY SameMachine, SameSets
<1>2. ASSUME NEW p \in Proc, SamePte(p), NEW v \in Page, Present(p, v)'
      PROVE  pte'[p][v].frame \in Frame /\ p \in machine.proc
  BY <1>2 DEF SamePte, Backed
<1>3. CASE pte' = pte
  BY <1>1, <1>3 DEF Backed, Present
<1>4. ASSUME NEW p \in Proc, NEW v \in machine.page, Read(p, v) PROVE Backed'
  <2>1. v \in Page /\ TRUE \in BOOLEAN /\ pte' = [pte EXCEPT ![p][v].accessed = TRUE]
    BY <1>4, MachineFacts DEF Read
  <2>2. \A q \in Proc : SamePte(q)
    BY <2>1, <1>0, AccessedSet
  <2>3. QED
    BY <1>1, <1>2, <2>2 DEF Backed
<1>5. ASSUME NEW p \in Proc, NEW v \in machine.page, Write(p, v) PROVE Backed'
  <2>1. /\ v \in Page
        /\ pte' = [pte EXCEPT ![p][v] = [@ EXCEPT !.accessed = TRUE, !.dirty = TRUE]]
    BY <1>5, MachineFacts DEF Write
  <2>2. /\ \A w \in Page : Present(p, w)' = Present(p, w) /\ pte'[p][w].frame = pte[p][w].frame
        /\ \A q \in Proc : q # p => SamePte(q)
    BY <2>1, <1>0, DirtySet
  <2>3. QED
    BY <1>1, <1>2, <2>2 DEF Backed
<1>6. ASSUME NEW p \in Proc, Clear(p), Hand \in Page PROVE Backed'
  <2>1. FALSE \in BOOLEAN /\ pte' = [pte EXCEPT ![p][Hand].accessed = FALSE]
    BY <1>6 DEF Clear, SetNotAccessed
  <2>2. \A q \in Proc : SamePte(q)
    BY <1>0, <1>6, <2>1, AccessedSet
  <2>3. QED
    BY <1>1, <1>2, <2>2 DEF Backed
<1>7. ASSUME NEW p \in Proc, SwapOut(p), VaddrPte(p).present PROVE Backed'
  <2>1. /\ vaddr[p] \in Page /\ TRUE \in BOOLEAN
        /\ pte' = [pte EXCEPT ![p][vaddr[p]].accessed = TRUE]
    BY <1>7, VaddrIsPage DEF SwapOut
  <2>2. \A q \in Proc : SamePte(q)
    BY <2>1, <1>0, AccessedSet
  <2>3. QED
    BY <1>1, <1>2, <2>2 DEF Backed
<1>8. ASSUME NEW p \in Proc, Unmap(p), Hand \in Page PROVE Backed'
  <2>1. pte' = [pte EXCEPT ![p][Hand].present = FALSE]
    BY <1>8 DEF Unmap
  <2>2. /\ ~pte'[p][Hand].present
        /\ \A w \in Page : w # Hand => pte'[p][w] = pte[p][w]
        /\ \A q \in Proc : q # p => SamePte(q)
    BY <1>8, <2>1, <1>0, PresentCleared
  <2>3. QED
    BY <1>1, <1>2, <2>2 DEF Backed, Present
<1>9. ASSUME NEW p \in Proc, Install(p), ~Present(p, arg[p]) PROVE Backed'
  <2>1. got[p] \in Frame /\ arg[p] \in Page
    BY <1>9, MachineFacts DEF Install, At, Placing, Placed, Outside
  <2>2. PICK v \in Page : v = arg[p]
    BY <2>1
  <2>3. Install(p) /\ got[p] \in Frame /\ ~Present(p, v)
    BY <1>9, <2>1, <2>2
  <2>4. PICK d, e, g : Installed(p, v, d, e, g)
    BY <2>2, <2>3, InstallEffect
  <2>5. SetsEntry(pte, pte', p, v, g) /\ g.frame \in Frame /\ p \in machine.proc
    BY <1>9, <2>1, <2>4 DEF Installed, Install, At, Placing, Placed
  <2>6. QED
    BY <1>1, <2>5 DEF Backed, Present, SetsEntry
<1>10. ASSUME NEW p \in Proc, Exit(p), pte' # pte PROVE Backed'
  <2>1. pte' = [pte EXCEPT ![p] = [v \in Page |-> NoPte]]
    BY <1>10 DEF Exit
  <2>2. /\ \A v \in Page : pte'[p][v] = NoPte
        /\ \A q \in Proc : q # p => pte'[q] = pte[q]
    BY <1>0, <2>1 DEF PteType
  <2>3. ~NoPte.present
    BY DEF NoPte
  <2>4. QED
    BY <1>1, <2>2, <2>3 DEF Backed, Present
<1>11. CASE UNCHANGED vars
  BY <1>3, <1>11 DEF vars
<1>12. ASSUME NEW p \in Proc,
              \/ LoadSegment(p) \/ Search(p) \/ Bump(p) \/ SearchWrap(p) \/ SearchZero(p)
              \/ Claim(p) \/ Name(p) \/ Take(p) \/ FillSwap(p) \/ FillFile(p) \/ Leave(p)
       PROVE  Backed'
  BY <1>3, <1>12 DEF LoadSegment, Search, Bump, SearchWrap, SearchZero, Wrap, Zero, Claim, Name,
     Take, FillSwap, FillFile, Leave
<1>a. ASSUME NEW p \in Proc,
             \/ EvictTest(p) \/ Turn(p) \/ EvictWrap(p) \/ EvictZero(p) \/ SetEmpty(p)
             \/ Victim(p) \/ DirtyTest(p) \/ Remember(p) \/ Save(p) \/ FindSlot(p) \/ Stray(p)
      PROVE  Backed'
  BY <1>3, <1>a DEF EvictTest, Turn, EvictWrap, EvictZero, Wrap, Zero, SetEmpty, Victim, DirtyTest,
     Remember, Save, FindSlot, Stray
<1>13. ASSUME NEW p \in Proc, Clear(p) \/ SwapOut(p) \/ Unmap(p) \/ Install(p) PROVE Backed'
  <2>a. CASE Clear(p) /\ Hand \notin Page
    BY <1>3, <2>a DEF Clear, SetNotAccessed
  <2>1. CASE SwapOut(p) /\ ~VaddrPte(p).present
    BY <1>3, <2>1 DEF SwapOut
  <2>2. CASE Unmap(p) /\ Hand \notin Page
    BY <1>3, <2>2 DEF Unmap
  <2>3. CASE Install(p) /\ Present(p, arg[p])
    BY <1>3, <2>3 DEF Install, Present
  <2>4. QED
    BY <1>6, <1>7, <1>8, <1>9, <1>13, <2>a, <2>1, <2>2, <2>3
<1>14. ASSUME NEW p \in Proc, NEW v \in machine.page, Fault(p, v) \/ FaultGrow(p, v) PROVE Backed'
  BY <1>3, <1>14 DEF Fault, FaultGrow
<1>15. QED
  BY <1>3, <1>4, <1>5, <1>10, <1>11, <1>12, <1>13, <1>14, <1>a DEF Next, Handler, User, Stopped

\* The types, at every step.
LEMMA StepTypes ==
  ASSUME Types, Placing, Backed, [Next]_vars
  PROVE  Types' /\ Placing' /\ Backed'
<1>1. CASE UNCHANGED vars
  <2>1. Types'
    BY <1>1, TypeFacts, NextTypes DEF vars, ft, swap, store, local, world
  <2>2. Placing'
    BY <1>1, SameSets DEF Placing, Placed, vars, ft, local
  <2>3. QED
    BY <2>1, <2>2, BackedStep
<1>2. ASSUME NEW p \in Proc, Handler(p) PROVE Types' /\ Placing'
  BY <1>2, StartTypes, SearchTypes, TakeTypes, ScanTypes, VictimTypes, SaveTypes, EvictTypes,
     FillTypes, InstallTypes, ExitTypes DEF Handler
<1>3. ASSUME NEW p \in Proc, User(p) PROVE Types' /\ Placing'
  BY <1>3, StartTypes, UserTypes DEF User
<1>4. QED
  BY <1>1, <1>2, <1>3, BackedStep DEF Next, Stopped

\* The types, initially.
LEMMA InitTypes == Init => Types /\ Placing /\ Backed
<1> SUFFICES ASSUME Init PROVE Types /\ Placing /\ Backed
  OBVIOUS
<1>1. NoPte \in PTE /\ ~NoPte.present
  BY DEF NoPte, PTE
<1>2. machine \in Machine
  BY DEF Init
<1>3. /\ max_frame \in Nat /\ 0 < max_frame /\ 0 \in 0 .. max_frame /\ 0 \in Nat
  BY <1>2, VMAssumption, SMT DEF max_frame
<1>4. FrameTypes
  BY <1>2, <1>3 DEF Init, FrameTypes
<1>5. PteType /\ SptType /\ SwapType
  BY <1>1, NoField DEF Init, PteType, SptType, SwapType
<1>6. PlaceTypes
  BY <1>3 DEF Init, PlaceTypes, Label
<1>7. LocalTypes /\ WorldTypes
  BY DEF Init, LocalTypes, WorldTypes, SlotNumber
<1>8. StoreTypes
  <2>1. written \in [Proc -> SUBSET Page]
    BY DEF Init
  <2>2. mem = [f \in Frame |-> mem[f]]
    BY SMT DEF Init
  <2>3. QED
    BY <2>1, <2>2 DEF StoreTypes
<1>9. Placing
  BY DEF Init, Placing, Placed, Outside, Parting
<1>10. Backed
  BY <1>1 DEF Init, Backed, Present
<1>11. QED
  BY <1>4, <1>5, <1>6, <1>7, <1>8, <1>9, <1>10, TypeParts

(***************************************************************************)
(* The steps keep the tables of a lone process in agreement.               *)
(***************************************************************************)
Busy == Looping \cup {"fill", "install"}

\* The pages in swap stay the same.
LEMMA SlotsKept ==
  ASSUME NEW p \in Proc, Holding(p), Using(p), ~Sharing(p), machine' = machine,
         swap_tid' = swap_tid,
         \A v \in Page : InSwap(p, v)' = InSwap(p, v),
         \A v \in Page : InSwap(p, v) => Index(p, v)' = Index(p, v)
  PROVE  Holding(p)' /\ Using(p)' /\ ~Sharing(p)'
<1>1. Slot' = Slot
  BY SameSets
<1>2. Holding(p)'
  BY <1>1 DEF Holding
<1>3. Using(p)'
  BY <1>1 DEF Using
<1>4. ~Sharing(p)'
  BY DEF Sharing
<1>5. QED
  BY <1>2, <1>3, <1>4

\* A step that changes neither table, but perhaps accessed bits.
LEMMA QuietAlone ==
  ASSUME NEW p \in Proc, Alone(p), machine' = machine, SamePte(p), SameSpt(p),
         written'[p] = written[p], swap_tid' = swap_tid,
         pc[p] \in Busy \cup {"user"}, pc'[p] \in Busy \cup {"user"},
         \A v : Coming(p, v) => Coming(p, v)', Fetched(p)'
  PROVE  Alone(p)'
<1>1. Agreeing(p) /\ Saved(p) /\ Slotted(p)
  BY DEF Alone
<1>2. /\ pc[p] \notin Parting \cup {"start"} /\ pc'[p] \notin Parting \cup {"start"}
      /\ Storing \subseteq Parting /\ {"dirty", "remember", "swap_out"} \subseteq Parting
  <2>1. /\ "user" \notin Parting \cup {"start"} /\ "start" \notin {"fill", "install"}
        /\ "start" \in Outside /\ {"dirty", "remember", "swap_out"} \subseteq Parting
    BY DEF Parting, Outside
  <2>2. QED
    BY <2>1, Places DEF Busy
<1>3. Slot' = Slot
  BY SameSets
<1>4. \A v : ~Leaving(p, v) /\ ~Leaving(p, v)'
  BY <1>2 DEF Leaving
<1>5. \A v \in Page : /\ Present(p, v)' = Present(p, v) /\ Resident(p, v)' = Resident(p, v)
                      /\ Entry(p, v)' = Entry(p, v) /\ Dirty(p, v)' = Dirty(p, v)
                      /\ Index(p, v)' = Index(p, v)
                      /\ spt'[p][v].is_stack_page = spt[p][v].is_stack_page
                      /\ pte'[p][v].dirty = pte[p][v].dirty
  BY DEF SamePte, SameSpt, Resident, Entry, Dirty, Index
<1>6. Agreeing(p)'
  BY <1>1, <1>4, <1>5 DEF Agreeing
<1>7. Saved(p)'
  <2>1. \A v : ~Unsaved(p, v) /\ ~Unsaved(p, v)'
    BY <1>2 DEF Unsaved
  <2>2. QED
    BY <1>1, <1>5, <2>1 DEF Saved
<1>8. \A v \in Page : InSwap(p, v)' = InSwap(p, v)
  BY <1>2, <1>5, ZenonT(30) DEF InSwap
<1>9. Slotted(p)'
  <2>1. Holding(p) /\ Using(p) /\ ~Sharing(p)
    BY <1>1, <1>2 DEF Slotted
  <2>2. Holding(p)' /\ Using(p)' /\ ~Sharing(p)'
    BY <1>5, <1>8, <2>1, SlotsKept
  <2>3. QED
    BY <2>2 DEF Slotted
<1>10. Evicting(p)' /\ Saving(p)' /\ Fresh(p)'
  BY <1>2 DEF Evicting, Saving, Fresh
<1>11. QED
  BY <1>6, <1>7, <1>9, <1>10 DEF Alone

\* A step that changes nothing of it.
LEMMA SameAlone ==
  ASSUME NEW p \in Proc, Alone(p),
         UNCHANGED <<ft, bump_ptr, pte, spt, swap_tid, written, pc, local>>
  PROVE  Alone(p)'
<1>1. Slot' = Slot /\ Frame' = Frame /\ machine' = machine
  BY SameSets DEF ft
<1>2. \A v : /\ Present(p, v)' = Present(p, v) /\ Resident(p, v)' = Resident(p, v)
             /\ Entry(p, v)' = Entry(p, v) /\ Dirty(p, v)' = Dirty(p, v)
             /\ Index(p, v)' = Index(p, v) /\ InSwap(p, v)' = InSwap(p, v)
             /\ Leaving(p, v)' = Leaving(p, v) /\ Coming(p, v)' = Coming(p, v)
             /\ Unsaved(p, v)' = Unsaved(p, v)
  BY DEF Present, Resident, Entry, Dirty, Index, InSwap, Leaving, Coming, Unsaved, local
<1>3. Agreeing(p)' /\ Saved(p)'
  BY <1>2 DEF Alone, Agreeing, Saved
<1>4. Evicting(p)' /\ Saving(p)' /\ Fetched(p)' /\ Fresh(p)'
  BY <1>1, <1>2 DEF Alone, Evicting, Saving, Fetched, Fresh, HandInTable, Hand, ft, local
<1>5. Slotted(p)'
  <2>1. CASE pc[p] \in Storing /\ ~Present(p, victim[p])
    BY <1>2, <2>1 DEF Slotted, local
  <2>2. CASE ~(pc[p] \in Storing /\ ~Present(p, victim[p]))
    <3>1. Holding(p) /\ Using(p) /\ ~Sharing(p)
      BY <2>2 DEF Alone, Slotted
    <3>2. Holding(p)' /\ Using(p)' /\ ~Sharing(p)'
      BY <1>1, <1>2, <3>1, SlotsKept
    <3>3. QED
      BY <3>2 DEF Slotted
  <2>3. QED
    BY <2>1, <2>2
<1>6. QED
  BY <1>3, <1>4, <1>5 DEF Alone

\* The steps of the two loops.
LoopStep(p) ==
  \/ Search(p) \/ Bump(p) \/ SearchWrap(p) \/ SearchZero(p) \/ Claim(p) \/ Name(p) \/ Take(p)
  \/ EvictTest(p) \/ Clear(p) \/ Turn(p) \/ EvictWrap(p) \/ EvictZero(p) \/ SetEmpty(p)

\* They leave most of the tables as they are.
LEMMA LoopMoves ==
  ASSUME Types, NEW p \in Proc, LoopStep(p)
  PROVE  /\ pc[p] \in Looping /\ pc'[p] \in Looping \cup {"fill"}
         /\ arg' = arg /\ spt' = spt /\ written' = written /\ swap_tid' = swap_tid
         /\ Clear(p) \/ pte' = pte
<1>1. pc \in [Proc -> Label]
  BY TypeFacts
<1>2. \A label : Goto(p, label) => pc'[p] = label
  BY <1>1 DEF Goto
<1>3. /\ {"search", "bump", "wrap", "zero", "claim", "name", "take"} \subseteq Looping
      /\ {"evict", "clear", "turn", "evict_wrap", "evict_zero", "empty", "entry"} \subseteq Looping
  BY DEF Looping, Clocking
<1>4. Resume(p) \in {"evict", "search"}
  BY DEF Resume
<1>5. CASE \/ Search(p) \/ Bump(p) \/ SearchWrap(p) \/ SearchZero(p) \/ Claim(p) \/ Name(p)
           \/ Take(p)
  <2>1. /\ arg' = arg /\ spt' = spt /\ written' = written /\ swap_tid' = swap_tid /\ pte' = pte
    BY <1>5 DEF Search, Bump, SearchWrap, SearchZero, Wrap, Zero, Claim, Name, Take, local, store,
       swap
  <2>2. pc[p] \in {"search", "bump", "wrap", "zero", "claim", "name", "take"}
    BY <1>5 DEF Search, Bump, SearchWrap, SearchZero, Claim, Name, Take, At
  <2>3. PICK label \in {"bump", "claim", "wrap", "zero", Resume(p), "name", "take", "fill"} :
          Goto(p, label)
    BY <1>5 DEF Search, Bump, SearchWrap, SearchZero, Wrap, Zero, Claim, Name, Take
  <2>4. QED
    BY <1>2, <1>3, <1>4, <2>1, <2>2, <2>3
<1>6. CASE EvictTest(p) \/ Clear(p) \/ Turn(p) \/ EvictWrap(p) \/ EvictZero(p) \/ SetEmpty(p)
  <2>1. /\ arg' = arg /\ spt' = spt /\ written' = written /\ swap_tid' = swap_tid
        /\ Clear(p) \/ pte' = pte
    BY <1>6 DEF EvictTest, Clear, Turn, EvictWrap, EvictZero, Wrap, Zero, SetEmpty, local, store,
       swap
  <2>2. pc[p] \in {"evict", "clear", "turn", "evict_wrap", "evict_zero", "empty"}
    BY <1>6 DEF EvictTest, Clear, Turn, EvictWrap, EvictZero, SetEmpty, At
  <2>3. PICK label \in {"evict", "clear", "turn", "evict_wrap", "evict_zero", "empty", "entry"} :
          Goto(p, label)
    BY <1>6 DEF EvictTest, Clear, Turn, EvictWrap, EvictZero, Wrap, Zero, SetEmpty
  <2>4. QED
    BY <1>2, <1>3, <2>1, <2>2, <2>3
<1>7. QED
  BY <1>5, <1>6 DEF LoopStep

\* Where evict_page has no victim.
Calm(p) ==
  /\ pc[p] \notin Parting /\ pc[p] \notin Storing
  /\ \A v : ~Leaving(p, v) /\ ~Unsaved(p, v)
  /\ Evicting(p) /\ Saving(p)

\* What that means, in this state and in the next.
LEMMA CalmNow ==
  ASSUME NEW p \in Proc
  PROVE  (pc[p] \notin Parting => Calm(p)) /\ (pc'[p] \notin Parting => Calm(p)')
<1>1. Storing \subseteq Parting /\ {"dirty", "remember", "swap_out"} \subseteq Parting
  BY DEF Storing, Parting
<1>2. QED
  BY <1>1 DEF Calm, Leaving, Unsaved, Evicting, Saving

\* The steps that are quiet in this sense.
LEMMA QuietSteps ==
  ASSUME Types, Placing, NEW p \in Proc, Alone(p), machine' = machine,
         \/ \E v \in machine.page : Read(p, v) \/ Fault(p, v)
         \/ LoopStep(p) \/ FillFile(p)
  PROVE  Alone(p)'
<1>1. PteType /\ pc \in [Proc -> Label] /\ machine.page \subseteq Page
  BY TypeFacts, MachineFacts
<1>2. SameSpt(p) /\ written'[p] = written[p] /\ swap_tid' = swap_tid
  <2>1. CASE LoopStep(p)
    BY <2>1, LoopMoves DEF SameSpt
  <2>2. QED
    BY <2>1 DEF SameSpt, Read, Fault, FillFile, swap, store
<1>3. SamePte(p)
  <2>1. CASE pte' = pte
    BY <2>1 DEF SamePte, Present
  <2>2. CASE \E v \in machine.page : Read(p, v)
    <3>1. PICK v \in Page : pte' = [pte EXCEPT ![p][v].accessed = TRUE]
      BY <1>1, <2>2 DEF Read
    <3>2. TRUE \in BOOLEAN
      OBVIOUS
    <3>3. QED
      BY <1>1, <3>1, <3>2, AccessedSet
  <2>3. CASE Clear(p)
    <3>1. \/ Hand \in Page /\ pte' = [pte EXCEPT ![p][Hand].accessed = FALSE]
          \/ pte' = pte
      BY <2>3 DEF Clear, SetNotAccessed
    <3>2. FALSE \in BOOLEAN
      OBVIOUS
    <3>3. QED
      BY <1>1, <2>1, <3>1, <3>2, AccessedSet
  <2>4. QED
    BY <2>1, <2>2, <2>3, LoopMoves DEF Fault, FillFile
<1>4. CASE \E v \in machine.page : Read(p, v)
  <2>1. pc' = pc /\ arg' = arg /\ pc[p] = "user"
    BY <1>4 DEF Read, At, local
  <2>2. Fetched(p)' /\ \A v : Coming(p, v) => Coming(p, v)'
    BY <2>1 DEF Fetched, Coming
  <2>3. QED
    BY <1>2, <1>3, <2>1, <2>2, QuietAlone
<1>5. CASE \E v \in machine.page : Fault(p, v)
  <2>1. pc[p] = "user" /\ pc'[p] = "search"
    BY <1>1, <1>5 DEF Fault, At, GetUserPage, Goto
  <2>2. Fetched(p)' /\ \A v : ~Coming(p, v)
    BY <2>1 DEF Fetched, Coming, Outside
  <2>3. pc'[p] \in Busy
    BY <2>1 DEF Busy, Looping
  <2>4. QED
    BY <1>2, <1>3, <2>1, <2>2, <2>3, QuietAlone
<1>6. CASE LoopStep(p)
  <2>1. arg' = arg /\ pc[p] \in Looping /\ pc'[p] \in Looping \cup {"fill"}
    BY <1>6, LoopMoves
  <2>2. /\ pc[p] \in Busy /\ pc'[p] \in Busy /\ pc'[p] # "install"
        /\ pc[p] \notin Outside /\ pc'[p] \notin Outside
    BY <2>1, Places DEF Busy
  <2>3. Fetched(p)' /\ \A v : Coming(p, v) => Coming(p, v)'
    BY <2>1, <2>2 DEF Fetched, Coming
  <2>4. QED
    BY <1>2, <1>3, <2>2, <2>3, QuietAlone
<1>7. CASE FillFile(p)
  <2>1. /\ arg' = arg /\ pc[p] = "fill" /\ pc'[p] = "install" /\ spt' = spt
        /\ spt[p][arg[p]].resident_bit \/ ~spt[p][arg[p]].dirty_bit
    BY <1>1, <1>7 DEF FillFile, At, Goto, local
  <2>2. arg[p] \in Page
    BY <1>1, <2>1 DEF Placing, Placed, Outside
  <2>3. Fetched(p)'
    BY <2>1, <2>2 DEF Alone, Saved, Fetched, Resident, Dirty, Index, Entry
  <2>4. \A v : Coming(p, v) => Coming(p, v)'
    BY <2>1 DEF Coming, Outside
  <2>5. pc[p] \in Busy /\ pc'[p] \in Busy
    BY <2>1 DEF Busy
  <2>6. QED
    BY <1>2, <1>3, <2>3, <2>4, <2>5, QuietAlone
<1>8. QED
  BY <1>4, <1>5, <1>6, <1>7

\* A write to a page that is present.
LEMMA WriteAlone ==
  ASSUME Types, Placing, NEW p \in Proc, Alone(p), machine' = machine, NEW v \in Page, Write(p, v)
  PROVE  Alone(p)'
<1>1. /\ PteType /\ written \in [Proc -> SUBSET Page]
      /\ pte' = [pte EXCEPT ![p][v] = [@ EXCEPT !.accessed = TRUE, !.dirty = TRUE]]
      /\ written' = [written EXCEPT ![p] = @ \cup {v}] /\ pc[p] = "user" /\ Present(p, v)
      /\ spt' = spt /\ pc' = pc /\ arg' = arg /\ swap_tid' = swap_tid
  BY TypeFacts DEF Write, At, Present, local, swap
<1>c. Calm(p) /\ Calm(p)'
  BY <1>1, CalmNow DEF Parting
<1>2. \A w \in Page : /\ Present(p, w)' = Present(p, w)
                      /\ pte'[p][w].dirty = (pte[p][w].dirty \/ w = v)
  BY <1>1, DirtySet
<1>3. written'[p] = written[p] \cup {v}
  BY <1>1
<1>4. /\ \A w : ~Leaving(p, w) /\ ~Leaving(p, w)' /\ ~Coming(p, w) /\ ~Coming(p, w)'
      /\ \A w : /\ Resident(p, w)' = Resident(p, w) /\ Dirty(p, w)' = Dirty(p, w)
                /\ Index(p, w)' = Index(p, w) /\ Entry(p, w)' = Entry(p, w)
  BY <1>1, <1>c DEF Calm, Coming, Outside, Resident, Dirty, Index, Entry
<1>5. Agreeing(p)'
  BY <1>2, <1>4 DEF Alone, Agreeing
<1>6. Resident(p, v) /\ Entry(p, v)
  BY <1>1, <1>4 DEF Alone, Agreeing, Resident, Entry
<1>7. Saved(p)'
  BY <1>1, <1>2, <1>3, <1>4, <1>6, <1>c DEF Alone, Saved, Calm
<1>8. \A w \in Page : InSwap(p, w)' = InSwap(p, w)
  BY <1>4, <1>c DEF InSwap, Calm
<1>9. Slotted(p)'
  <2>1. Holding(p) /\ Using(p) /\ ~Sharing(p)
    BY <1>c DEF Alone, Slotted, Calm
  <2>2. Holding(p)' /\ Using(p)' /\ ~Sharing(p)'
    BY <1>1, <1>4, <1>8, <2>1, SlotsKept
  <2>3. QED
    BY <2>2 DEF Slotted
<1>10. Evicting(p)' /\ Saving(p)' /\ Fresh(p)' /\ Fetched(p)'
  BY <1>1, <1>c DEF Calm, Fresh, Fetched
<1>11. QED
  BY <1>5, <1>7, <1>9, <1>10 DEF Alone

\* load_segment.
LEMMA LoadAlone ==
  ASSUME Types, Placing, NEW p \in Proc, Alone(p), machine' = machine, LoadSegment(p)
  PROVE  Alone(p)'
<1>1. /\ pc[p] = "start" /\ pte' = pte /\ swap_tid' = swap_tid /\ written' = written
      /\ pc'[p] = "search"
  BY TypeFacts DEF LoadSegment, At, GetUserPage, Goto, swap, store
<1>c. Calm(p) /\ Calm(p)'
  BY <1>1, CalmNow DEF Parting
<1>2. /\ \A v \in Page : ~Present(p, v) /\ ~Entry(p, v)
      /\ written[p] = {} /\ \A i \in Slot : swap_tid[i] # p
  BY <1>1 DEF Alone, Fresh
<1>3. \A v \in Page : /\ ~spt'[p][v].is_stack_page /\ ~Resident(p, v)' /\ ~Dirty(p, v)'
                      /\ ~Present(p, v)'
  BY <1>1, <1>2, TypeFacts, LoadEffect DEF Resident, Dirty, Present
<1>4. Agreeing(p)' /\ Saved(p)'
  BY <1>1, <1>2, <1>3 DEF Agreeing, Saved
<1>5. \A v \in Page : ~InSwap(p, v)'
  BY <1>3 DEF InSwap
<1>6. Slot' = Slot
  BY SameSets
<1>7. Holding(p)' /\ Using(p)' /\ ~Sharing(p)'
  BY <1>1, <1>2, <1>5, <1>6 DEF Holding, Using, Sharing
<1>8. Slotted(p)'
  BY <1>7 DEF Slotted
<1>9. Evicting(p)' /\ Saving(p)' /\ Fresh(p)' /\ Fetched(p)'
  BY <1>1, <1>c DEF Calm, Fresh, Fetched
<1>10. QED
  BY <1>4, <1>8, <1>9 DEF Alone

\* What SetsEntry leaves.
LEMMA SptOthers ==
  ASSUME NEW p \in Proc, NEW v \in Page, NEW e, SetsEntry(spt, spt', p, v, e)
  PROVE  /\ Entry(p, v)' = e.entry /\ Resident(p, v)' = (e.entry /\ e.resident_bit)
         /\ Dirty(p, v)' = e.dirty_bit /\ Index(p, v)' = e.swap_index
         /\ spt'[p][v].is_stack_page = e.is_stack_page
         /\ \A w \in Page : w # v => /\ Entry(p, w)' = Entry(p, w)
                                     /\ Resident(p, w)' = Resident(p, w)
                                     /\ Dirty(p, w)' = Dirty(p, w) /\ Index(p, w)' = Index(p, w)
                                     /\ spt'[p][w].is_stack_page = spt[p][w].is_stack_page
  BY DEF SetsEntry, Entry, Resident, Dirty, Index

\* Stack growth.
LEMMA GrowAlone ==
  ASSUME Types, Placing, NEW p \in Proc, Alone(p), machine' = machine, NEW v \in Page,
         FaultGrow(p, v)
  PROVE  Alone(p)'
<1>1. /\ pc[p] = "user" /\ pte' = pte /\ swap_tid' = swap_tid /\ written' = written
      /\ pc'[p] = "search" /\ arg'[p] = v /\ ~Entry(p, v)
  BY TypeFacts DEF FaultGrow, At, GetUserPage, Goto, swap, store, Entry
<1>c. Calm(p) /\ Calm(p)'
  BY <1>1, CalmNow DEF Parting
<1>2. PICK e : /\ spt' \in [Proc -> [Page -> SPTE]] /\ SetsEntry(spt, spt', p, v, e)
               /\ e.entry /\ ~e.is_stack_page /\ e.resident_bit /\ ~e.dirty_bit
  BY TypeFacts, GrowEffect
<1>3. Entry(p, v)' /\ Resident(p, v)' /\ ~Dirty(p, v)' /\ ~spt'[p][v].is_stack_page
  BY <1>2, SptOthers
<1>4. \A w \in Page : w # v => /\ Entry(p, w)' = Entry(p, w)
                               /\ Resident(p, w)' = Resident(p, w)
                               /\ Dirty(p, w)' = Dirty(p, w) /\ Index(p, w)' = Index(p, w)
                               /\ spt'[p][w].is_stack_page = spt[p][w].is_stack_page
  BY <1>2, SptOthers
<1>5. \A w \in Page : Present(p, w)' = Present(p, w) /\ pte'[p][w].dirty = pte[p][w].dirty
  BY <1>1 DEF Present
<1>6. ~Resident(p, v) /\ ~InSwap(p, v) /\ ~InSwap(p, v)'
  BY <1>1, <1>3 DEF Resident, InSwap, Entry
<1>7. /\ \A w : ~Leaving(p, w) /\ ~Leaving(p, w)' /\ ~Coming(p, w)
      /\ Coming(p, v)'
  BY <1>1, <1>c DEF Calm, Coming, Outside
<1>8. ~Present(p, v) /\ v \notin written[p]
  BY <1>1, <1>6, <1>7 DEF Alone, Agreeing, Saved
<1>9. Agreeing(p)'
  BY <1>3, <1>4, <1>5, <1>7, <1>8 DEF Alone, Agreeing
<1>10. Saved(p)'
  BY <1>1, <1>3, <1>4, <1>5, <1>8, <1>c DEF Alone, Saved, Calm
<1>11. \A w \in Page : /\ InSwap(p, w)' = InSwap(p, w)
                       /\ InSwap(p, w) => Index(p, w)' = Index(p, w)
  BY <1>4, <1>6, <1>c DEF InSwap, Calm
<1>12. Slotted(p)'
  <2>1. Holding(p) /\ Using(p) /\ ~Sharing(p)
    BY <1>c DEF Alone, Slotted, Calm
  <2>2. Holding(p)' /\ Using(p)' /\ ~Sharing(p)'
    BY <1>1, <1>11, <2>1, SlotsKept
  <2>3. QED
    BY <2>2 DEF Slotted
<1>13. Evicting(p)' /\ Saving(p)' /\ Fresh(p)' /\ Fetched(p)'
  BY <1>1, <1>c DEF Calm, Fresh, Fetched
<1>14. QED
  BY <1>9, <1>10, <1>12, <1>13 DEF Alone

\* evict_page has its victim: it loses its frame and keeps its dirty bit.
LEMMA VictimAlone ==
  ASSUME Types, Placing, NEW p \in Proc, Alone(p), machine' = machine, Victim(p), pc'[p] # "exit"
  PROVE  Alone(p)'
<1>1. /\ pc[p] = "entry" /\ pte' = pte /\ swap_tid' = swap_tid /\ written' = written
      /\ arg' = arg /\ ft_vaddr' = ft_vaddr /\ bump_ptr' = bump_ptr
      /\ pc \in [Proc -> Label] /\ victim \in [Proc -> Page \cup {NONE}] /\ SptType
  BY TypeFacts DEF Victim, At, swap, store, ft
<1>2. HandEntry(p).entry
  BY <1>1 DEF Victim, Goto
<1>3. /\ victim' = [victim EXCEPT ![p] = Hand] /\ Goto(p, "dirty")
      /\ spt' = [spt EXCEPT ![p][Hand].resident_bit = FALSE]
  BY <1>2 DEF Victim
<1>4. PICK v \in Page : v = Hand /\ Entry(p, v)
  BY <1>2, NoField DEF HandEntry, Entry
<1>5. pc'[p] = "dirty" /\ victim'[p] = v
  BY <1>1, <1>3, <1>4 DEF Goto
<1>6. PICK d, e : Parted(p, v, d, e)
  BY <1>1, <1>3, <1>4, PartEffect
<1>7. SetsEntry(spt, spt', p, v, e)
  BY <1>6 DEF Parted
<1>8. /\ Entry(p, v)' /\ ~Resident(p, v)' /\ Dirty(p, v)' = Dirty(p, v)
      /\ Index(p, v)' = Index(p, v)
      /\ spt'[p][v].is_stack_page = spt[p][v].is_stack_page
  BY <1>4, <1>6, <1>7 DEF Parted, SetsEntry, Entry, Resident, Dirty, Index
<1>9. \A w \in Page : w # v => /\ Entry(p, w)' = Entry(p, w)
                               /\ Resident(p, w)' = Resident(p, w)
                               /\ Dirty(p, w)' = Dirty(p, w) /\ Index(p, w)' = Index(p, w)
                               /\ spt'[p][w].is_stack_page = spt[p][w].is_stack_page
  BY <1>7, SptOthers
<1>10. \A w \in Page : Present(p, w)' = Present(p, w) /\ pte'[p][w].dirty = pte[p][w].dirty
  BY <1>1 DEF Present
<1>11. Calm(p)
  BY <1>1, CalmNow DEF Parting
<1>12. /\ \A w : ~Leaving(p, w) /\ (Leaving(p, w)' <=> w = v)
       /\ \A w : ~Unsaved(p, w) /\ (Unsaved(p, w)' <=> w = v)
       /\ \A w : Coming(p, w)' = Coming(p, w)
  BY <1>1, <1>5, <1>11 DEF Calm, Leaving, Unsaved, Coming, Outside, Parting
<1>13. Agreeing(p)'
  BY <1>8, <1>9, <1>10, <1>12 DEF Alone, Agreeing
<1>14. Saved(p)'
  <2>1. Saved(p)
    BY DEF Alone
  <2>2. ASSUME NEW w \in Page, w # v
        PROVE  /\ w \in written'[p] =>
                    /\ Entry(p, w)'
                    /\ Dirty(p, w)' \/ ((Resident(p, w) \/ Unsaved(p, w))' /\ pte'[p][w].dirty)
                    /\ Resident(p, w)' => Present(p, w)'
               /\ spt'[p][w].is_stack_page => w \in written'[p]
               /\ Dirty(p, w)' => Entry(p, w)'
               /\ Resident(p, w)' /\ Dirty(p, w)' => Index(p, w)' = NONE
    BY <1>1, <1>9, <1>10, <1>12, <2>1, <2>2 DEF Saved
  <2>3. /\ v \in written'[p] => Dirty(p, v)' \/ pte'[p][v].dirty
        /\ spt'[p][v].is_stack_page => v \in written'[p]
    BY <1>1, <1>8, <1>10, <1>12, <2>1 DEF Saved
  <2>4. QED
    BY <1>8, <1>12, <2>2, <2>3 DEF Saved
<1>15. Evicting(p)'
  <2>1. (HandInTable => Hand = victim[p])'
    BY <1>1, <1>4, <1>5 DEF Hand
  <2>2. QED
    BY <1>5, <1>8, <2>1 DEF Evicting
<1>16. Saving(p)'
  <2>1. Present(p, v) /\ Dirty(p, v) => Index(p, v) = NONE
    BY <1>12 DEF Alone, Agreeing, Saved
  <2>2. pc'[p] \notin Storing /\ pc'[p] # "swap_out" /\ pc'[p] # "remember"
    BY <1>5 DEF Storing
  <2>3. QED
    BY <1>5, <1>8, <1>10, <2>1, <2>2 DEF Saving
<1>17. Slotted(p)'
  <2>1. Holding(p) /\ Using(p) /\ ~Sharing(p)
    BY <1>11 DEF Alone, Slotted, Calm
  <2>2. pc[p] \notin Storing /\ pc'[p] \notin Storing
    BY <1>1, <1>5 DEF Storing
  <2>3. Resident(p, v) /\ Dirty(p, v) => Index(p, v) = NONE
    BY DEF Alone, Saved
  <2>4. InSwap(p, v)' <=> InSwap(p, v)
    BY <1>4, <1>8, <2>2, <2>3 DEF InSwap
  <2>5. \A w \in Page : w # v => InSwap(p, w)' = InSwap(p, w)
    BY <1>9, <2>2 DEF InSwap
  <2>6. InSwap(p, v) \in BOOLEAN /\ InSwap(p, v)' \in BOOLEAN
    BY DEF InSwap
  <2>7. \A w \in Page : InSwap(p, w)' = InSwap(p, w) /\ Index(p, w)' = Index(p, w)
    BY <1>8, <1>9, <2>4, <2>5, <2>6
  <2>8. Holding(p)' /\ Using(p)' /\ ~Sharing(p)'
    BY <1>1, <2>1, <2>7, SlotsKept
  <2>9. QED
    BY <2>8 DEF Slotted
<1>18. Fresh(p)' /\ Fetched(p)'
  BY <1>5 DEF Fresh, Fetched
<1>19. QED
  BY <1>13, <1>14, <1>15, <1>16, <1>17, <1>18 DEF Alone

\* evict_page goes on and changes neither table.
LEMMA PassAlone ==
  ASSUME NEW p \in Proc, Alone(p), machine' = machine, pc[p] \in Parting, pc'[p] \in Parting,
         UNCHANGED <<ft_vaddr, bump_ptr, pte, spt, swap_tid, arg, victim>>,
         pc'[p] \in Storing <=> pc[p] \in Storing,
         pc'[p] \in {"slots", "swap_out"} => vaddr'[p] = victim[p], Saved(p)', Saving(p)'
  PROVE  Alone(p)'
<1>1. Frame' = Frame
  BY SameSets
<1>2. \A w : /\ Present(p, w)' = Present(p, w) /\ Entry(p, w)' = Entry(p, w)
             /\ Resident(p, w)' = Resident(p, w) /\ Dirty(p, w)' = Dirty(p, w)
             /\ Index(p, w)' = Index(p, w)
  BY DEF Present, Entry, Resident, Dirty, Index
<1>3. pc[p] \notin Outside /\ pc'[p] \notin Outside
  BY Places
<1>4. \A w : (Leaving(p, w)' <=> Leaving(p, w)) /\ (Coming(p, w)' <=> Coming(p, w))
  BY <1>3 DEF Leaving, Coming
<1>5. Agreeing(p)'
  BY <1>2, <1>4 DEF Alone, Agreeing
<1>6. Evicting(p)'
  BY <1>1, <1>2 DEF Alone, Evicting, HandInTable, Hand
<1>7. Slotted(p)'
  <2>1. CASE pc[p] \in Storing /\ ~Present(p, victim[p])
    BY <1>2, <2>1 DEF Slotted
  <2>2. CASE ~(pc[p] \in Storing /\ ~Present(p, victim[p]))
    <3>1. Holding(p) /\ Using(p) /\ ~Sharing(p)
      BY <2>2 DEF Alone, Slotted
    <3>2. ASSUME NEW w PROVE InSwap(p, w)' = InSwap(p, w)
      <4>1. InSwap(p, w)' <=> InSwap(p, w)
        BY <1>2 DEF InSwap
      <4>2. InSwap(p, w) \in BOOLEAN /\ InSwap(p, w)' \in BOOLEAN
        BY DEF InSwap
      <4>3. QED
        BY <4>1, <4>2
    <3>3. Holding(p)' /\ Using(p)' /\ ~Sharing(p)'
      BY <1>2, <3>1, <3>2, SlotsKept
    <3>4. QED
      BY <3>3 DEF Slotted
  <2>3. QED
    BY <2>1, <2>2
<1>8. Fresh(p)' /\ Fetched(p)'
  BY DEF Fresh, Fetched, Parting
<1>9. QED
  BY <1>5, <1>6, <1>7, <1>8 DEF Alone

\* The steps that do so.
LEMMA PassSteps ==
  ASSUME Types, Placing, NEW p \in Proc, Alone(p), machine' = machine,
         DirtyTest(p) \/ Save(p) \/ FindSlot(p), pc'[p] # "exit"
  PROVE  Alone(p)'
<1>1. /\ UNCHANGED <<ft_vaddr, bump_ptr, pte, swap_tid, arg, victim, written>>
      /\ pc[p] \in {"dirty", "save", "slots"} /\ pc \in [Proc -> Label]
      /\ vaddr \in [Proc -> Page \cup {NONE}] /\ slot \in [Proc -> SlotNumber]
  BY TypeFacts DEF DirtyTest, Save, FindSlot, At, ft, swap, local, store
<1>2. pc[p] \in Parting
  BY <1>1 DEF Parting
<1>3. PICK v \in Page : v = victim[p]
  BY <1>2 DEF Placing, Placed
<1>4. /\ HandInTable => Hand = v
      /\ Entry(p, v) /\ ~Resident(p, v)
      /\ pc[p] \in {"slots", "swap_out"} => vaddr[p] = v
  BY <1>2, <1>3 DEF Alone, Evicting
<1>5. spt' = spt
  BY <1>1 DEF DirtyTest, Save, FindSlot, Goto
<1>6. \A w : /\ Present(p, w)' = Present(p, w) /\ Entry(p, w)' = Entry(p, w)
             /\ Resident(p, w)' = Resident(p, w) /\ Dirty(p, w)' = Dirty(p, w)
             /\ Index(p, w)' = Index(p, w) /\ pte'[p][w] = pte[p][w]
             /\ spt'[p][w] = spt[p][w]
  BY <1>1, <1>5 DEF Present, Entry, Resident, Dirty, Index
<1>7. Saved(p) /\ Saving(p)
  BY DEF Alone
<1>8. ASSUME \A w : Unsaved(p, w)' <=> Unsaved(p, w) PROVE Saved(p)'
  BY <1>1, <1>6, <1>7, <1>8 DEF Saved
<1>9. CASE DirtyTest(p)
  <2>1. /\ pc[p] = "dirty" /\ HandInTable
        /\ Goto(p, IF HandPte(p).dirty \/ spt[p][v].is_stack_page THEN "remember" ELSE "unmap")
    BY <1>3, <1>9 DEF DirtyTest, At
  <2>2. HandPte(p) = pte[p][v]
    BY <1>3, <1>4, <2>1 DEF HandPte
  <2>3. pc'[p] = IF pte[p][v].dirty \/ spt[p][v].is_stack_page THEN "remember" ELSE "unmap"
    BY <1>1, <2>1, <2>2 DEF Goto
  <2>4. \A w : Unsaved(p, w) <=> w = v
    BY <1>3, <2>1 DEF Unsaved
  <2>5. CASE pte[p][v].dirty \/ spt[p][v].is_stack_page
    <3>1. pc'[p] = "remember"
      BY <2>3, <2>5
    <3>2. Dirty(p, v) \/ pte[p][v].dirty
      BY <1>7, <2>5 DEF Saved
    <3>3. Saving(p)'
      BY <1>1, <1>3, <1>6, <1>7, <2>1, <3>1, <3>2 DEF Saving, Storing
    <3>4. Saved(p)'
      BY <1>1, <1>3, <1>8, <2>4, <3>1 DEF Unsaved
    <3>5. QED
      BY <1>1, <1>2, <1>5, <2>1, <3>1, <3>3, <3>4, PassAlone DEF Parting, Storing
  <2>6. CASE ~(pte[p][v].dirty \/ spt[p][v].is_stack_page)
    <3>1. pc'[p] = "unmap"
      BY <2>3, <2>6
    <3>2. \A w : ~Unsaved(p, w)'
      BY <3>1 DEF Unsaved
    <3>3. Saved(p)'
      BY <1>1, <1>6, <1>7, <2>4, <2>6, <3>2 DEF Saved
    <3>4. Saving(p)'
      BY <3>1 DEF Saving, Storing
    <3>5. QED
      BY <1>1, <1>2, <1>5, <2>1, <3>1, <3>3, <3>4, PassAlone DEF Parting, Storing
  <2>7. QED
    BY <2>5, <2>6
<1>10. CASE Save(p)
  <2>1. pc[p] = "save" /\ pc'[p] = "slots" /\ vaddr'[p] = v
    BY <1>1, <1>4, <1>10 DEF Save, At, Goto
  <2>2. Saved(p)'
    BY <1>8, <2>1 DEF Unsaved
  <2>3. Saving(p)'
    BY <1>1, <1>6, <1>7, <2>1 DEF Saving, Storing
  <2>4. QED
    BY <1>1, <1>2, <1>3, <1>5, <2>1, <2>2, <2>3, PassAlone DEF Parting, Storing
<1>11. CASE FindSlot(p)
  <2>1. /\ pc[p] = "slots" /\ vaddr' = vaddr
        /\ \/ pc' = pc
           \/ pc'[p] = "swap_out" /\ slot' = slot /\ swap_tid[slot[p]] = NONE
    BY <1>1, <1>11 DEF FindSlot, At, Goto
  <2>2. pc'[p] \in {"slots", "swap_out"}
    BY <2>1
  <2>3. Saved(p)'
    BY <1>8, <2>1, <2>2 DEF Unsaved
  <2>4. Saving(p)'
    BY <1>1, <1>6, <1>7, <2>1, <2>2 DEF Saving, Storing
  <2>5. vaddr'[p] = victim[p]
    BY <1>3, <1>4, <2>1
  <2>6. QED
    BY <1>1, <1>2, <1>5, <2>1, <2>2, <2>3, <2>4, <2>5, PassAlone DEF Parting, Storing
<1>12. QED
  BY <1>9, <1>10, <1>11

\* The dirty bit is remembered.
LEMMA RememberAlone ==
  ASSUME Types, Placing, NEW p \in Proc, Alone(p), machine' = machine, Remember(p)
  PROVE  Alone(p)'
<1>1. /\ UNCHANGED <<ft_vaddr, bump_ptr, pte, swap_tid, arg, victim, written>>
      /\ pc[p] = "remember" /\ pc'[p] = "save" /\ HandInTable /\ SptType
      /\ spt' = [spt EXCEPT ![p][victim[p]] = Remembered(@, HandPte(p).dirty)]
      /\ pte \in [Proc -> [Page -> PTE]]
  BY TypeFacts DEF Remember, At, Goto, ft, swap, local, store
<1>2. PICK v \in Page : v = victim[p]
  BY <1>1 DEF Placing, Placed, Parting
<1>3. Hand = v /\ Entry(p, v) /\ ~Resident(p, v)
  BY <1>1, <1>2 DEF Alone, Evicting, Parting
<1>4. PICK b \in BOOLEAN : b = pte[p][v].dirty
  <2>1. pte[p][v] \in PTE
    BY <1>1
  <2>2. QED
    BY <2>1, PteFields
<1>5. spt' = [spt EXCEPT ![p][v] = Remembered(@, b)]
  BY <1>1, <1>2, <1>3, <1>4 DEF HandPte
<1>6. PICK d, e : Noted(p, v, b, d, e)
  BY <1>1, <1>5, NoteEffect
<1>7. SetsEntry(spt, spt', p, v, e)
  BY <1>6 DEF Noted
<1>8. /\ Dirty(p, v) \/ pte[p][v].dirty
      /\ Present(p, v) /\ Dirty(p, v) => Index(p, v) = NONE
  BY <1>1, <1>2 DEF Alone, Saving
<1>9. /\ Entry(p, v)' /\ ~Resident(p, v)' /\ Dirty(p, v)' /\ Index(p, v)' = Index(p, v)
      /\ spt'[p][v].is_stack_page = spt[p][v].is_stack_page
  <2>1. /\ Entry(p, v)' = e.entry /\ Resident(p, v)' = (e.entry /\ e.resident_bit)
        /\ Dirty(p, v)' = e.dirty_bit /\ Index(p, v)' = e.swap_index
        /\ spt'[p][v].is_stack_page = e.is_stack_page
    BY <1>7, SptOthers
  <2>2. /\ e.entry = Entry(p, v) /\ e.is_stack_page = spt[p][v].is_stack_page
        /\ (e.entry /\ e.resident_bit) = Resident(p, v) /\ e.dirty_bit = (Dirty(p, v) \/ b)
        /\ e.swap_index = Index(p, v)
    BY <1>6 DEF Noted, Entry, Resident, Dirty, Index
  <2>3. QED
    BY <1>3, <1>4, <1>8, <2>1, <2>2
<1>10. \A w \in Page : w # v => /\ Entry(p, w)' = Entry(p, w)
                                /\ Resident(p, w)' = Resident(p, w)
                                /\ Dirty(p, w)' = Dirty(p, w) /\ Index(p, w)' = Index(p, w)
                                /\ spt'[p][w].is_stack_page = spt[p][w].is_stack_page
  BY <1>7, SptOthers
<1>11. \A w \in Page : Present(p, w)' = Present(p, w) /\ pte'[p][w].dirty = pte[p][w].dirty
  BY <1>1 DEF Present
<1>12. /\ \A w : (Leaving(p, w) <=> w = v) /\ (Leaving(p, w)' <=> w = v)
       /\ \A w : w # v => ~Unsaved(p, w)
       /\ \A w : Coming(p, w)' = Coming(p, w)
  BY <1>1, <1>2 DEF Leaving, Unsaved, Coming, Outside, Parting
<1>13. Agreeing(p)'
  BY <1>9, <1>10, <1>11, <1>12 DEF Alone, Agreeing
<1>14. Saved(p)'
  <2>1. Saved(p)
    BY DEF Alone
  <2>2. ASSUME NEW w \in Page, w # v
        PROVE  /\ w \in written'[p] =>
                    /\ Entry(p, w)'
                    /\ Dirty(p, w)' \/ ((Resident(p, w) \/ Unsaved(p, w))' /\ pte'[p][w].dirty)
                    /\ Resident(p, w)' => Present(p, w)'
               /\ spt'[p][w].is_stack_page => w \in written'[p]
               /\ Dirty(p, w)' => Entry(p, w)'
               /\ Resident(p, w)' /\ Dirty(p, w)' => Index(p, w)' = NONE
    BY <1>1, <1>10, <1>11, <1>12, <2>1, <2>2 DEF Saved
  <2>3. spt'[p][v].is_stack_page => v \in written'[p]
    BY <1>1, <1>9, <2>1 DEF Saved
  <2>4. QED
    BY <1>9, <2>2, <2>3 DEF Saved
<1>15. Evicting(p)'
  BY <1>1, <1>2, <1>3, <1>9 DEF Evicting, Hand
<1>16. Saving(p)'
  BY <1>1, <1>2, <1>9 DEF Saving
<1>17. Slotted(p)'
  <2>1. Holding(p) /\ Using(p) /\ ~Sharing(p)
    BY <1>1 DEF Alone, Slotted, Storing
  <2>2. pc[p] \notin Storing /\ pc'[p] \in Storing
    BY <1>1 DEF Storing
  <2>3. CASE ~Present(p, v)
    BY <1>1, <1>2, <1>11, <2>2, <2>3 DEF Slotted
  <2>4. CASE Present(p, v)
    <3>1. ~InSwap(p, v) /\ ~InSwap(p, v)'
      BY <1>1, <1>2, <1>8, <2>2, <2>4 DEF InSwap
    <3>2. \A w \in Page : w # v => InSwap(p, w)' = InSwap(p, w)
      BY <1>1, <1>2, <1>10, <2>2 DEF InSwap
    <3>3. InSwap(p, v) \in BOOLEAN /\ InSwap(p, v)' \in BOOLEAN
      BY DEF InSwap
    <3>4. \A w \in Page : InSwap(p, w)' = InSwap(p, w) /\ Index(p, w)' = Index(p, w)
      BY <1>9, <1>10, <3>1, <3>2, <3>3
    <3>5. Holding(p)' /\ Using(p)' /\ ~Sharing(p)'
      BY <1>1, <2>1, <3>4, SlotsKept
    <3>6. QED
      BY <3>5 DEF Slotted
  <2>5. QED
    BY <2>3, <2>4
<1>18. Fresh(p)' /\ Fetched(p)'
  BY <1>1 DEF Fresh, Fetched
<1>19. QED
  BY <1>13, <1>14, <1>15, <1>16, <1>17, <1>18 DEF Alone

\* add_swap_entry writes the page.
LEMMA SwapAlone ==
  ASSUME Types, Placing, NEW p \in Proc, Alone(p), machine' = machine, SwapOut(p),
         VaddrPte(p).present
  PROVE  Alone(p)'
<1>1. /\ pc[p] = "swap_out" /\ vaddr[p] \in Page /\ pte[p][vaddr[p]].present
      /\ pc'[p] = "unmap" /\ vaddr' = vaddr /\ arg' = arg /\ victim' = victim /\ slot' = slot
      /\ ft_vaddr' = ft_vaddr /\ bump_ptr' = bump_ptr /\ written' = written
      /\ swap_tid' = [swap_tid EXCEPT ![slot[p]] = p]
      /\ spt' = [spt EXCEPT ![p][victim[p]].swap_index = slot[p]]
      /\ pte' = [pte EXCEPT ![p][vaddr[p]].accessed = TRUE]
  BY TypeFacts, VaddrIsPage DEF SwapOut, At, Goto, store, local, ft
<1>2. PICK v \in Page : v = victim[p] /\ slot[p] \in Slot
  BY <1>1 DEF Placing, Placed, Parting
<1>a. /\ pc[p] \in Parting /\ pc[p] \in Storing /\ pc'[p] \in Parting /\ pc'[p] \notin Storing
      /\ pc[p] \notin Outside /\ pc'[p] \notin Outside /\ Frame' = Frame
  BY <1>1, SameSets DEF Parting, Storing, Outside
<1>3. /\ Present(p, v) /\ Entry(p, v) /\ ~Resident(p, v) /\ (HandInTable => Hand = v)
      /\ slot[p] \in Slot /\ swap_tid[slot[p]] = NONE /\ Dirty(p, v)
  BY <1>1, <1>2, <1>a DEF Alone, Evicting, Saving, Present
<1>4. \A w \in Page : Present(p, w)' = Present(p, w) /\ pte'[p][w].dirty = pte[p][w].dirty
  <2>1. TRUE \in BOOLEAN /\ PteType
    BY TypeFacts
  <2>2. SamePte(p)
    BY <1>1, <2>1, AccessedSet
  <2>3. QED
    BY <2>2 DEF SamePte
<1>5. PICK i \in Slot : i = slot[p] /\ i \in SwapIndex
  BY <1>3 DEF SwapIndex
<1>6. spt' = [spt EXCEPT ![p][v].swap_index = i] /\ SptType
  BY <1>1, <1>2, <1>5, TypeFacts
<1>7. PICK d, e : Moved(p, v, i, d, e)
  BY <1>5, <1>6, IndexEffect
<1>8. /\ \A w \in Page : /\ Entry(p, w)' = Entry(p, w) /\ Resident(p, w)' = Resident(p, w)
                         /\ Dirty(p, w)' = Dirty(p, w)
                         /\ spt'[p][w].is_stack_page = spt[p][w].is_stack_page
      /\ \A w \in Page : w # v => Index(p, w)' = Index(p, w)
      /\ Index(p, v)' = i
  BY <1>7 DEF Moved, SetsEntry, Entry, Resident, Dirty, Index
<1>9. /\ \A w : Leaving(p, w) <=> w = v
      /\ \A w : Leaving(p, w)' <=> w = v
      /\ \A w : Coming(p, w)' <=> Coming(p, w)
  BY <1>1, <1>2, <1>a DEF Leaving, Coming
<1>10. Agreeing(p)'
  BY <1>4, <1>8, <1>9 DEF Alone, Agreeing
<1>11. Saved(p)'
  <2>1. \A w : ~Unsaved(p, w) /\ ~Unsaved(p, w)'
    BY <1>1 DEF Unsaved
  <2>2. QED
    BY <1>1, <1>3, <1>4, <1>8, <2>1 DEF Alone, Saved
<1>12. Evicting(p)'
  BY <1>1, <1>2, <1>3, <1>8, <1>a DEF Evicting, Hand, HandInTable
<1>13. Slotted(p)'
  <2>1. Holding(p) /\ Using(p) /\ ~Sharing(p)
    BY <1>2, <1>3 DEF Alone, Slotted
  <2>2. ~InSwap(p, v) /\ \A w \in Page : w # v => (InSwap(p, w)' <=> InSwap(p, w))
    BY <1>1, <1>2, <1>8, <1>a DEF InSwap
  <2>3. i # NONE /\ p # NONE
    <3>1. machine.entries \in Nat
      BY MachineFacts
    <3>2. i # NONE
      BY <3>1, SMT DEF Slot, NONE
    <3>3. QED
      BY <3>2, VMAssumption
  <2>4. InSwap(p, v)'
    BY <1>3, <1>8, <1>a, <2>3 DEF InSwap
  <2>5. /\ swap_tid \in [Slot -> Proc \cup {NONE}] /\ swap_tid' = [swap_tid EXCEPT ![i] = p]
        /\ swap_tid[i] = NONE /\ Slot' = Slot
    BY <1>1, <1>3, <1>5, TypeFacts, SameSets
  <2>6. swap_tid'[i] = p /\ \A j \in Slot : j # i => swap_tid'[j] = swap_tid[j]
    BY <2>5
  <2>7. \A w \in Page : w # v /\ InSwap(p, w) => /\ Index(p, w) \in Slot /\ Index(p, w) # i
                                                 /\ swap_tid[Index(p, w)] = p
    BY <2>1, <2>3, <2>5 DEF Holding
  <2>8. Holding(p)'
    BY <1>8, <2>2, <2>5, <2>6, <2>7 DEF Holding
  <2>9. Using(p)'
    <3>1. ASSUME NEW j \in Slot, swap_tid'[j] = p
          PROVE  \E w \in Page : InSwap(p, w)' /\ Index(p, w)' = j
      <4>1. CASE j = i
        BY <1>8, <2>4, <4>1
      <4>2. CASE j # i
        <5>1. PICK w \in Page : InSwap(p, w) /\ Index(p, w) = j
          BY <2>1, <2>6, <3>1, <4>2 DEF Using
        <5>2. w # v
          BY <2>2, <5>1
        <5>3. QED
          BY <1>8, <2>2, <5>1, <5>2
      <4>3. QED
        BY <4>1, <4>2
    <3>2. QED
      BY <2>5, <3>1 DEF Using
  <2>10. ~Sharing(p)'
    <3>1. ASSUME NEW a \in Page, NEW b \in Page, InSwap(p, a)', InSwap(p, b)', a # b,
                 Index(p, a)' = Index(p, b)'
          PROVE  FALSE
      <4>1. CASE a = v
        BY <1>8, <2>2, <2>7, <3>1, <4>1
      <4>2. CASE b = v
        BY <1>8, <2>2, <2>7, <3>1, <4>2
      <4>3. CASE a # v /\ b # v
        BY <1>8, <2>1, <2>2, <3>1, <4>3 DEF Sharing
      <4>4. QED
        BY <4>1, <4>2, <4>3
    <3>2. QED
      BY <3>1 DEF Sharing
  <2>11. QED
    BY <2>8, <2>9, <2>10 DEF Slotted
<1>14. Saving(p)' /\ Fresh(p)' /\ Fetched(p)'
  BY <1>1, <1>a DEF Saving, Fresh, Fetched
<1>15. QED
  BY <1>10, <1>11, <1>12, <1>13, <1>14 DEF Alone

\* pagedir_clear_page.
LEMMA UnmapAlone ==
  ASSUME Types, Placing, NEW p \in Proc, Alone(p), machine' = machine, Unmap(p)
  PROVE  Alone(p)'
<1>1. /\ pc[p] = "unmap" /\ HandInTable /\ pc'[p] = "take" /\ arg' = arg
      /\ spt' = spt /\ written' = written /\ swap_tid' = swap_tid
      /\ pte' = IF Hand \in Page THEN [pte EXCEPT ![p][Hand].present = FALSE] ELSE pte
  BY TypeFacts DEF Unmap, At, Goto, store, swap, local
<1>a. /\ pc[p] \in Parting /\ pc[p] \notin Storing /\ pc[p] \notin Outside
      /\ pc'[p] \notin Parting /\ pc'[p] \notin Outside
  BY <1>1 DEF Parting, Storing, Outside
<1>b. Calm(p)'
  BY <1>a, CalmNow
<1>2. PICK v \in Page : v = victim[p] /\ v = Hand
  BY <1>1, <1>a DEF Alone, Evicting, Placing, Placed
<1>3. ~Resident(p, v)
  BY <1>2, <1>a DEF Alone, Evicting
<1>4. ~Present(p, v)' /\ \A w \in Page : w # v => pte'[p][w] = pte[p][w]
  <2>1. pte' = [pte EXCEPT ![p][v].present = FALSE] /\ PteType
    BY <1>1, <1>2, TypeFacts
  <2>2. QED
    BY <2>1, PresentCleared DEF Present
<1>5. \A w \in Page : w # v => Present(p, w)' = Present(p, w) /\ pte'[p][w].dirty = pte[p][w].dirty
  BY <1>4 DEF Present
<1>6. \A w \in Page : /\ Entry(p, w)' = Entry(p, w) /\ Resident(p, w)' = Resident(p, w)
                      /\ Dirty(p, w)' = Dirty(p, w) /\ Index(p, w)' = Index(p, w)
                      /\ spt'[p][w].is_stack_page = spt[p][w].is_stack_page
  BY <1>1 DEF Entry, Resident, Dirty, Index
<1>7. /\ \A w : Leaving(p, w) <=> w = v
      /\ \A w : ~Leaving(p, w)'
      /\ \A w : Coming(p, w)' <=> Coming(p, w)
  BY <1>1, <1>2, <1>a DEF Leaving, Coming
<1>8. Agreeing(p)'
  BY <1>3, <1>4, <1>5, <1>6, <1>7 DEF Alone, Agreeing
<1>9. Saved(p)'
  <2>1. \A w : ~Unsaved(p, w) /\ ~Unsaved(p, w)'
    BY <1>1 DEF Unsaved
  <2>2. QED
    BY <1>1, <1>3, <1>5, <1>6, <2>1 DEF Alone, Saved
<1>10. \A w \in Page : InSwap(p, w)' = InSwap(p, w)
  BY <1>6, <1>a, <1>b DEF InSwap, Calm
<1>11. Slotted(p)'
  <2>1. Holding(p) /\ Using(p) /\ ~Sharing(p)
    BY <1>a DEF Alone, Slotted
  <2>2. Holding(p)' /\ Using(p)' /\ ~Sharing(p)'
    BY <1>1, <1>6, <1>10, <2>1, SlotsKept
  <2>3. QED
    BY <2>2 DEF Slotted
<1>12. Evicting(p)' /\ Saving(p)' /\ Fresh(p)' /\ Fetched(p)'
  BY <1>1, <1>b DEF Calm, Fresh, Fetched
<1>13. QED
  BY <1>8, <1>9, <1>11, <1>12 DEF Alone

\* remove_swap_entry.
LEMMA FetchAlone ==
  ASSUME Types, Placing, NEW p \in Proc, Alone(p), machine' = machine, FillSwap(p),
         pc'[p] # "exit"
  PROVE  Alone(p)'
<1>1. /\ pc[p] = "fill" /\ arg' = arg /\ pte' = pte /\ written' = written
      /\ pc \in [Proc -> Label]
  BY TypeFacts DEF FillSwap, At, local
<1>2. PICK v \in Page : v = arg[p]
  BY <1>1, MachineFacts DEF Placing, Placed, Outside
<1>3. PICK i : i = Index(p, v)
  OBVIOUS
<1>4. ~(i = NONE \/ swap_tid[i] = NONE)
  BY <1>1, <1>2, <1>3 DEF FillSwap, Goto, Index
<1>5. /\ swap_tid' = [swap_tid EXCEPT ![i] = NONE]
      /\ spt' = [spt EXCEPT ![p][v].swap_index = NONE] /\ pc'[p] = "install"
      /\ ~spt[p][v].resident_bit /\ (spt[p][v].dirty_bit \/ spt[p][v].is_stack_page)
  BY <1>1, <1>2, <1>3, <1>4 DEF FillSwap, FreeSlot, Goto, Index
<1>c. Calm(p) /\ Calm(p)'
  BY <1>1, <1>5, CalmNow DEF Parting
<1>6. ~Resident(p, v) /\ Dirty(p, v) /\ Entry(p, v)
  BY <1>5, <1>c DEF Alone, Saved, Resident, Dirty, Calm
<1>7. InSwap(p, v)
  BY <1>3, <1>4, <1>6, <1>c DEF InSwap, Calm
<1>8. NONE \in SwapIndex /\ SptType
  BY TypeFacts DEF SwapIndex
<1>9. PICK d, e : Moved(p, v, NONE, d, e)
  BY <1>5, <1>8, IndexEffect
<1>10. /\ \A w \in Page : /\ Entry(p, w)' = Entry(p, w) /\ Resident(p, w)' = Resident(p, w)
                          /\ Dirty(p, w)' = Dirty(p, w)
                          /\ spt'[p][w].is_stack_page = spt[p][w].is_stack_page
       /\ \A w \in Page : w # v => Index(p, w)' = Index(p, w)
       /\ Index(p, v)' = NONE
  BY <1>9 DEF Moved, SetsEntry, Entry, Resident, Dirty, Index
<1>11. \A w \in Page : Present(p, w)' = Present(p, w) /\ pte'[p][w].dirty = pte[p][w].dirty
  BY <1>1 DEF Present
<1>12. /\ \A w : ~Leaving(p, w) /\ ~Leaving(p, w)'
       /\ \A w : Coming(p, w)' <=> Coming(p, w)
  BY <1>1, <1>5, <1>c DEF Calm, Coming, Outside
<1>13. Agreeing(p)'
  BY <1>10, <1>11, <1>12 DEF Alone, Agreeing
<1>14. Saved(p)'
  BY <1>1, <1>6, <1>10, <1>11, <1>c DEF Alone, Saved, Calm
<1>15. Slotted(p)'
  <2>1. Holding(p) /\ Using(p) /\ ~Sharing(p)
    BY <1>c DEF Alone, Slotted, Calm
  <2>2. ~InSwap(p, v)' /\ \A w \in Page : w # v => (InSwap(p, w)' <=> InSwap(p, w))
    BY <1>10, <1>c DEF InSwap, Calm
  <2>3. p # NONE
    BY VMAssumption
  <2>4. i \in Slot /\ swap_tid[i] = p
    BY <1>3, <1>7, <2>1 DEF Holding
  <2>5. swap_tid \in [Slot -> Proc \cup {NONE}] /\ Slot' = Slot
    BY TypeFacts, SameSets
  <2>6. swap_tid'[i] = NONE /\ \A j \in Slot : j # i => swap_tid'[j] = swap_tid[j]
    BY <1>5, <2>4, <2>5
  <2>7. \A w \in Page : w # v /\ InSwap(p, w) => /\ Index(p, w) \in Slot /\ Index(p, w) # i
                                                 /\ swap_tid[Index(p, w)] = p
    BY <1>3, <1>7, <2>1 DEF Holding, Sharing
  <2>8. Holding(p)'
    BY <1>10, <2>2, <2>5, <2>6, <2>7 DEF Holding
  <2>9. Using(p)'
    <3>1. ASSUME NEW j \in Slot, swap_tid'[j] = p
          PROVE  \E w \in Page : InSwap(p, w)' /\ Index(p, w)' = j
      <4>1. j # i
        BY <2>3, <2>6, <3>1
      <4>2. PICK w \in Page : InSwap(p, w) /\ Index(p, w) = j
        BY <2>1, <2>6, <3>1, <4>1 DEF Using
      <4>3. w # v
        BY <1>3, <4>1, <4>2
      <4>4. QED
        BY <1>10, <2>2, <4>2, <4>3
    <3>2. QED
      BY <2>5, <3>1 DEF Using
  <2>10. ~Sharing(p)'
    <3>1. ASSUME NEW a \in Page, NEW b \in Page, InSwap(p, a)', InSwap(p, b)', a # b,
                 Index(p, a)' = Index(p, b)'
          PROVE  FALSE
      BY <1>10, <2>1, <2>2, <3>1 DEF Sharing
    <3>2. QED
      BY <3>1 DEF Sharing
  <2>11. QED
    BY <2>8, <2>9, <2>10 DEF Slotted
<1>16. Evicting(p)' /\ Saving(p)' /\ Fresh(p)'
  BY <1>5, <1>c DEF Calm, Fresh
<1>17. Fetched(p)'
  BY <1>1, <1>2, <1>10 DEF Fetched
<1>18. QED
  BY <1>13, <1>14, <1>15, <1>16, <1>17 DEF Alone

\* install_page.
LEMMA InstallAlone ==
  ASSUME Types, Placing, NEW p \in Proc, Alone(p), machine' = machine, Install(p),
         pc'[p] # "exit"
  PROVE  Alone(p)'
<1>1. /\ pc[p] = "install" /\ swap_tid' = swap_tid
      /\ pc \in [Proc -> Label] /\ written \in [Proc -> SUBSET Page]
  BY TypeFacts DEF Install, At, swap
<1>2. got[p] \in Frame
  BY <1>1 DEF Placing, Placed
<1>3. PICK v \in Page : v = arg[p]
  BY <1>1, MachineFacts DEF Placing, Placed, Outside
<1>4. ~Present(p, v) /\ pc'[p] = "user"
  BY <1>1, <1>3 DEF Install, Present, Goto
<1>c. Calm(p) /\ Calm(p)'
  BY <1>1, <1>4, CalmNow DEF Parting
<1>5. PICK d, e, g : Installed(p, v, d, e, g)
  BY <1>2, <1>3, <1>4, InstallEffect
<1>6. written'[p] = written[p] \cup (IF e.entry THEN {} ELSE {v})
  <2>1. written' = IF ~e.entry THEN [written EXCEPT ![p] = @ \cup {v}] ELSE written
    BY <1>3, <1>4, <1>5 DEF Install, Present, Installed
  <2>2. QED
    BY <1>1, <2>1
<1>7. SetsEntry(spt, spt', p, v, d) /\ SetsEntry(pte, pte', p, v, g)
  BY <1>5 DEF Installed
<1>8. /\ Entry(p, v)' /\ Resident(p, v)' /\ Present(p, v)'
      /\ Entry(p, v) => /\ Dirty(p, v)' = Dirty(p, v) /\ Index(p, v)' = Index(p, v)
                        /\ spt'[p][v].is_stack_page = spt[p][v].is_stack_page
                        /\ written'[p] = written[p]
      /\ ~Entry(p, v) => ~Dirty(p, v)' /\ v \in written'[p] /\ pte'[p][v].dirty
  BY <1>5, <1>6, <1>7 DEF Installed, SetsEntry, Entry, Resident, Dirty, Index, Present
<1>9. \A w \in Page : w # v => /\ Entry(p, w)' = Entry(p, w)
                               /\ Resident(p, w)' = Resident(p, w)
                               /\ Dirty(p, w)' = Dirty(p, w) /\ Index(p, w)' = Index(p, w)
                               /\ spt'[p][w].is_stack_page = spt[p][w].is_stack_page
                               /\ Present(p, w)' = Present(p, w)
                               /\ pte'[p][w].dirty = pte[p][w].dirty
                               /\ (w \in written'[p] <=> w \in written[p])
  BY <1>6, <1>7 DEF SetsEntry, Entry, Resident, Dirty, Index, Present
<1>10. /\ \A w : ~Leaving(p, w) /\ ~Leaving(p, w)' /\ ~Coming(p, w)'
       /\ \A w : Coming(p, w) <=> w = v
  BY <1>1, <1>3, <1>4, <1>c DEF Calm, Coming, Outside
<1>11. Agreeing(p)'
  BY <1>8, <1>9, <1>10 DEF Alone, Agreeing
<1>12. Dirty(p, v) => Index(p, v) = NONE
  BY <1>1, <1>3 DEF Alone, Fetched
<1>13. Saved(p)'
  <2>1. Saved(p)
    BY DEF Alone
  <2>2. ASSUME NEW w \in Page, w # v
        PROVE  /\ w \in written'[p] =>
                    /\ Entry(p, w)'
                    /\ Dirty(p, w)' \/ ((Resident(p, w) \/ Unsaved(p, w))' /\ pte'[p][w].dirty)
                    /\ Resident(p, w)' => Present(p, w)'
               /\ spt'[p][w].is_stack_page => w \in written'[p]
               /\ Dirty(p, w)' => Entry(p, w)'
               /\ Resident(p, w)' /\ Dirty(p, w)' => Index(p, w)' = NONE
    BY <1>9, <1>c, <2>1, <2>2 DEF Saved, Calm
  <2>3. /\ v \in written'[p] => Dirty(p, v)' \/ pte'[p][v].dirty
        /\ spt'[p][v].is_stack_page => v \in written'[p]
        /\ Dirty(p, v)' => Index(p, v)' = NONE
    BY <1>4, <1>8, <1>12, <1>c, <2>1 DEF Saved, Calm
  <2>4. QED
    BY <1>8, <2>2, <2>3 DEF Saved
<1>14. ~InSwap(p, v) /\ ~InSwap(p, v)'
  BY <1>8, <1>12 DEF InSwap
<1>15. \A w \in Page : /\ InSwap(p, w)' = InSwap(p, w)
                       /\ InSwap(p, w) => Index(p, w)' = Index(p, w)
  <2>1. \A w \in Page : w # v => InSwap(p, w)' = InSwap(p, w)
    BY <1>9, <1>c DEF InSwap, Calm
  <2>2. InSwap(p, v) \in BOOLEAN /\ InSwap(p, v)' \in BOOLEAN
    BY DEF InSwap
  <2>3. QED
    BY <1>9, <1>14, <2>1, <2>2
<1>16. Slotted(p)'
  <2>1. Holding(p) /\ Using(p) /\ ~Sharing(p)
    BY <1>c DEF Alone, Slotted, Calm
  <2>2. Holding(p)' /\ Using(p)' /\ ~Sharing(p)'
    BY <1>1, <1>15, <2>1, SlotsKept
  <2>3. QED
    BY <2>2 DEF Slotted
<1>17. Evicting(p)' /\ Saving(p)' /\ Fresh(p)' /\ Fetched(p)'
  BY <1>4, <1>c DEF Calm, Fresh, Fetched
<1>18. QED
  BY <1>11, <1>13, <1>16, <1>17 DEF Alone

\* A process that is gone takes no step, and one in process_exit no other.
LEMMA Underway ==
  ASSUME NEW q \in Proc, Handler(q) \/ User(q)
  PROVE  pc[q] # "gone" /\ (pc[q] = "exit" => Exit(q))
<1>1. CASE LoopStep(q)
  BY <1>1 DEF LoopStep, Search, Bump, SearchWrap, SearchZero, Claim, Name, Take, EvictTest, Clear,
     Turn, EvictWrap, EvictZero, SetEmpty, At
<1>2. CASE Victim(q) \/ DirtyTest(q) \/ Remember(q) \/ Save(q) \/ FindSlot(q) \/ SwapOut(q) \/ Unmap(q)
  BY <1>2 DEF Victim, DirtyTest, Remember, Save, FindSlot, SwapOut, Unmap, At
<1>3. CASE \/ LoadSegment(q) \/ Stray(q) \/ FillSwap(q) \/ FillFile(q) \/ Install(q) \/ Exit(q)
           \/ User(q)
  BY <1>3 DEF User, LoadSegment, Stray, FillSwap, FillFile, Install, Exit, Leave, Read, Write,
     Fault, FaultGrow, At
<1>4. QED
  BY <1>1, <1>2, <1>3 DEF Handler, LoopStep

\* The processes that the machine does not run take no step.
LEMMA OnlyOne ==
  ASSUME Placing, NEW p \in Proc, Lone(p), NEW q \in Proc, Handler(q) \/ User(q)
  PROVE  q = p
<1>1. pc[q] # "gone"
  BY Underway
<1>2. q \in machine.proc
  BY <1>1 DEF Placing, Placed
<1>3. QED
  BY <1>2 DEF Lone

\* The steps of the handler.
LEMMA HandlerAlone ==
  ASSUME Types, Placing, NEW p \in Proc, Alone(p), machine' = machine, Handler(p),
         pc'[p] \notin {"exit", "gone"}
  PROVE  Alone(p)'
<1>1. pc \in [Proc -> Label]
  BY TypeFacts
<1>2. CASE SwapOut(p) /\ ~VaddrPte(p).present
  BY <1>2, SameAlone DEF SwapOut, ft, swap, store, local
<1>3. CASE Stray(p)
  BY <1>3, SameAlone DEF Stray, ft, swap, store, local
<1>4. CASE Exit(p)
  <2>1. CASE pc' = pc
    BY <1>4, <2>1 DEF Exit, At
  <2>2. CASE Goto(p, "gone")
    BY <1>1, <2>2 DEF Goto
  <2>3. QED
    BY <1>4, <2>1, <2>2 DEF Exit
<1>5. pc'[p] # "exit"
  OBVIOUS
<1>6. CASE LoopStep(p) \/ FillFile(p)
  BY <1>6, QuietSteps
<1>7. CASE Victim(p) \/ DirtyTest(p) \/ Remember(p) \/ Save(p) \/ FindSlot(p)
  BY <1>5, <1>7, VictimAlone, PassSteps, RememberAlone
<1>8. QED
  BY <1>2, <1>3, <1>4, <1>5, <1>6, <1>7, LoadAlone, SwapAlone, UnmapAlone, FetchAlone, InstallAlone
  DEF Handler, LoopStep

\* The instructions of the process.
LEMMA UserAlone ==
  ASSUME Types, Placing, NEW p \in Proc, Alone(p), machine' = machine, User(p),
         pc'[p] \notin {"exit", "gone"}
  PROVE  Alone(p)'
<1>1. pc \in [Proc -> Label] /\ machine.page \subseteq Page
  BY TypeFacts, MachineFacts
<1>2. ~Leave(p)
  BY <1>1 DEF Leave, Goto
<1>3. QED
  BY <1>1, <1>2, QuietSteps, WriteAlone, GrowAlone DEF User

\* A lone process ends once.
LEMMA EndsOnce ==
  ASSUME Types, NEW p \in Proc, Handler(p) \/ User(p), pc[p] \in {"exit", "gone"}
  PROVE  pc'[p] \in {"exit", "gone"}
<1>1. pc \in [Proc -> Label]
  BY TypeFacts
<1>2. Exit(p)
  BY Underway
<1>3. pc' = pc \/ Goto(p, "gone")
  BY <1>2 DEF Exit
<1>4. QED
  BY <1>1, <1>3 DEF Goto

\* Every step keeps the tables of a lone process in agreement.
LEMMA LoneStep ==
  ASSUME Types, Placing, LoneInv, [Next]_vars
  PROVE  LoneInv'
<1> SUFFICES ASSUME NEW p \in Proc, Lone(p)', pc'[p] \notin {"exit", "gone"}
             PROVE  Alone(p)'
  BY DEF LoneInv
<1>1. machine' = machine /\ Lone(p)
  BY SameMachine DEF Lone
<1>2. CASE UNCHANGED vars
  <2>1. Alone(p)
    BY <1>1, <1>2 DEF LoneInv, vars
  <2>2. UNCHANGED <<ft, bump_ptr, pte, spt, swap_tid, written, pc, local>>
    BY <1>2 DEF vars, swap, store
  <2>3. QED
    BY <2>1, <2>2, SameAlone
<1>3. CASE Handler(p) \/ User(p)
  <2>1. pc[p] \notin {"exit", "gone"}
    BY <1>3, EndsOnce
  <2>2. Alone(p)
    BY <1>1, <2>1 DEF LoneInv
  <2>3. QED
    BY <1>1, <1>3, <2>2, HandlerAlone, UserAlone
<1>4. QED
  BY <1>1, <1>2, <1>3, OnlyOne DEF Next, Stopped

\* Initially the lone process is about to start.
LEMMA InitLone == Init => LoneInv
<1> SUFFICES ASSUME Init, NEW p \in Proc, Lone(p) PROVE Alone(p)
  BY DEF LoneInv
<1>1. Types
  BY InitTypes
<1>2. p # NONE /\ ~NoPte.present
  BY VMAssumption DEF NoPte
<1>3. pc[p] = "start"
  BY DEF Init, Lone
<1>4. \A v \in Page : /\ ~Present(p, v) /\ spt[p][v] = NoSPTEntry
  BY <1>2 DEF Init, Present
<1>5. \A v \in Page : ~Entry(p, v) /\ ~Resident(p, v) /\ ~Dirty(p, v) /\ ~spt[p][v].is_stack_page
  BY <1>4, NoField DEF Entry, Resident, Dirty
<1>6. written[p] = {} /\ \A i \in Slot : swap_tid[i] # p
  BY <1>2 DEF Init
<1>7. Agreeing(p) /\ Saved(p)
  BY <1>4, <1>5, <1>6 DEF Agreeing, Saved
<1>8. Evicting(p) /\ Saving(p) /\ Fetched(p)
  BY <1>3 DEF Evicting, Saving, Fetched, Parting, Storing
<1>9. \A v \in Page : ~InSwap(p, v)
  BY <1>5 DEF InSwap
<1>10. Slotted(p) /\ Fresh(p)
  BY <1>4, <1>5, <1>6, <1>9 DEF Slotted, Holding, Using, Sharing, Fresh
<1>11. QED
  BY <1>7, <1>8, <1>10 DEF Alone

\* Between faults the four tables agree.
LEMMA LoneAgree ==
  ASSUME Types, LoneInv
  PROVE  TablesAgree
<1>1. TypeOK
  BY DEF Types
<1> SUFFICES ASSUME NEW p \in Proc, Lone(p), pc[p] = "user"
             PROVE  /\ \A v \in Page : pte[p][v].present
                                         <=> spt[p][v].entry /\ spt[p][v].resident_bit
                    /\ {i \in Slot : swap_tid[i] = p}
                         = {spt[p][v].swap_index : v \in Swapped(p)}
                    /\ \A v, w \in Swapped(p) :
                         spt[p][v].swap_index = spt[p][w].swap_index => v = w
  BY <1>1 DEF TablesAgree
<1>2. Agreeing(p) /\ Holding(p) /\ Using(p) /\ ~Sharing(p)
  BY DEF LoneInv, Alone, Slotted, Storing
<1>3. \A v \in Page : ~Leaving(p, v) /\ ~Coming(p, v)
  BY DEF Leaving, Coming, Outside, Parting
<1>4. \A v \in Page : pte[p][v].present <=> spt[p][v].entry /\ spt[p][v].resident_bit
  BY <1>2, <1>3 DEF Agreeing, Present, Resident
<1>5. \A v : v \in Swapped(p) <=> v \in Page /\ InSwap(p, v)
  BY DEF Swapped, InSwap, Entry, Resident, Dirty, Index, Storing
<1>6. {i \in Slot : swap_tid[i] = p} = {spt[p][v].swap_index : v \in Swapped(p)}
  BY <1>2, <1>5, ZenonT(30) DEF Holding, Using, Index
<1>7. \A v, w \in Swapped(p) : spt[p][v].swap_index = spt[p][w].swap_index => v = w
  BY <1>2, <1>5 DEF Sharing, Index
<1>8. QED
  BY <1>4, <1>6, <1>7

\* What was written to and is not in memory is in swap.
LEMMA LoneReload ==
  ASSUME Types, Placing, LoneInv
  PROVE  NoStaleReload
<1> SUFFICES ASSUME NEW p \in Proc, Lone(p), pc[p] = "fill", arg[p] \in written[p],
                    ~pte[p][arg[p]].present
             PROVE  ~spt[p][arg[p]].resident_bit /\ spt[p][arg[p]].dirty_bit
  BY DEF NoStaleReload
<1>1. arg[p] \in Page
  BY MachineFacts DEF Placing, Placed, Outside
<1>2. Saved(p)
  BY DEF LoneInv, Alone
<1>3. ~Unsaved(p, arg[p])
  BY DEF Unsaved
<1>4. QED
  BY <1>1, <1>2, <1>3 DEF Saved, Entry, Resident, Dirty, Present

(***************************************************************************)
(* The steps of a lone process that has a frame for every page.            *)
(***************************************************************************)
\* A step that changes neither the mappings nor the contents.
LEMMA QuietRoom ==
  ASSUME NEW p \in Proc, Roomed(p), machine' = machine, SamePte(p), ft_status' = ft_status,
         ft_vaddr' = ft_vaddr, mem' = mem, written' = written, freed' = freed,
         ~Obtaining(p), ~Obtaining(p)', pc[p] # "exit", Unevicted(p)', Searching(p)'
  PROVE  Roomed(p)'
<1>1. Lodged(p) /\ Tight(p) /\ Showing(p) /\ freed = {}
  BY DEF Roomed
<1>2. /\ \A v \in Page : Present(p, v)' = Present(p, v) /\ pte'[p][v].frame = pte[p][v].frame
      /\ \A f : Empty(f)' = Empty(f)
  BY DEF SamePte, Empty
<1>3. Frame' = Frame
  BY SameSets
<1>4. Lodged(p)'
  BY <1>1, <1>2 DEF Lodged
<1>5. Bringing(p)' /\ Filled(p)'
  BY DEF Bringing, Filled, Obtaining
<1>6. \A f : Occupied(p, f) => Occupied(p, f)'
  BY <1>2 DEF Occupied
<1>7. Tight(p)'
  BY <1>1, <1>2, <1>3, <1>6 DEF Tight
<1>8. Showing(p)'
  <2>1. \A v, c : Shown(p, v, c)' = Shown(p, v, c)
    BY DEF Shown
  <2>2. QED
    BY <1>1, <1>2, <2>1 DEF Showing, Shown
<1>9. QED
  BY <1>1, <1>4, <1>5, <1>7, <1>8 DEF Roomed

\* An empty frame is in sight when the search starts, ...
LEMMA SightStart ==
  ASSUME Types, NEW b \in Frame, NEW f \in Frame, Empty(f)
  PROVE  InSight(b, 0)
<1>1. max_frame \in Nat
  BY MachineFacts
<1>2. Ahead(b, f) + 0 < max_frame
  BY <1>1, SMT DEF Ahead, Frame
<1>3. QED
  BY <1>2 DEF InSight

\* ... comes nearer with every frame that is passed, ...
LEMMA SightNext ==
  ASSUME Types, NEW b \in Frame, NEW n \in 0 .. max_frame, InSight(b, n), ~Empty(b)
  PROVE  InSight(b + 1, n + 1) /\ b + 1 \in 0 .. max_frame
<1>1. max_frame \in Nat
  BY MachineFacts
<1>2. PICK f \in Frame : Empty(f) /\ Ahead(b, f) + n < max_frame
  BY DEF InSight
<1>3. f # b
  BY <1>2
<1>4. Ahead(b + 1, f) + (n + 1) < max_frame /\ b + 1 \in 0 .. max_frame
  BY <1>1, <1>2, <1>3, SMT DEF Ahead, Frame
<1>5. QED
  BY <1>2, <1>4 DEF InSight

\* ... as it does when the hand returns to the first, and before all are passed.
LEMMA SightWrap ==
  ASSUME Types, NEW n \in 0 .. max_frame, NEW b \in 0 .. max_frame, InSight(b, n),
         NEW c, c = IF b = max_frame THEN 0 ELSE b
  PROVE  InSight(c, n) /\ n # max_frame /\ c \in 0 .. max_frame /\ c # max_frame
<1>1. max_frame \in Nat /\ 0 < max_frame
  BY MachineFacts
<1>2. PICK f \in Frame : Empty(f) /\ Ahead(b, f) + n < max_frame
  BY DEF InSight
<1>3. /\ Ahead(c, f) + n < max_frame /\ n # max_frame
      /\ c \in 0 .. max_frame /\ c # max_frame
  BY <1>1, <1>2, SMT DEF Ahead, Frame
<1>4. QED
  BY <1>2, <1>3 DEF InSight

\* The hand points into the frame table.
LEMMA HandIn ==
  ASSUME Types, NEW p \in Proc, Searching(p), pc[p] \notin {"wrap", "zero"}
  PROVE  HandInTable
<1>1. max_frame \in Nat /\ bump_ptr \in 0 .. max_frame /\ bump_ptr # max_frame
  BY MachineFacts DEF Searching
<1>2. QED
  BY <1>1, SMT DEF HandInTable, Frame

\* The call of get_user_page.
LEMMA CallRoom ==
  ASSUME Types, Placing, NEW p \in Proc, Roomed(p), machine' = machine,
         NEW f \in Frame, Empty(f), pc[p] \in {"start", "user"}, NEW v, GetUserPage(p, v),
         UNCHANGED <<ft, bump_ptr, pte, swap, store, world>>,
         \A w \in Page : ~Dirty(p, w)' /\ (spt'[p][w].is_stack_page => Resident(p, w)')
  PROVE  Roomed(p)'
<1>1. /\ pc \in [Proc -> Label] /\ total \in [Proc -> 0 .. max_frame]
  BY TypeFacts
<1>2. pc'[p] = "search" /\ total'[p] = 0
  BY <1>1 DEF GetUserPage, Goto
<1>3. /\ ft_status' = ft_status /\ ft_vaddr' = ft_vaddr /\ mem' = mem /\ written' = written
      /\ freed' = freed /\ bump_ptr' = bump_ptr
  BY DEF ft, store, world
<1>4. SamePte(p)
  BY DEF SamePte, Present
<1>5. ~Obtaining(p) /\ ~Obtaining(p)' /\ pc[p] # "exit" /\ pc[p] \notin {"wrap", "zero"}
  BY <1>2 DEF Obtaining
<1>6. Unevicted(p)'
  BY <1>2 DEF Unevicted, Clocking, Parting
<1>7. Searching(p) /\ bump_ptr \in Frame
  BY <1>5, HandIn DEF Roomed, HandInTable
<1>8. InSight(bump_ptr, 0)
  BY <1>7, SightStart
<1>9. InSight(bump_ptr, 0)' /\ max_frame' = max_frame
  BY <1>3, <1>8, SameSets DEF InSight, Empty, Ahead
<1>10. Searching(p)'
  BY <1>2, <1>3, <1>5, <1>7, <1>9 DEF Searching
<1>11. QED
  BY <1>3, <1>4, <1>5, <1>6, <1>10, QuietRoom

\* The three calls.
LEMMA StartRoom ==
  ASSUME Types, Placing, NEW p \in Proc, Roomed(p), machine' = machine,
         NEW f \in Frame, Empty(f),
         LoadSegment(p) \/ \E v \in machine.page : Fault(p, v) \/ FaultGrow(p, v)
  PROVE  Roomed(p)'
<1>1. SptType /\ machine.page \subseteq Page
  BY TypeFacts, MachineFacts
<1>2. Unevicted(p)
  BY DEF Roomed
<1>3. CASE LoadSegment(p)
  <2>1. \A w \in Page : ~Dirty(p, w)' /\ (spt'[p][w].is_stack_page => Resident(p, w)')
    BY <1>1, <1>3, LoadEffect DEF Dirty
  <2>2. /\ pc[p] \in {"start", "user"} /\ GetUserPage(p, Stack)
        /\ UNCHANGED <<ft, bump_ptr, pte, swap, store, world>>
    BY <1>3 DEF LoadSegment, At
  <2>3. QED
    BY <2>1, <2>2, CallRoom
<1>4. ASSUME NEW v \in Page, Fault(p, v) PROVE Roomed(p)'
  <2>1. /\ pc[p] \in {"start", "user"} /\ GetUserPage(p, v) /\ spt' = spt
        /\ UNCHANGED <<ft, bump_ptr, pte, swap, store, world>>
    BY <1>4 DEF Fault, At
  <2>2. \A w \in Page : ~Dirty(p, w)' /\ (spt'[p][w].is_stack_page => Resident(p, w)')
    BY <1>2, <2>1 DEF Unevicted, Dirty, Resident
  <2>3. QED
    BY <2>1, <2>2, CallRoom
<1>5. ASSUME NEW v \in Page, FaultGrow(p, v) PROVE Roomed(p)'
  <2>1. /\ pc[p] \in {"start", "user"} /\ GetUserPage(p, v)
        /\ UNCHANGED <<ft, bump_ptr, pte, swap, store, world>>
    BY <1>5 DEF FaultGrow, At
  <2>2. PICK e : SetsEntry(spt, spt', p, v, e) /\ ~e.is_stack_page /\ ~e.dirty_bit
    BY <1>1, <1>5, GrowEffect
  <2>3. /\ ~Dirty(p, v)' /\ ~spt'[p][v].is_stack_page
        /\ \A w \in Page : w # v => /\ Dirty(p, w)' = Dirty(p, w)
                                    /\ Resident(p, w)' = Resident(p, w)
                                    /\ spt'[p][w].is_stack_page = spt[p][w].is_stack_page
    BY <2>2 DEF SetsEntry, Dirty, Resident
  <2>4. \A w \in Page : ~Dirty(p, w)' /\ (spt'[p][w].is_stack_page => Resident(p, w)')
    BY <1>2, <2>3 DEF Unevicted
  <2>5. QED
    BY <2>1, <2>4, CallRoom
<1>6. QED
  BY <1>1, <1>3, <1>4, <1>5

\* A page is read, or the process leaves.
LEMMA ReadRoom ==
  ASSUME Types, Placing, NEW p \in Proc, Roomed(p), machine' = machine,
         Leave(p) \/ \E v \in machine.page : Read(p, v)
  PROVE  Roomed(p)'
<1>1. PteType /\ pc \in [Proc -> Label] /\ machine.page \subseteq Page /\ TRUE \in BOOLEAN
  BY TypeFacts, MachineFacts
<1>2. /\ ft_status' = ft_status /\ ft_vaddr' = ft_vaddr /\ freed' = freed
      /\ bump_ptr' = bump_ptr /\ spt' = spt /\ pc[p] = "user"
  BY DEF Leave, Read, At, ft, world
<1>3. pc'[p] \in {"user", "exit"}
  BY <1>1, <1>2 DEF Leave, Read, Goto
<1>4. SamePte(p)
  <2>1. CASE pte' = pte
    BY <2>1 DEF SamePte, Present
  <2>2. ASSUME NEW v \in Page, Read(p, v) PROVE SamePte(p)
    BY <1>1, <2>2, AccessedSet DEF Read
  <2>3. QED
    BY <1>1, <2>1, <2>2 DEF Leave
<1>5. mem' = mem /\ written' = written
  BY DEF Leave, Read, store
<1>6. ~Obtaining(p) /\ ~Obtaining(p)' /\ pc[p] # "exit"
  BY <1>2, <1>3 DEF Obtaining
<1>7. Unevicted(p)'
  BY <1>2, <1>3 DEF Roomed, Unevicted, Dirty, Resident, Clocking, Parting
<1>8. Searching(p)'
  BY <1>2, <1>3, SameSets DEF Roomed, Searching
<1>9. QED
  BY <1>2, <1>4, <1>5, <1>6, <1>7, <1>8, QuietRoom

\* The search.
LEMMA SearchRoom ==
  ASSUME Types, Placing, NEW p \in Proc, Roomed(p), machine' = machine,
         Search(p) \/ Bump(p) \/ SearchWrap(p) \/ SearchZero(p)
  PROVE  Roomed(p)'
<1>1. /\ pc \in [Proc -> Label] /\ total \in [Proc -> 0 .. max_frame]
      /\ ft_status \in [Frame -> {"EMPTY", "FULL"}]
  BY TypeFacts
<1>2. /\ ft_status' = ft_status /\ ft_vaddr' = ft_vaddr /\ freed' = freed
      /\ spt' = spt /\ pte' = pte /\ mem' = mem /\ written' = written
      /\ pc[p] \in {"search", "bump", "wrap", "zero"}
  BY DEF Search, Bump, SearchWrap, SearchZero, Wrap, Zero, At, ft, store, world
<1>3. Unevicted(p) /\ Searching(p)
  BY DEF Roomed
<1>4. InSight(bump_ptr, total[p]) /\ total[p] \in 0 .. max_frame /\ bump_ptr \in 0 .. max_frame
  BY <1>1, <1>2, <1>3 DEF Searching
<1>5. max_frame' = max_frame
  BY SameSets
<1>6. \A b, n : InSight(b, n) => InSight(b, n)'
  BY <1>2, <1>5, SameSets DEF InSight, Empty, Ahead
<1>7. pc'[p] \in {"search", "bump", "wrap", "zero", "claim"} /\ Searching(p)'
  <2>1. CASE Search(p)
    <3>1. /\ pc[p] = "search" /\ bump_ptr' = bump_ptr /\ bump_ptr \in Frame /\ total' = total
          /\ pc'[p] = IF ft_status[bump_ptr] = "FULL" THEN "bump" ELSE "claim"
      BY <1>1, <2>1 DEF Search, Goto, HandInTable, At, local
    <3>2. /\ ft_status[bump_ptr] = "FULL" => ~Empty(bump_ptr)
          /\ ft_status[bump_ptr] # "FULL" => Empty(bump_ptr)
      BY <1>1, <3>1 DEF Empty
    <3>3. Empty(bump_ptr)' = Empty(bump_ptr)
      BY <1>2, <3>1 DEF Empty
    <3>4. bump_ptr # max_frame
      BY <1>3, <3>1 DEF Searching
    <3>5. QED
      BY <1>4, <1>5, <1>6, <3>1, <3>2, <3>3, <3>4 DEF Searching
  <2>2. CASE Bump(p)
    <3>1. /\ bump_ptr' = bump_ptr + 1 /\ total'[p] = total[p] + 1 /\ pc'[p] = "wrap"
          /\ pc[p] = "bump"
      BY <1>1, <2>2 DEF Bump, Goto, At
    <3>2. ~Empty(bump_ptr) /\ bump_ptr \in Frame
      BY <1>3, <3>1, HandIn DEF Searching, HandInTable
    <3>3. InSight(bump_ptr + 1, total[p] + 1) /\ bump_ptr + 1 \in 0 .. max_frame
      BY <1>4, <3>2, SightNext
    <3>4. QED
      BY <1>5, <1>6, <3>1, <3>3 DEF Searching
  <2>3. CASE SearchWrap(p)
    <3>1. /\ bump_ptr' = bump_ptr /\ total' = total
          /\ pc'[p] = IF bump_ptr = max_frame THEN "zero"
                      ELSE IF total[p] = max_frame THEN "evict" ELSE "search"
      BY <1>1, <2>3 DEF SearchWrap, Wrap, Goto, Resume, SearchedAll, local
    <3>2. PICK c : c = IF bump_ptr = max_frame THEN 0 ELSE bump_ptr
      OBVIOUS
    <3>3. total[p] # max_frame
      BY <1>4, <3>2, SightWrap
    <3>4. QED
      BY <1>4, <1>5, <1>6, <3>1, <3>3 DEF Searching
  <2>4. CASE SearchZero(p)
    <3>1. /\ bump_ptr' = 0 /\ total' = total /\ pc[p] = "zero"
          /\ pc'[p] = IF total[p] = max_frame THEN "evict" ELSE "search"
      BY <1>1, <2>4 DEF SearchZero, Zero, Goto, Resume, SearchedAll, local, At
    <3>2. bump_ptr = max_frame
      BY <1>3, <3>1 DEF Searching
    <3>3. PICK c : c = IF bump_ptr = max_frame THEN 0 ELSE bump_ptr
      OBVIOUS
    <3>4. c = 0 /\ InSight(c, total[p]) /\ total[p] # max_frame /\ c \in 0 .. max_frame
          /\ c # max_frame
      BY <1>4, <3>2, <3>3, SightWrap
    <3>5. QED
      BY <1>5, <1>6, <3>1, <3>4 DEF Searching
  <2>5. QED
    BY <2>1, <2>2, <2>3, <2>4
<1>8. Unevicted(p)'
  BY <1>2, <1>3, <1>7 DEF Unevicted, Dirty, Resident, Clocking, Parting
<1>9. SamePte(p)
  BY <1>2 DEF SamePte, Present
<1>10. ~Obtaining(p) /\ ~Obtaining(p)' /\ pc[p] # "exit"
  BY <1>2, <1>7 DEF Obtaining
<1>11. QED
  BY <1>2, <1>7, <1>8, <1>9, <1>10, QuietRoom

\* A page's frame is its own.
LEMMA Apart ==
  ASSUME NEW p \in Proc, Lodged(p), NEW v \in Page, NEW w \in Page, Present(p, v), Present(p, w),
         v # w
  PROVE  pte[p][v].frame # pte[p][w].frame
  BY DEF Lodged

\* A write.
LEMMA WriteRoom ==
  ASSUME Types, Placing, Backed, NEW p \in Proc, Roomed(p), machine' = machine, NEW v \in Page,
         Write(p, v)
  PROVE  Roomed(p)'
<1>1. /\ PteType /\ written \in [Proc -> SUBSET Page]
      /\ pte' = [pte EXCEPT ![p][v] = [@ EXCEPT !.accessed = TRUE, !.dirty = TRUE]]
      /\ written' = [written EXCEPT ![p] = @ \cup {v}] /\ pc[p] = "user" /\ Present(p, v)
      /\ mem' = [mem EXCEPT ![pte[p][v].frame] = FromWrite(p, v)]
      /\ spt' = spt /\ pc' = pc /\ ft_status' = ft_status /\ ft_vaddr' = ft_vaddr
      /\ bump_ptr' = bump_ptr /\ freed' = freed
  BY TypeFacts DEF Write, At, Present, ft, world
<1>2. \A w \in Page : Present(p, w)' = Present(p, w) /\ pte'[p][w].frame = pte[p][w].frame
  BY <1>1, DirtySet
<1>3. \A w : w \in written'[p] <=> w \in written[p] \/ w = v
  BY <1>1
<1>4. \A f : Empty(f)' = Empty(f)
  BY <1>1 DEF Empty
<1>5. Frame' = Frame /\ max_frame' = max_frame
  BY SameSets
<1>6. Unevicted(p)' /\ Searching(p)'
  BY <1>1, <1>5 DEF Roomed, Unevicted, Searching, Dirty, Resident
<1>7. Lodged(p) /\ Lodged(p)'
  BY <1>1, <1>2, <1>4 DEF Roomed, Lodged
<1>8. Bringing(p)' /\ Filled(p)'
  BY <1>1 DEF Bringing, Filled, Obtaining
<1>9. Tight(p)'
  <2>1. \A f : Occupied(p, f) => Occupied(p, f)'
    BY <1>1, <1>2 DEF Occupied, Obtaining, Held
  <2>2. Tight(p)
    BY DEF Roomed
  <2>3. QED
    BY <1>1, <1>4, <1>5, <2>1, <2>2 DEF Tight
<1>10. Showing(p)'
  <2>1. Showing(p)
    BY DEF Roomed
  <2>2. \A w \in Page : Present(p, w) => pte[p][w].frame \in Frame
    BY DEF Backed
  <2>3. /\ mem'[pte[p][v].frame] = FromWrite(p, v)
        /\ \A f \in Frame : f # pte[p][v].frame => mem'[f] = mem[f]
    BY <1>1, <2>2, MemSet
  <2>4. ASSUME NEW w \in Page, Present(p, w), w # v
        PROVE  Shown(p, w, mem[pte[p][w].frame])'
    <3>1. mem'[pte[p][w].frame] = mem[pte[p][w].frame]
      BY <1>1, <1>7, <2>2, <2>3, <2>4, Apart
    <3>2. Shown(p, w, mem[pte[p][w].frame])
      BY <2>1, <2>4 DEF Showing
    <3>3. QED
      BY <1>2, <1>3, <2>4, <3>1, <3>2 DEF Shown
  <2>5. Shown(p, v, mem[pte[p][v].frame])'
    BY <1>2, <1>3, <2>3 DEF Shown, FromWrite
  <2>6. QED
    BY <1>2, <2>4, <2>5 DEF Showing
<1>11. QED
  BY <1>1, <1>6, <1>7, <1>8, <1>9, <1>10 DEF Roomed

\* get_user_page marks the frame under the hand, ...
LEMMA ClaimRoom ==
  ASSUME Types, Placing, Backed, NEW p \in Proc, Roomed(p), machine' = machine, Claim(p)
  PROVE  Roomed(p)'
<1>1. pc \in [Proc -> Label] /\ ft_status \in [Frame -> {"EMPTY", "FULL"}]
  BY TypeFacts
<1>2. /\ pc[p] = "claim" /\ bump_ptr \in Frame /\ bump_ptr' = bump_ptr
      /\ spt' = spt /\ pte' = pte /\ mem' = mem /\ written' = written /\ freed' = freed
      /\ pc'[p] = "name" /\ ft_vaddr' = ft_vaddr
  BY <1>1 DEF Claim, At, HandInTable, Goto, store, world
<1>3. ft_status' = [ft_status EXCEPT ![bump_ptr] = "FULL"]
  BY DEF Claim
<1>4. /\ \A f \in Frame : f # bump_ptr => Empty(f)' = Empty(f)
      /\ ~Empty(bump_ptr)' /\ Held(p)' = bump_ptr
  BY <1>1, <1>2, <1>3 DEF Empty, Held
<1>5. /\ Unevicted(p) /\ Searching(p) /\ Lodged(p) /\ Tight(p) /\ Showing(p) /\ freed = {}
      /\ Empty(bump_ptr)
  BY <1>2 DEF Roomed, Searching
<1>6. Frame' = Frame /\ max_frame' = max_frame
  BY SameSets
<1>7. Unevicted(p)'
  BY <1>2, <1>5 DEF Unevicted, Dirty, Resident, Clocking, Parting
<1>8. Searching(p)'
  BY <1>2, <1>5, <1>6 DEF Searching
<1>9. \A v : Present(p, v)' = Present(p, v)
  BY <1>2 DEF Present
<1>10. \A v \in Page : Present(p, v) => pte[p][v].frame \in Frame /\ pte[p][v].frame # bump_ptr
  BY <1>5 DEF Backed, Lodged
<1>11. Lodged(p)'
  BY <1>2, <1>4, <1>5, <1>9, <1>10 DEF Lodged
<1>12. Bringing(p)'
  BY <1>2, <1>4, <1>9, <1>10 DEF Bringing
<1>13. Tight(p)'
  <2>1. ASSUME NEW f \in Frame, ~Empty(f)' PROVE Occupied(p, f)'
    <3>1. CASE f = bump_ptr
      BY <1>2, <1>4, <3>1 DEF Occupied, Obtaining
    <3>2. CASE f # bump_ptr
      <4>1. Occupied(p, f) /\ ~Obtaining(p)
        BY <1>2, <1>4, <1>5, <2>1, <3>2 DEF Tight, Obtaining
      <4>2. QED
        BY <1>2, <1>9, <4>1 DEF Occupied
    <3>3. QED
      BY <3>1, <3>2
  <2>2. QED
    BY <1>6, <2>1 DEF Tight
<1>14. Showing(p)' /\ Filled(p)'
  BY <1>2, <1>5, <1>9 DEF Showing, Shown, Filled
<1>15. QED
  BY <1>2, <1>5, <1>7, <1>8, <1>11, <1>12, <1>13, <1>14 DEF Roomed

\* ... names it, and returns it.
LEMMA TakeRoom ==
  ASSUME Types, Placing, Backed, NEW p \in Proc, Roomed(p), machine' = machine,
         Name(p) \/ Take(p)
  PROVE  Roomed(p)'
<1>1. /\ pc \in [Proc -> Label] /\ got \in [Proc -> Frame \cup {NONE}]
      /\ ft_vaddr \in [Frame -> Page \cup {NONE}]
  BY TypeFacts
<1>2. /\ pc[p] \in {"name", "take"} /\ bump_ptr \in Frame /\ bump_ptr' = bump_ptr /\ arg' = arg
      /\ spt' = spt /\ pte' = pte /\ mem' = mem /\ written' = written /\ freed' = freed
      /\ ft_status' = ft_status
  BY DEF Name, Take, At, HandInTable, ft, store, world, local
<1>3. pc'[p] \in {"take", "fill"} /\ Held(p) = bump_ptr /\ Held(p)' = bump_ptr
  <2>1. CASE Name(p)
    BY <1>1, <1>2, <2>1 DEF Name, Goto, Held
  <2>2. CASE Take(p)
    BY <1>1, <1>2, <2>2 DEF Take, Goto, Held
  <2>3. QED
    BY <2>1, <2>2
<1>4. /\ Unevicted(p) /\ Searching(p) /\ Lodged(p) /\ Tight(p) /\ Showing(p) /\ freed = {}
      /\ Bringing(p) /\ Obtaining(p) /\ Obtaining(p)'
  BY <1>2, <1>3 DEF Roomed, Obtaining
<1>5. /\ \A f \in Frame : f # bump_ptr => ft_vaddr'[f] = ft_vaddr[f]
      /\ ft_vaddr'[bump_ptr] = arg[p]
  <2>1. CASE Name(p)
    BY <1>1, <1>2, <2>1 DEF Name
  <2>2. CASE Take(p)
    BY <1>3, <1>4, <2>2 DEF Take, ft, Bringing, At
  <2>3. QED
    BY <2>1, <2>2
<1>6. Frame' = Frame /\ max_frame' = max_frame
  BY SameSets
<1>7. Unevicted(p)'
  BY <1>2, <1>3, <1>4 DEF Unevicted, Dirty, Resident, Clocking, Parting
<1>8. Searching(p)'
  BY <1>2, <1>3, <1>4, <1>6 DEF Searching
<1>9. (\A v : Present(p, v)' = Present(p, v)) /\ \A f : Empty(f)' = Empty(f)
  BY <1>2 DEF Present, Empty
<1>10. \A v \in Page : Present(p, v) => pte[p][v].frame \in Frame /\ pte[p][v].frame # bump_ptr
  BY <1>3, <1>4 DEF Backed, Bringing
<1>11. Lodged(p)'
  BY <1>2, <1>4, <1>5, <1>9, <1>10 DEF Lodged
<1>12. ~Empty(bump_ptr)
  BY <1>3, <1>4 DEF Bringing
<1>13. Bringing(p)'
  BY <1>2, <1>3, <1>5, <1>9, <1>10, <1>12 DEF Bringing
<1>14. \A f : Occupied(p, f) => Occupied(p, f)'
  BY <1>2, <1>3, <1>4, <1>9 DEF Occupied
<1>15. Tight(p)'
  BY <1>2, <1>4, <1>6, <1>9, <1>14 DEF Tight
<1>16. Showing(p)' /\ Filled(p)'
  BY <1>2, <1>3, <1>4, <1>9 DEF Showing, Shown, Filled
<1>17. QED
  BY <1>2, <1>4, <1>7, <1>8, <1>11, <1>13, <1>15, <1>16 DEF Roomed

\* The page is read from the file.
LEMMA FillRoom ==
  ASSUME Types, Placing, Backed, NEW p \in Proc, Roomed(p), machine' = machine, FillFile(p)
  PROVE  Roomed(p)'
<1>1. /\ pc[p] = "fill" /\ pc'[p] = "install" /\ spt' = spt /\ pte' = pte /\ arg' = arg
      /\ got' = got /\ written' = written /\ freed' = freed /\ bump_ptr' = bump_ptr
      /\ ft_status' = ft_status /\ ft_vaddr' = ft_vaddr
  BY TypeFacts DEF FillFile, At, Goto, local, world, ft
<1>2. /\ Unevicted(p) /\ Searching(p) /\ Lodged(p) /\ Tight(p) /\ Showing(p) /\ freed = {}
      /\ Bringing(p)
  BY DEF Roomed
<1>3. Frame' = Frame /\ max_frame' = max_frame
  BY SameSets
<1>4. got[p] \in Frame
  BY <1>1 DEF Placing, Placed
<1>5. /\ \A f \in Frame : f # got[p] => mem'[f] = mem[f]
      /\ arg[p] \in Text \cup Data => mem'[got[p]] = FromFile(p, arg[p])
  BY <1>4, MemSet DEF FillFile, FileRead
<1>6. \A f : Empty(f)' = Empty(f)
  BY <1>1 DEF Empty
<1>7. \A v : Present(p, v)' = Present(p, v)
  BY <1>1 DEF Present
<1>8. Obtaining(p) /\ Obtaining(p)' /\ Held(p) = got[p] /\ Held(p)' = got[p]
  BY <1>1 DEF Obtaining, Held
<1>9. Unevicted(p)' /\ Searching(p)'
  BY <1>1, <1>2, <1>3 DEF Unevicted, Searching, Dirty, Resident, Clocking, Parting
<1>10. Lodged(p)' /\ Bringing(p)'
  BY <1>1, <1>2, <1>6, <1>7, <1>8 DEF Lodged, Bringing
<1>11. Tight(p)'
  <2>1. \A f : Occupied(p, f) => Occupied(p, f)'
    BY <1>1, <1>7, <1>8 DEF Occupied
  <2>2. QED
    BY <1>1, <1>2, <1>3, <1>6, <2>1 DEF Tight
<1>12. Showing(p)'
  <2>1. ASSUME NEW v \in Page, Present(p, v) PROVE Shown(p, v, mem[pte[p][v].frame])'
    <3>1. pte[p][v].frame \in Frame /\ pte[p][v].frame # got[p]
      BY <1>2, <1>8, <2>1 DEF Backed, Bringing
    <3>2. mem'[pte'[p][v].frame] = mem[pte[p][v].frame]
      BY <1>1, <1>5, <3>1
    <3>3. Shown(p, v, mem[pte[p][v].frame])
      BY <1>2, <2>1 DEF Showing
    <3>4. QED
      BY <1>1, <3>2, <3>3 DEF Shown
  <2>2. QED
    BY <1>7, <2>1 DEF Showing
<1>13. Filled(p)'
  BY <1>1, <1>5 DEF Filled, FromFile
<1>14. QED
  BY <1>1, <1>2, <1>9, <1>10, <1>11, <1>12, <1>13 DEF Roomed

\* A page that is not mapped was not written to.
LEMMA AbsentUnwritten ==
  ASSUME NEW p \in Proc, Saved(p), Unevicted(p), NEW v \in Page, ~Present(p, v)
  PROVE  v \notin written[p]
<1>1. ~Unsaved(p, v) /\ ~Dirty(p, v)
  BY DEF Unevicted, Unsaved, Parting
<1>2. QED
  BY <1>1 DEF Saved

\* install_page.
LEMMA InstallRoom ==
  ASSUME Types, Placing, Backed, NEW p \in Proc, Saved(p), Roomed(p), machine' = machine,
         Install(p)
  PROVE  Roomed(p)'
<1>1. /\ pc[p] = "install" /\ pc \in [Proc -> Label] /\ written \in [Proc -> SUBSET Page]
      /\ got' = got /\ arg' = arg /\ freed' = freed /\ bump_ptr' = bump_ptr
      /\ ft_status' = ft_status /\ ft_vaddr' = ft_vaddr
  BY TypeFacts DEF Install, At, local, world, ft
<1>2. /\ Unevicted(p) /\ Searching(p) /\ Lodged(p) /\ Tight(p) /\ Showing(p) /\ freed = {}
      /\ Bringing(p) /\ Filled(p)
  BY DEF Roomed
<1>3. Frame' = Frame /\ max_frame' = max_frame
  BY SameSets
<1>4. got[p] \in Frame /\ arg[p] \in machine.page
  BY <1>1 DEF Placing, Placed, Outside
<1>5. PICK v \in Page : v = arg[p]
  BY <1>4, MachineFacts
<1>6. \A f : Empty(f)' = Empty(f)
  BY <1>1 DEF Empty
<1>7. CASE Present(p, v)
  <2>1. /\ pc'[p] = "exit" /\ pte' = pte /\ spt' = spt /\ mem' = mem /\ written' = written
    BY <1>1, <1>5, <1>7 DEF Install, Present, Goto, store
  <2>2. \A w : Present(p, w)' = Present(p, w)
    BY <2>1 DEF Present
  <2>3. Unevicted(p)'
    BY <1>2, <2>1 DEF Unevicted, Dirty, Resident, Clocking, Parting
  <2>4. Searching(p)'
    BY <1>1, <1>2, <1>3, <2>1 DEF Searching
  <2>5. Lodged(p)'
    BY <1>1, <1>2, <1>6, <2>1, <2>2 DEF Lodged
  <2>6. Showing(p)'
    BY <1>2, <2>1, <2>2 DEF Showing, Shown
  <2>7. Bringing(p)' /\ Tight(p)' /\ Filled(p)'
    BY <2>1 DEF Bringing, Tight, Filled, Obtaining
  <2>8. QED
    BY <1>1, <1>2, <2>3, <2>4, <2>5, <2>6, <2>7 DEF Roomed
<1>8. CASE ~Present(p, v)
  <2>1. PICK d, e, g : Installed(p, v, d, e, g)
    BY <1>4, <1>5, <1>8, InstallEffect
  <2>2. /\ pc'[p] = "user"
        /\ written' = IF ~e.entry THEN [written EXCEPT ![p] = @ \cup {v}] ELSE written
        /\ mem' = IF ~e.entry THEN [mem EXCEPT ![got[p]] = FromWrite(p, v)] ELSE mem
    BY <1>1, <1>5, <1>8, <2>1 DEF Install, Present, Installed, Goto
  <2>3. SetsEntry(spt, spt', p, v, d) /\ SetsEntry(pte, pte', p, v, g)
    BY <2>1 DEF Installed
  <2>4. /\ Present(p, v)' /\ pte'[p][v].frame = got[p]
        /\ \A w \in Page : w # v => /\ Present(p, w)' = Present(p, w)
                                    /\ pte'[p][w].frame = pte[p][w].frame
    BY <2>1, <2>3 DEF Installed, SetsEntry, Present
  <2>5. Unevicted(p)'
    <3>1. Resident(p, v)' /\ (Dirty(p, v)' => Dirty(p, v))
      BY <2>1, <2>3 DEF Installed, SetsEntry, Resident, Dirty
    <3>2. \A w \in Page : w # v => /\ Resident(p, w)' = Resident(p, w)
                                   /\ Dirty(p, w)' = Dirty(p, w)
                                   /\ spt'[p][w].is_stack_page = spt[p][w].is_stack_page
      BY <2>3 DEF SetsEntry, Resident, Dirty
    <3>3. QED
      BY <1>2, <2>2, <3>1, <3>2 DEF Unevicted, Clocking, Parting
  <2>6. Searching(p)'
    BY <1>1, <1>2, <1>3, <2>2 DEF Searching
  <2>7. ~Obtaining(p)' /\ Obtaining(p) /\ Held(p) = got[p]
    BY <1>1, <2>2 DEF Obtaining, Held
  <2>8. ~Empty(got[p]) /\ ft_vaddr[got[p]] = v
    BY <1>1, <1>2, <1>5, <2>7 DEF Bringing
  <2>9. Lodged(p)'
    BY <1>1, <1>2, <1>4, <1>5, <1>6, <2>4, <2>8 DEF Lodged
  <2>10. Bringing(p)' /\ Filled(p)'
    BY <2>2, <2>7 DEF Bringing, Filled
  <2>11. Tight(p)'
    <3>1. ASSUME NEW f \in Frame, Occupied(p, f) PROVE Occupied(p, f)'
      <4>1. CASE f = got[p]
        BY <2>4, <4>1 DEF Occupied
      <4>2. CASE f # got[p]
        <5>1. PICK w \in Page : Present(p, w) /\ pte[p][w].frame = f
          BY <2>7, <3>1, <4>2 DEF Occupied
        <5>2. w # v
          BY <1>8, <5>1
        <5>3. Present(p, w)' /\ pte'[p][w].frame = f
          BY <2>4, <5>1, <5>2
        <5>4. QED
          BY <5>3 DEF Occupied
      <4>3. QED
        BY <4>1, <4>2
    <3>2. QED
      BY <1>1, <1>2, <1>3, <1>6, <3>1 DEF Tight
  <2>12. Showing(p)'
    <3>1. \A w : w # v => (w \in written'[p] <=> w \in written[p])
      BY <1>1, <2>2
    <3>2. \A f \in Frame : f # got[p] => mem'[f] = mem[f]
      BY <2>2, MemSet
    <3>3. ASSUME NEW w \in Page, w # v, Present(p, w) PROVE Shown(p, w, mem[pte[p][w].frame])'
      <4>1. pte[p][w].frame \in Frame /\ pte[p][w].frame # got[p]
        BY <1>2, <2>7, <3>3 DEF Backed, Bringing
      <4>2. mem'[pte'[p][w].frame] = mem[pte[p][w].frame]
        BY <2>4, <3>2, <3>3, <4>1
      <4>3. Shown(p, w, mem[pte[p][w].frame])
        BY <1>2, <3>3 DEF Showing
      <4>4. QED
        BY <3>1, <3>3, <4>2, <4>3 DEF Shown
    <3>4. Shown(p, v, mem[pte[p][v].frame])'
      <4>1. CASE ~e.entry
        <5>1. v \in written'[p]
          BY <1>1, <2>2, <4>1
        <5>2. mem'[pte'[p][v].frame] = FromWrite(p, v)
          BY <1>4, <2>2, <2>4, <4>1, MemSet
        <5>3. QED
          BY <5>1, <5>2 DEF Shown, FromWrite
      <4>2. CASE e.entry
        <5>1. v \notin written[p]
          BY <1>2, <1>8, AbsentUnwritten
        <5>2. mem' = mem /\ written' = written
          BY <2>2, <4>2
        <5>3. v \in Text \cup Data => mem[got[p]] = FromFile(p, v)
          BY <1>1, <1>2, <1>5 DEF Filled
        <5>4. QED
          BY <2>4, <5>1, <5>2, <5>3 DEF Shown, FromFile
      <4>3. QED
        BY <4>1, <4>2
    <3>5. QED
      BY <2>4, <3>3, <3>4 DEF Showing
  <2>13. QED
    BY <1>1, <1>2, <2>5, <2>6, <2>9, <2>10, <2>11, <2>12 DEF Roomed
<1>9. QED
  BY <1>7, <1>8

\* The steps of evict_page.
EvictStep(p) ==
  \/ EvictTest(p) \/ Clear(p) \/ Turn(p) \/ EvictWrap(p) \/ EvictZero(p) \/ SetEmpty(p)
  \/ Victim(p) \/ DirtyTest(p) \/ Remember(p) \/ Save(p) \/ FindSlot(p) \/ SwapOut(p)
  \/ Unmap(p)

\* The steps of eviction and of swap are not taken, and the hand does not stray.
LEMMA NoEviction ==
  ASSUME Types, Placing, NEW p \in Proc, Roomed(p)
  PROVE  ~EvictStep(p) /\ ~Stray(p) /\ ~FillSwap(p)
<1>1. Unevicted(p) /\ Searching(p)
  BY DEF Roomed
<1>2. pc[p] \notin Clocking \cup Parting
  BY <1>1 DEF Unevicted
<1>3. ~EvictStep(p)
  BY <1>2 DEF EvictStep, EvictTest, Clear, Turn, EvictWrap, EvictZero, SetEmpty, Victim, DirtyTest,
     Remember, Save, FindSlot, SwapOut, Unmap, At, Clocking, Parting
<1>4. ~Stray(p)
  BY <1>1, HandIn DEF Stray, At
<1>5. ASSUME FillSwap(p) PROVE FALSE
  <2>1. /\ pc[p] = "fill" /\ ~spt[p][arg[p]].resident_bit
        /\ spt[p][arg[p]].dirty_bit \/ spt[p][arg[p]].is_stack_page
    BY <1>5 DEF FillSwap, At
  <2>2. arg[p] \in Page
    BY <2>1, MachineFacts DEF Placing, Placed, Outside
  <2>3. QED
    BY <1>1, <2>1, <2>2 DEF Unevicted, Dirty, Resident
<1>6. QED
  BY <1>3, <1>4, <1>5

(***************************************************************************)
(* The frames and the pages are counted.                                   *)
(***************************************************************************)
INSTANCE FiniteSetTheorems

\* A frame is empty when the process runs, since there are more than pages.
LEMMA Spare ==
  ASSUME Types, Roomy, NEW p \in Proc, Roomed(p), pc[p] # "exit", ~Obtaining(p)
  PROVE  \E f \in Frame : Empty(f)
<1> SUFFICES ASSUME \A f \in Frame : ~Empty(f) PROVE FALSE
  OBVIOUS
<1>1. max_frame \in Nat /\ 0 < max_frame /\ machine.page \subseteq Page
  BY MachineFacts
<1>2. Lodged(p) /\ Tight(p)
  BY DEF Roomed
<1>3. \A f \in Frame : \E v \in Page : Present(p, v) /\ pte[p][v].frame = f
  BY <1>2 DEF Tight, Occupied
<1>4. \A f \in Frame : /\ ft_vaddr[f] \in machine.page
                       /\ Present(p, ft_vaddr[f]) /\ pte[p][ft_vaddr[f]].frame = f
  <2>1. ASSUME NEW f \in Frame
        PROVE  /\ ft_vaddr[f] \in machine.page
               /\ Present(p, ft_vaddr[f]) /\ pte[p][ft_vaddr[f]].frame = f
    <3>1. PICK v \in Page : Present(p, v) /\ pte[p][v].frame = f
      BY <1>3
    <3>2. v \in machine.page /\ ft_vaddr[f] = v
      BY <1>2, <3>1 DEF Lodged
    <3>3. QED
      BY <3>1, <3>2
  <2>2. QED
    BY <2>1
<1>5. ft_vaddr \in [Frame -> Page \cup {NONE}]
  BY TypeFacts
<1>6. ft_vaddr \in [Frame -> machine.page]
  BY <1>4, <1>5
<1>7. IsFiniteSet(machine.page)
  BY <1>1, VMAssumption, FS_Subset
<1>8. Cardinality(machine.page) \in Nat
  BY <1>7, FS_CardinalityType
<1>9. IsFiniteSet(Frame) /\ Cardinality(Frame) = max_frame
  <2>1. 0 \in Int /\ max_frame - 1 \in Int /\ ~(0 > max_frame - 1)
        /\ (max_frame - 1) - 0 + 1 = max_frame
    BY <1>1, SMT
  <2>2. QED
    BY <2>1, FS_Interval DEF Frame
<1>10. Cardinality(machine.page) < Cardinality(Frame)
  BY <1>8, <1>9, <1>1, SMT DEF Roomy
<1>11. PICK x, y \in Frame : x # y /\ ft_vaddr[x] = ft_vaddr[y]
  BY <1>6, <1>7, <1>9, <1>10, FS_PigeonHole, SMT
<1>12. QED
  BY <1>4, <1>11

\* pagedir_destroy frees as many frames as there are pages.
LEMMA FreesOnce ==
  ASSUME Types, Backed, NEW p \in Proc, Lodged(p), NEW F, F = {pte[p][v].frame : v \in Mapped(p)}
  PROVE  Cardinality(F) = Cardinality(Mapped(p))
<1>1. DEFINE h == [v \in Mapped(p) |-> pte[p][v].frame]
<1>2. \A v \in Mapped(p) : v \in Page /\ Present(p, v)
  BY DEF Mapped, Present
<1>3. h \in [Mapped(p) -> F] /\ \A t \in F : \E v \in Mapped(p) : h[v] = t
  OBVIOUS
<1>4. \A v, w \in Mapped(p) : h[v] = h[w] => v = w
  BY <1>2, Apart
<1>5. h \in Bijection(Mapped(p), F)
  BY <1>3, <1>4 DEF Bijection, Injection, Surjection, IsInjective
<1>6. ExistsBijection(Mapped(p), F)
  BY <1>5 DEF ExistsBijection
<1>7. IsFiniteSet(Mapped(p))
  <2>1. Mapped(p) \in SUBSET Page
    BY DEF Mapped
  <2>2. QED
    BY <2>1, VMAssumption, FS_Subset
<1>8. QED
  BY <1>6, <1>7, FS_Bijection

\* process_exit does not panic.
LEMMA ExitRoom ==
  ASSUME Types, Backed, NEW p \in Proc, Roomed(p), Exit(p)
  PROVE  kernel' = kernel /\ pc'[p] = "gone"
<1>1. PICK F : F = {pte[p][v].frame : v \in Mapped(p)}
  OBVIOUS
<1>2. Lodged(p) /\ freed = {}
  BY DEF Roomed
<1>3. F \cap freed = {}
  BY <1>2
<1>4. Cardinality(F) = Cardinality(Mapped(p))
  BY <1>1, <1>2, FreesOnce
<1>5. kernel' = kernel /\ Goto(p, "gone")
  BY <1>1, <1>3, <1>4 DEF Exit
<1>6. QED
  BY <1>5, TypeFacts DEF Goto

\* A step of a lone process.
LEMMA RoomMove ==
  ASSUME Types, Placing, Backed, Roomy, LoneInv, NEW p \in Proc, Lone(p), Roomed(p),
         machine' = machine, Handler(p) \/ User(p), kernel = "up"
  PROVE  kernel' = "up" /\ (pc'[p] # "gone" => Roomed(p)')
<1>1. machine.page \subseteq Page
  BY MachineFacts
<1>2. CASE Exit(p)
  BY <1>2, ExitRoom
<1>3. ASSUME ~Exit(p) PROVE kernel' = "up"
  BY <1>3, NoEviction DEF EvictStep, Handler, User, LoadSegment, Search, Bump, SearchWrap, SearchZero,
     Wrap, Zero, Claim, Name, Take, FillFile, Install, Leave, Read, Write, Fault, FaultGrow, world
<1>4. ASSUME LoadSegment(p) \/ \E v \in machine.page : Fault(p, v) \/ FaultGrow(p, v)
      PROVE  Roomed(p)'
  <2>1. pc[p] # "exit" /\ ~Obtaining(p)
    BY <1>4 DEF LoadSegment, Fault, FaultGrow, At, Obtaining
  <2>2. PICK f \in Frame : Empty(f)
    BY <2>1, Spare
  <2>3. QED
    BY <1>4, <2>2, StartRoom
<1>5. ASSUME Install(p) PROVE Roomed(p)'
  <2>1. pc[p] = "install"
    BY <1>5 DEF Install, At
  <2>2. Saved(p)
    BY <2>1 DEF LoneInv, Alone
  <2>3. QED
    BY <1>5, <2>2, InstallRoom
<1>6. ASSUME NEW v \in machine.page, Write(p, v) PROVE Roomed(p)'
  BY <1>1, <1>6, WriteRoom
<1>7. ASSUME ~Exit(p) PROVE Roomed(p)'
  <2>1. CASE Search(p) \/ Bump(p) \/ SearchWrap(p) \/ SearchZero(p)
    BY <2>1, SearchRoom
  <2>2. CASE Claim(p) \/ Name(p) \/ Take(p)
    BY <2>2, ClaimRoom, TakeRoom
  <2>3. CASE FillFile(p)
    BY <2>3, FillRoom
  <2>4. CASE Leave(p) \/ \E v \in machine.page : Read(p, v)
    BY <2>4, ReadRoom
  <2>5. CASE User(p)
    BY <1>4, <1>6, <2>4, <2>5 DEF User
  <2>6. CASE Handler(p)
    BY <1>4, <1>5, <1>7, <2>1, <2>2, <2>3, <2>6, NoEviction DEF EvictStep, Handler
  <2>7. QED
    BY <2>5, <2>6
<1>8. QED
  BY <1>2, <1>3, <1>7

\* Every step keeps RoomInv.
LEMMA RoomStep ==
  ASSUME Types, Placing, Backed, LoneInv, RoomInv, [Next]_vars
  PROVE  RoomInv'
<1> SUFFICES ASSUME Roomy'
             PROVE  /\ kernel' = "up"
                    /\ \A p \in Proc : Lone(p)' /\ pc'[p] # "gone" => Roomed(p)'
  BY DEF RoomInv
<1>1. machine' = machine
  BY SameMachine
<1>2. Roomy /\ kernel = "up" /\ \A p : Lone(p)' = Lone(p)
  BY <1>1, SameSets DEF RoomInv, Roomy, Lone
<1>3. CASE UNCHANGED vars
  <2>1. kernel' = kernel /\ pc' = pc
    BY <1>3 DEF vars, world
  <2>2. ASSUME NEW p \in Proc, Roomed(p) PROVE Roomed(p)'
    <3>1. /\ Unevicted(p) /\ Searching(p) /\ Lodged(p) /\ Bringing(p) /\ Tight(p)
          /\ Showing(p) /\ Filled(p) /\ freed = {}
      BY <2>2 DEF Roomed
    <3>2. /\ ft_status' = ft_status /\ ft_vaddr' = ft_vaddr /\ bump_ptr' = bump_ptr
          /\ pte' = pte /\ spt' = spt /\ mem' = mem /\ written' = written /\ pc' = pc
          /\ arg' = arg /\ total' = total /\ got' = got /\ freed' = freed
          /\ Frame' = Frame /\ max_frame' = max_frame
      BY <1>1, <1>3, SameSets DEF vars, ft, store, local, world
    <3>3. /\ \A v : /\ Present(p, v)' = Present(p, v) /\ Dirty(p, v)' = Dirty(p, v)
                    /\ Resident(p, v)' = Resident(p, v)
          /\ \A f : Empty(f)' = Empty(f) /\ Occupied(p, f)' = Occupied(p, f)
          /\ Obtaining(p)' = Obtaining(p)
      BY <3>2 DEF Present, Dirty, Resident, Empty, Occupied, Obtaining, Held
    <3>4. Unevicted(p)' /\ Lodged(p)'
      BY <1>1, <3>1, <3>2, <3>3 DEF Unevicted, Lodged
    <3>5. Searching(p)'
      BY <3>1, <3>2, <3>3 DEF Searching, InSight, Ahead
    <3>6. Bringing(p)' /\ Tight(p)'
      BY <3>1, <3>2, <3>3 DEF Bringing, Tight, Held
    <3>7. Showing(p)' /\ Filled(p)'
      BY <3>1, <3>2, <3>3 DEF Showing, Shown, Filled
    <3>8. QED
      BY <3>1, <3>2, <3>4, <3>5, <3>6, <3>7 DEF Roomed
  <2>3. QED
    BY <1>2, <2>1, <2>2 DEF RoomInv
<1>4. ASSUME NEW p \in Proc, Handler(p) \/ User(p)
      PROVE  /\ kernel' = "up"
             /\ \A q \in Proc : Lone(q) /\ pc'[q] # "gone" => Roomed(q)'
  <2>1. PICK q \in Proc : Lone(q)
    <3>1. IsFiniteSet(machine.proc)
      BY MachineFacts, VMAssumption, FS_Subset
    <3>2. PICK q : machine.proc = {q}
      BY <1>2, <3>1, FS_Singleton DEF Roomy
    <3>3. QED
      BY <3>2, MachineFacts DEF Lone
  <2>2. p = q
    BY <1>4, <2>1, OnlyOne
  <2>3. \A r \in Proc : Lone(r) => r = p
    BY <2>1, <2>2 DEF Lone
  <2>4. pc[p] # "gone"
    BY <1>4, Underway
  <2>5. Lone(p) /\ Roomed(p)
    BY <1>2, <2>1, <2>2, <2>4 DEF RoomInv
  <2>6. kernel' = "up" /\ (pc'[p] # "gone" => Roomed(p)')
    BY <1>1, <1>2, <1>4, <2>5, RoomMove
  <2>7. QED
    BY <2>3, <2>6
<1>5. QED
  BY <1>2, <1>3, <1>4 DEF Next, Stopped

\* Initially all frames are empty.
LEMMA InitRoom == Init => RoomInv
<1> SUFFICES ASSUME Init, NEW p \in Proc, Lone(p) PROVE Roomed(p)
  BY DEF RoomInv, Init
<1>1. Types
  BY InitTypes
<1>2. max_frame \in Nat /\ 0 < max_frame /\ 0 \in 0 .. max_frame
  BY <1>1, MachineFacts
<1>3. pc[p] = "start" /\ bump_ptr = 0 /\ freed = {}
  BY DEF Init, Lone
<1>4. ~NoPte.present
  BY DEF NoPte
<1>5. \A v \in Page : ~Present(p, v) /\ spt[p][v] = NoSPTEntry
  BY <1>4 DEF Init, Present
<1>6. \A f \in Frame : Empty(f)
  BY DEF Init, Empty
<1>7. Unevicted(p)
  BY <1>3, <1>5, NoField DEF Unevicted, Dirty, Clocking, Parting
<1>8. Searching(p)
  <2>1. 0 # max_frame
    BY <1>2, SMT
  <2>2. QED
    BY <1>2, <1>3, <2>1 DEF Searching
<1>9. Lodged(p) /\ Showing(p)
  BY <1>5 DEF Lodged, Showing
<1>10. Bringing(p) /\ Filled(p)
  BY <1>3 DEF Bringing, Filled, Obtaining
<1>11. Tight(p)
  BY <1>6 DEF Tight
<1>12. QED
  BY <1>3, <1>7, <1>8, <1>9, <1>10, <1>11 DEF Roomed

\* What a lone process with room sees.
LEMMA RoomShows ==
  ASSUME Types, Placing, Backed, RoomInv
  PROVE  Transparent
<1> SUFFICES ASSUME Roomy
             PROVE  /\ EmptyIsFree
                    /\ kernel = "up"
                    /\ \A p \in Proc : pc[p] = "user" => \A v \in Mapped(p) :
                         Shown(p, v, mem[pte[p][v].frame])
  BY DEF Transparent, Shown
<1>1. kernel = "up"
  BY DEF RoomInv
<1>2. PICK q \in Proc : Lone(q)
  <2>1. IsFiniteSet(machine.proc)
    BY MachineFacts, VMAssumption, FS_Subset
  <2>2. PICK q : machine.proc = {q}
    BY <2>1, FS_Singleton DEF Roomy
  <2>3. QED
    BY <2>2, MachineFacts DEF Lone
<1>3. \A p \in Proc : pc[p] # "gone" => p = q
  BY <1>2 DEF Placing, Placed, Lone
<1>4. ASSUME NEW p \in Proc, pc[p] = "user", NEW v \in Mapped(p)
      PROVE  Shown(p, v, mem[pte[p][v].frame])
  <2>1. p = q /\ Roomed(p)
    BY <1>2, <1>3, <1>4 DEF RoomInv
  <2>2. Showing(p) /\ v \in Page /\ Present(p, v)
    BY <1>4, <2>1 DEF Roomed, Mapped, Present
  <2>3. QED
    BY <2>2 DEF Showing
<1>5. EmptyIsFree
  <2> SUFFICES ASSUME NEW f \in Frame, Empty(f), \A p \in machine.proc : pc[p] = "user",
                      NEW x \in Proc \X Page, pte[x[1]][x[2]].present,
                      pte[x[1]][x[2]].frame = f
               PROVE  FALSE
    BY DEF EmptyIsFree, Backing, Empty
  <2>1. PICK p \in Proc, v \in Page : p = x[1] /\ v = x[2]
    OBVIOUS
  <2>2. Present(p, v) /\ pte[p][v].frame = f
    BY <2>1 DEF Present
  <2>3. p \in machine.proc
    BY <2>2 DEF Backed
  <2>4. pc[p] = "user" /\ Lone(p)
    BY <1>2, <2>3 DEF Lone
  <2>5. Lodged(p)
    BY <2>4 DEF RoomInv, Roomed
  <2>6. QED
    BY <2>2, <2>5 DEF Lodged
<1>6. QED
  BY <1>1, <1>4, <1>5

(***************************************************************************)
(* The theorems.                                                           *)
(***************************************************************************)
VMInv == Types /\ Placing /\ Backed /\ LoneInv /\ RoomInv

\* The invariant holds at every step.
LEMMA VMInvariant == Spec => []VMInv
<1>1. Init => VMInv
  BY InitTypes, InitLone, InitRoom DEF VMInv
<1>2. VMInv /\ [Next]_vars => VMInv'
  <2> SUFFICES ASSUME VMInv, [Next]_vars PROVE VMInv'
    OBVIOUS
  <2>1. Types /\ Placing /\ Backed /\ LoneInv /\ RoomInv
    BY DEF VMInv
  <2>2. Types' /\ Placing' /\ Backed'
    BY <2>1, StepTypes
  <2>3. LoneInv'
    BY <2>1, LoneStep
  <2>4. RoomInv'
    BY <2>1, RoomStep
  <2>5. QED
    BY <2>2, <2>3, <2>4 DEF VMInv
<1>3. QED
  BY <1>1, <1>2, PTL DEF Spec

\* get_user_page, evict_page, page_fault and install_page: between faults the
\* page directory and the supplemental page table of a lone process agree, and
\* the slots of the swap table that are its own are those of its absent pages,
\* one each, whatever the number of pages, frames and slots.
THEOREM TablesStayInStep == Spec => []TablesAgree
<1>1. VMInv => TablesAgree
  BY LoneAgree DEF VMInv
<1>2. QED
  BY VMInvariant, <1>1, PTL

\* page_fault never reads again from the file a page that a lone process wrote
\* to, whatever the evictions in between.
THEOREM WritesSurvive == Spec => []NoStaleReload
<1>1. VMInv => NoStaleReload
  BY LoneReload DEF VMInv
<1>2. QED
  BY VMInvariant, <1>1, PTL

\* With a frame for every page and one more, get_user_page never evicts, each
\* page shows what the file holds or what the process wrote, no page is in a
\* frame marked empty, and process_exit frees every frame once.
THEOREM PagingUnseen == Spec => []Transparent
<1>1. VMInv => Transparent
  BY RoomShows DEF VMInv
<1>2. QED
  BY VMInvariant, <1>1, PTL
=============================================================================
