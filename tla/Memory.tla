------------------------------- MODULE Memory -------------------------------
(***************************************************************************)
(* The kernel's memory: the page allocator (src/threads/palloc.c), its     *)
(* bitmap (src/lib/kernel/bitmap.c) and the block allocator built on it    *)
(* (src/threads/malloc.c), used by several threads.                        *)
(*                                                                         *)
(* palloc_get_multiple holds the lock of the pool; palloc_free_multiple    *)
(* does not, and clears the bits of its pages one at a time.  A descriptor *)
(* keeps its lock while it gets or returns the page of an arena.           *)
(***************************************************************************)
EXTENDS Integers, Sequences, FiniteSets, Functions, TLC

CONSTANTS
  Thread, Null,
  Pages,        \* pages of the kernel pool
  Desc,         \* descriptors
  BlockCount,   \* blocks_per_arena of each
  BigPages      \* pages of a block too big for any descriptor

ASSUME MemoryAssumption ==
  /\ Pages \in Nat /\ BigPages \in Nat \ {0} /\ BlockCount \in Nat \ {0}
  /\ Null \notin Thread \cup Desc
  /\ Null \notin [desc : Desc \cup {Null}, free_cnt : Nat]

VARIABLES
  used_map, pool_lock,
  arena,       \* page -> its header, Null when the page holds none
  free_list,   \* of each descriptor
  desc_lock,
  given,       \* blocks returned by malloc and not passed to free
  pc,          \* idle, scan, test, flip, init, pop, free, assert, clear
  desc,        \* the descriptor a call is about, Null for a big block
  block,       \* the block passed to free
  page, cnt,   \* the pages it is about
  seen,        \* how many of them the scan has found free
  panic        \* an assertion has failed

callVars == <<pc, desc, block, page, cnt, seen>>
memoryVars == <<used_map, pool_lock, arena, free_list, desc_lock, given, callVars, panic>>

Page == 0 .. Pages - 1

\* The block at an index of an arena; a big block has index 0.
Block == Page \X (0 .. BlockCount - 1)

blocks_per_arena(d) == BlockCount

BlocksOf(p, d) == [i \in 1 .. blocks_per_arena(d) |-> <<p, i - 1>>]

Run(p, n) == p .. p + n - 1

Doing(t, label) == ~panic /\ pc[t] = label

Goto(t, label) == pc' = [pc EXCEPT ![t] = label]

\* The call returns; its variables are dead.
Finish(t) ==
  /\ Goto(t, "idle")
  /\ desc' = [desc EXCEPT ![t] = Null]
  /\ block' = [block EXCEPT ![t] = Null]
  /\ page' = [page EXCEPT ![t] = 0]
  /\ cnt' = [cnt EXCEPT ![t] = 0]
  /\ seen' = [seen EXCEPT ![t] = 0]

Unlock(t) == desc_lock' = IF desc[t] = Null THEN desc_lock
                          ELSE [desc_lock EXCEPT ![desc[t]] = Null]

(***************************************************************************)
(* malloc.                                                                 *)
(***************************************************************************)
MallocBig(t) ==
  /\ Doing(t, "idle")
  /\ desc' = [desc EXCEPT ![t] = Null]
  /\ cnt' = [cnt EXCEPT ![t] = BigPages]
  /\ Goto(t, "scan")
  /\ UNCHANGED <<used_map, pool_lock, arena, free_list, desc_lock, given, block, page, seen, panic>>

Malloc(t, d) ==
  /\ Doing(t, "idle") /\ desc_lock[d] = Null
  /\ desc_lock' = [desc_lock EXCEPT ![d] = t]
  /\ desc' = [desc EXCEPT ![t] = d]
  /\ cnt' = [cnt EXCEPT ![t] = 1]
  /\ Goto(t, IF free_list[d] = <<>> THEN "scan" ELSE "pop")
  /\ UNCHANGED <<used_map, pool_lock, arena, free_list, given, block, page, seen, panic>>

\* Mutation: the lock of the pool is not taken.
Scan_Unlocked(t) ==
  /\ Doing(t, "scan")
  /\ page' = [page EXCEPT ![t] = 0]
  /\ Goto(t, "test")
  /\ UNCHANGED <<used_map, pool_lock, arena, free_list, desc_lock, given, desc, block, cnt,
                 seen, panic>>

\* palloc_get_multiple takes the lock...
Scan(t) ==
  /\ Doing(t, "scan") /\ pool_lock = Null
  /\ pool_lock' = t
  /\ page' = [page EXCEPT ![t] = 0]
  /\ Goto(t, "test")
  /\ UNCHANGED <<used_map, arena, free_list, desc_lock, given, desc, block, cnt, seen, panic>>

\* ... and bitmap_scan goes over the places for a run of cnt pages, testing one
\* bit at a time: a used page sends it to the next place,
TestUsed(t) ==
  /\ Doing(t, "test") /\ page[t] + cnt[t] <= Pages
  /\ used_map[page[t] + seen[t]]
  /\ page' = [page EXCEPT ![t] = @ + 1]
  /\ seen' = [seen EXCEPT ![t] = 0]
  /\ UNCHANGED <<used_map, pool_lock, arena, free_list, desc_lock, given, pc, desc, block,
                 cnt, panic>>

\* a free one to the next bit, or to the end of the run,
TestFree(t) ==
  /\ Doing(t, "test") /\ page[t] + cnt[t] <= Pages
  /\ ~used_map[page[t] + seen[t]]
  /\ IF seen[t] + 1 < cnt[t]
     THEN seen' = [seen EXCEPT ![t] = @ + 1] /\ UNCHANGED pc
     ELSE seen' = [seen EXCEPT ![t] = 0] /\ Goto(t, "flip")
  /\ UNCHANGED <<used_map, pool_lock, arena, free_list, desc_lock, given, desc, block, page,
                 cnt, panic>>

\* and behind the last place there is no memory: malloc returns null.
NoPages(t) ==
  /\ Doing(t, "test") /\ page[t] + cnt[t] > Pages
  /\ pool_lock' = Null
  /\ Finish(t) /\ Unlock(t)
  /\ UNCHANGED <<used_map, arena, free_list, given, panic>>

\* bitmap_set_multiple.  The bits it sets, one by one, are those of pages that
\* nobody else has, and whoever scans waits for the lock: one step.
Flip(t) ==
  /\ Doing(t, "flip")
  /\ used_map' = [p \in Page |-> p \in Run(page[t], cnt[t]) \/ used_map[p]]
  /\ pool_lock' = Null
  /\ Goto(t, "init")
  /\ UNCHANGED <<arena, free_list, desc_lock, given, desc, block, page, cnt, seen, panic>>

InitBig(t) ==
  /\ Doing(t, "init") /\ desc[t] = Null
  /\ arena' = [arena EXCEPT ![page[t]] = [desc |-> Null, free_cnt |-> cnt[t]]]
  /\ given' = given \cup {<<page[t], 0>>}
  /\ Finish(t)
  /\ UNCHANGED <<used_map, pool_lock, free_list, desc_lock, panic>>

InitArena(t) ==
  LET d == desc[t] IN
  /\ Doing(t, "init") /\ d # Null
  /\ arena' = [arena EXCEPT ![page[t]] =
                 [desc |-> d, free_cnt |-> blocks_per_arena(d)]]
  /\ free_list' = [free_list EXCEPT ![d] = @ \o BlocksOf(page[t], d)]
  /\ Goto(t, "pop")
  /\ UNCHANGED <<used_map, pool_lock, desc_lock, given, desc, block, page, cnt, seen, panic>>

\* list_pop_front asserts that the list is not empty, block_to_arena that the
\* page of the block is an arena.
PopBlock(t) ==
  LET d == desc[t]
      b == Head(free_list[d])
  IN
  /\ Doing(t, "pop")
  /\ IF free_list[d] = <<>> \/ arena[b[1]] = Null
     THEN panic' = TRUE /\ UNCHANGED <<arena, free_list, desc_lock, given, callVars>>
     ELSE /\ free_list' = [free_list EXCEPT ![d] = Tail(@)]
          /\ arena' = [arena EXCEPT ![b[1]].free_cnt = @ - 1]
          /\ given' = given \cup {b}
          /\ Unlock(t)
          /\ Finish(t)
          /\ UNCHANGED panic
  /\ UNCHANGED <<used_map, pool_lock>>

(***************************************************************************)
(* free.                                                                   *)
(***************************************************************************)
\* The block's arena tells its descriptor, or the pages of a big block.
FreeBlock(t, b) ==
  LET a == arena[b[1]] IN
  /\ Doing(t, "idle") /\ b \in given
  /\ given' = given \ {b}
  /\ IF a = Null
     THEN panic' = TRUE /\ UNCHANGED callVars
     ELSE /\ desc' = [desc EXCEPT ![t] = a.desc]
          /\ block' = [block EXCEPT ![t] = b]
          /\ page' = [page EXCEPT ![t] = b[1]]
          /\ cnt' = [cnt EXCEPT ![t] = IF a.desc = Null THEN a.free_cnt ELSE 1]
          /\ Goto(t, IF a.desc = Null THEN "assert" ELSE "free")
          /\ UNCHANGED <<seen, panic>>
  /\ UNCHANGED <<used_map, pool_lock, arena, free_list, desc_lock>>

\* Mutation: the blocks of an arena that is given back stay on the free list.
WithoutArena_Kept(list, p) == list

\* list_remove for every block of an arena: the other blocks keep their order,
\* so the one with k of them up to its place comes to place k.
WithoutArena(list, p) ==
  LET others == {i \in DOMAIN list : list[i][1] # p}
      upto(i) == {j \in others : j <= i}
  IN  [k \in 1 .. Cardinality(others) |->
         list[CHOOSE i \in others : Cardinality(upto(i)) = k]]

\* The block goes to the front of the free list; an arena that is entirely
\* unused is taken apart and its page freed.
FreeLocked(t) ==
  LET d == desc[t]
      b == block[t]
      free_cnt == arena[b[1]].free_cnt + 1
      list == <<b>> \o free_list[d]
  IN
  /\ Doing(t, "free") /\ desc_lock[d] = Null
  /\ arena' = [arena EXCEPT ![b[1]].free_cnt = free_cnt]
  /\ panic' = (free_cnt > blocks_per_arena(d))
  /\ IF free_cnt >= blocks_per_arena(d)
     THEN /\ free_list' = [free_list EXCEPT ![d] = WithoutArena(list, b[1])]
          /\ desc_lock' = [desc_lock EXCEPT ![d] = t]
          /\ Goto(t, "assert")
          /\ UNCHANGED <<desc, block, page, cnt, seen>>
     ELSE /\ free_list' = [free_list EXCEPT ![d] = list]
          /\ Finish(t)
          /\ UNCHANGED desc_lock
  /\ UNCHANGED <<used_map, pool_lock, given>>

\* palloc_free_multiple overwrites the pages and asserts that they are used...
FreePages(t) ==
  /\ Doing(t, "assert")
  /\ arena' = [p \in Page |-> IF p \in Run(page[t], cnt[t]) THEN Null ELSE arena[p]]
  /\ panic' = (\E p \in Run(page[t], cnt[t]) : ~used_map[p])
  /\ Goto(t, "clear")
  /\ UNCHANGED <<used_map, pool_lock, free_list, desc_lock, given, desc, block,
                 page, cnt, seen>>

\* ... and bitmap_set_multiple clears a bit at a time.
Clear(t) ==
  /\ Doing(t, "clear")
  /\ used_map' = [used_map EXCEPT ![page[t]] = FALSE]
  /\ IF cnt[t] = 1
     THEN Finish(t) /\ Unlock(t)
     ELSE /\ page' = [page EXCEPT ![t] = @ + 1]
          /\ cnt' = [cnt EXCEPT ![t] = @ - 1]
          /\ UNCHANGED <<pc, desc, block, seen, desc_lock>>
  /\ UNCHANGED <<pool_lock, arena, free_list, given, panic>>

-----------------------------------------------------------------------------
MemoryInit ==
  /\ used_map = [p \in Page |-> FALSE] /\ pool_lock = Null
  /\ arena = [p \in Page |-> Null]
  /\ free_list = [d \in Desc |-> <<>>]
  /\ desc_lock = [d \in Desc |-> Null]
  /\ given = {}
  /\ pc = [t \in Thread |-> "idle"]
  /\ desc = [t \in Thread |-> Null]
  /\ block = [t \in Thread |-> Null]
  /\ page = [t \in Thread |-> 0]
  /\ cnt = [t \in Thread |-> 0]
  /\ seen = [t \in Thread |-> 0]
  /\ panic = FALSE

Step(t) ==
  \/ Scan(t) \/ TestUsed(t) \/ TestFree(t) \/ NoPages(t) \/ Flip(t)
  \/ InitBig(t) \/ InitArena(t) \/ PopBlock(t)
  \/ FreeLocked(t) \/ FreePages(t) \/ Clear(t)

MemoryNext == \E t \in Thread :
  \/ MallocBig(t) \/ Step(t)
  \/ \E d \in Desc : Malloc(t, d)
  \/ \E b \in Block : FreeBlock(t, b)

MemorySpec == MemoryInit /\ [][MemoryNext]_memoryVars

\* Threads are alike, and so are descriptors.
Symmetry == Permutations(Thread) \cup Permutations(Desc)

(***************************************************************************)
(* Properties.                                                             *)
(***************************************************************************)
\* The pages a call in progress has, with or without their header.
Handled(t) ==
  IF pc[t] \in {"init", "assert", "clear"} THEN Run(page[t], cnt[t]) ELSE {}

Headed == {p \in Page : arena[p] # Null}

HeadedRun(p) == Run(p, IF arena[p].desc = Null THEN arena[p].free_cnt ELSE 1)

\* A page is used exactly when an arena, a big block or one call in progress
\* has it, and only one of them does, although palloc_free_multiple changes
\* the bitmap without the lock under which palloc_get_multiple scans it.
PagesOwnedOnce ==
  LET owner(p) == {<<"call", t>> : t \in {u \in Thread : p \in Handled(u)}}
        \cup {<<"header", q>> : q \in {r \in Headed :
                /\ p \in HeadedRun(r)
                /\ \A t \in Thread : pc[t] = "assert" => r \notin Handled(t)}}
  IN \A p \in Page : Cardinality(owner(p)) = IF used_map[p] THEN 1 ELSE 0

\* No assertion of malloc.c, list.c or palloc.c fails, a block is never both
\* free and given out nor twice on a free list, a block given out lies in an
\* arena that exists, and whenever a descriptor is not locked the free_cnt of
\* each of its arenas is the number of the arena's blocks on its free list.
BlocksExact ==
  /\ ~panic
  /\ \A b \in given : arena[b[1]] # Null
  /\ \A d \in Desc :
       /\ IsInjective(free_list[d])
       /\ Range(free_list[d]) \cap given = {}
       /\ desc_lock[d] = Null => \A p \in Headed : arena[p].desc = d =>
            arena[p].free_cnt
              = Cardinality({i \in DOMAIN free_list[d] : free_list[d][i][1] = p})
=============================================================================
