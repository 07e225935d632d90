---------------------------- MODULE MemoryProofs ----------------------------
(***************************************************************************)
(* Proofs about module Memory, for any threads, pages, descriptors and     *)
(* numbers of blocks in an arena.                                          *)
(***************************************************************************)
EXTENDS Memory, TLAPS

\* Zenon proves most steps; the others say which prover they need.
USE Zenon

Label == {"idle", "scan", "test", "flip", "init", "pop", "free", "assert", "clear"}

Header == [desc : Desc \cup {Null}, free_cnt : Nat]

Types ==
  /\ used_map \in [Page -> BOOLEAN]
  /\ pool_lock \in Thread \cup {Null}
  /\ arena \in [Page -> Header \cup {Null}]
  /\ free_list \in [Desc -> Seq(Block)]
  /\ desc_lock \in [Desc -> Thread \cup {Null}]
  /\ given \subseteq Block
  /\ pc \in [Thread -> Label]
  /\ desc \in [Thread -> Desc \cup {Null}]
  /\ block \in [Thread -> Block \cup {Null}]
  /\ page \in [Thread -> Nat]
  /\ cnt \in [Thread -> Nat]
  /\ panic = FALSE

(***************************************************************************)
(* Calls in progress.                                                      *)
(***************************************************************************)
\* A call about a descriptor is about one page and holds the descriptor's
\* lock, except where free waits for it.
Locked(t) ==
  /\ desc[t] # Null /\ pc[t] # "free" => desc_lock[desc[t]] = t
  /\ desc[t] # Null => cnt[t] = 1
  /\ pc[t] \in {"pop", "free"} => desc[t] # Null
  /\ pc[t] = "pop" => free_list[desc[t]] # <<>>

\* The pages of a call exist.  Those that a scan has found stay free until
\* they are flipped, because the pool is locked.
Paged(t) ==
  /\ pc[t] \in {"scan", "test", "flip", "init", "assert", "clear"} => cnt[t] > 0
  /\ pc[t] \in {"flip", "init", "assert", "clear"} => Run(page[t], cnt[t]) \subseteq Page
  /\ pc[t] = "flip" => /\ pool_lock = t
                       /\ \A p \in Run(page[t], cnt[t]) : ~used_map[p]

Calls == \A t \in Thread : Locked(t) /\ Paged(t)

(***************************************************************************)
(* Pages.                                                                  *)
(***************************************************************************)
Size(q) == IF arena[q].desc = Null THEN arena[q].free_cnt ELSE 1

\* Arenas, big blocks and calls in progress have pages of their own, except
\* that free gives back the pages of a header that is still there.
Headers ==
  \A q \in Headed :
    /\ Size(q) > 0
    /\ Run(q, Size(q)) \subseteq Page
    /\ \A r \in Headed : q # r => Run(q, Size(q)) \cap Run(r, Size(r)) = {}
    /\ \A t \in Thread : ~(pc[t] = "assert" /\ page[t] = q) =>
         Run(q, Size(q)) \cap Handled(t) = {}

Handling ==
  \A t \in Thread :
    /\ \A u \in Thread : t # u => Handled(t) \cap Handled(u) = {}
    /\ pc[t] = "assert" => /\ page[t] \in Headed
                           /\ arena[page[t]].desc = desc[t]
                           /\ Size(page[t]) = cnt[t]

Taken(p) == \/ \E t \in Thread : p \in Handled(t)
            \/ \E q \in Headed : p \in Run(q, Size(q))

Marked == \A p \in Page : used_map[p] <=> Taken(p)

(***************************************************************************)
(* Blocks.                                                                 *)
(***************************************************************************)
\* A block is given out, on its way back, or on a free list.
Pending(b) == \E t \in Thread : pc[t] = "free" /\ block[t] = b
Listed(b) == \E d \in Desc : b \in Range(free_list[d])

Known(b) == b \in given \/ Pending(b) \/ Listed(b)

Places ==
  /\ \A b \in given : ~Pending(b) /\ ~Listed(b)
  /\ \A b \in Block : Pending(b) => ~Listed(b)
  /\ \A t, u \in Thread : pc[t] = "free" /\ pc[u] = "free" /\ block[t] = block[u] => t = u
  /\ \A d \in Desc : IsInjective(free_list[d])

\* Where a block is its arena is, and the arena's descriptor is the one of the
\* list and of the call.
Lodged ==
  /\ \A b \in given : /\ b[1] \in Headed
                      /\ arena[b[1]].desc = Null => b[2] = 0
  /\ \A t \in Thread : pc[t] = "free" =>
       /\ block[t] \in Block /\ block[t][1] \in Headed /\ page[t] = block[t][1]
       /\ arena[block[t][1]].desc = desc[t]
  /\ \A d \in Desc : \A b \in Range(free_list[d]) :
       b[1] \in Headed /\ arena[b[1]].desc = d

Released(q) == \E t \in Thread : pc[t] = "assert" /\ page[t] = q

FreeBlocks(q) == {b \in Range(free_list[arena[q].desc]) : b[1] = q}

Counts ==
  \A q \in Headed :
    /\ Released(q) => \A b \in Block : b[1] = q => ~Known(b)
    /\ arena[q].desc # Null /\ ~Released(q) =>
         arena[q].free_cnt = Cardinality(FreeBlocks(q))

Allocation ==
  Types /\ Calls /\ Headers /\ Handling /\ Marked /\ Places /\ Lodged /\ Counts

(***************************************************************************)
(* The scan.  Bits are only set with the pool locked, so the pages it has  *)
(* found free are still free when it comes to the end of the run.          *)
(***************************************************************************)
Scanned(t) ==
  /\ pc[t] # "test" => seen[t] = 0
  /\ pc[t] = "test" => /\ pool_lock = t /\ seen[t] < cnt[t]
                       /\ \A p \in Run(page[t], seen[t]) \cap Page : ~used_map[p]

Scans == seen \in [Thread -> Nat] /\ \A t \in Thread : Scanned(t)

IInv == Allocation /\ Scans

(***************************************************************************)
(* What the steps rely on.  These facts are proved before the theorems,    *)
(* where the laws of cardinality come in.                                  *)
(***************************************************************************)
BlocksIn(q) == {q} \X (0 .. BlockCount - 1)

Counting ==
  \A q \in Page : \A S \in SUBSET BlocksIn(q) :
    /\ Cardinality(S) \in Nat /\ Cardinality(S) <= BlockCount
    /\ Cardinality(S) = BlockCount <=> S = BlocksIn(q)
    /\ \A b \in BlocksIn(q) \ S : Cardinality(S \cup {b}) = Cardinality(S) + 1
    /\ \A b \in S : Cardinality(S \ {b}) = Cardinality(S) - 1

Unlinking ==
  \A s \in Seq(Block), p \in Page :
    IsInjective(s) =>
      /\ WithoutArena(s, p) \in Seq(Block)
      /\ IsInjective(WithoutArena(s, p))
      /\ Range(WithoutArena(s, p)) = {b \in Range(s) : b[1] # p}

(***************************************************************************)
(* Lists.                                                                  *)
(***************************************************************************)
\* Members and repetitions, by places.
LEMMA ListIs ==
  ASSUME NEW s \in Seq(Block)
  PROVE  /\ \A b : b \in Range(s) <=> \E i \in 1 .. Len(s) : s[i] = b
         /\ IsInjective(s) <=> \A i, j \in 1 .. Len(s) : s[i] = s[j] => i = j
         /\ Range(s) \subseteq Block
  BY SMT DEF Range, IsInjective

\* list_push_front of a block that is not in the list.
LEMMA PushFront ==
  ASSUME NEW s \in Seq(Block), IsInjective(s), NEW b \in Block, b \notin Range(s)
  PROVE  /\ <<b>> \o s \in Seq(Block)
         /\ IsInjective(<<b>> \o s)
         /\ Range(<<b>> \o s) = Range(s) \cup {b}
<1> DEFINE l == <<b>> \o s
<1>1. /\ l \in Seq(Block) /\ Len(l) = Len(s) + 1 /\ l[1] = b
      /\ \A i \in 2 .. Len(l) : l[i] = s[i - 1]
  BY SMT
<1>2. \A i \in 1 .. Len(s) : l[i + 1] = s[i]
  BY <1>1, SMT
<1> HIDE DEF l
<1>3. IsInjective(l)
  <2>1. \A i \in 1 .. Len(s) : s[i] # b
    BY ListIs
  <2>2. \A i, j \in 1 .. Len(s) : s[i] = s[j] => i = j
    BY ListIs
  <2>3. ASSUME NEW i \in 1 .. Len(l), NEW j \in 1 .. Len(l), l[i] = l[j]
        PROVE  i = j
    BY <1>1, <2>1, <2>2, <2>3, SMT
  <2> QED
    BY <1>1, <2>3, ListIs
<1>4. Range(l) = Range(s) \cup {b}
  <2>1. ASSUME NEW x
        PROVE  x \in Range(l) <=> x \in Range(s) \cup {b}
    <3>1. x \in Range(l) <=> \E i \in 1 .. Len(l) : l[i] = x
      BY <1>1, ListIs
    <3>2. x \in Range(s) <=> \E i \in 1 .. Len(s) : s[i] = x
      BY ListIs
    <3>3. ASSUME NEW i \in 1 .. Len(l), l[i] = x
          PROVE  x = b \/ \E j \in 1 .. Len(s) : s[j] = x
      <4>1. i = 1 \/ i - 1 \in 1 .. Len(s)
        BY <1>1, SMT
      <4> QED
        BY <1>1, <3>3, <4>1, SMT
    <3>4. ASSUME NEW i \in 1 .. Len(s), s[i] = x
          PROVE  \E j \in 1 .. Len(l) : l[j] = x
      <4>1. i + 1 \in 1 .. Len(l)
        BY <1>1, SMT
      <4> QED
        BY <1>2, <3>4, <4>1
    <3>5. x = b => \E j \in 1 .. Len(l) : l[j] = x
      BY <1>1, SMT
    <3> QED
      BY <3>1, <3>2, <3>3, <3>4, <3>5
  <2> QED
    BY <2>1
<1> QED
  BY <1>1, <1>3, <1>4 DEF l

\* list_pop_front.
LEMMA PopFront ==
  ASSUME NEW s \in Seq(Block), IsInjective(s), s # <<>>
  PROVE  /\ Head(s) \in Range(s)
         /\ Tail(s) \in Seq(Block) /\ IsInjective(Tail(s))
         /\ Range(Tail(s)) = Range(s) \ {Head(s)}
<1> DEFINE l == Tail(s)
<1>1. /\ Len(s) \in Nat \ {0} /\ l \in Seq(Block) /\ Len(l) = Len(s) - 1 /\ Head(s) = s[1]
      /\ \A i \in 1 .. Len(l) : l[i] = s[i + 1]
  BY SMT
<1> HIDE DEF l
<1>2. Head(s) \in Range(s)
  BY <1>1, ListIs, SMT
<1>3. \A i, j \in 1 .. Len(s) : s[i] = s[j] => i = j
  BY ListIs
<1>4. IsInjective(l)
  BY <1>1, <1>3, ListIs, SMT
<1>5. ASSUME NEW x
      PROVE  x \in Range(l) <=> x \in Range(s) \ {Head(s)}
  <2>1. x \in Range(l) <=> \E i \in 1 .. Len(l) : l[i] = x
    BY <1>1, ListIs
  <2>2. x \in Range(s) <=> \E i \in 1 .. Len(s) : s[i] = x
    BY ListIs
  <2>3. ASSUME NEW i \in 1 .. Len(l), l[i] = x
        PROVE  x # Head(s) /\ \E j \in 1 .. Len(s) : s[j] = x
    BY <1>1, <1>3, <2>3, SMT
  <2>4. ASSUME NEW i \in 1 .. Len(s), s[i] = x, x # Head(s)
        PROVE  \E j \in 1 .. Len(l) : l[j] = x
    <3>1. i - 1 \in 1 .. Len(l) /\ (i - 1) + 1 = i
      BY <1>1, <2>4, SMT
    <3> QED
      BY <1>1, <2>4, <3>1
  <2> QED
    BY <2>1, <2>2, <2>3, <2>4
<1> QED
  BY <1>1, <1>2, <1>4, <1>5 DEF l

\* The blocks of a new arena are different, and of that arena.
LEMMA ArenaOn ==
  ASSUME NEW s \in Seq(Block), IsInjective(s), NEW q \in Page, NEW d,
         \A b \in Range(s) : b[1] # q
  PROVE  LET l == s \o BlocksOf(q, d)
         IN  /\ l \in Seq(Block) /\ IsInjective(l) /\ l # <<>>
             /\ Range(l) = Range(s) \cup BlocksIn(q)
<1> DEFINE a == BlocksOf(q, d)
           l == s \o a
<1>1. /\ a \in Seq(Block) /\ Len(a) = BlockCount
      /\ \A i \in 1 .. BlockCount : a[i] = <<q, i - 1>>
  BY MemoryAssumption, SMT DEF BlocksOf, blocks_per_arena, Block
<1> HIDE DEF a
<1>2. /\ l \in Seq(Block) /\ Len(l) = Len(s) + BlockCount
      /\ \A i \in 1 .. Len(s) : l[i] = s[i]
      /\ \A i \in 1 .. BlockCount : l[Len(s) + i] = a[i]
  <2>1. BlockCount \in Nat /\ Len(s) \in Nat
    BY MemoryAssumption, SMT
  <2>2. l \in Seq(Block) /\ Len(l) = Len(s) + BlockCount
    <3>1. a \in Seq(Block)
      BY <1>1
    <3>2. l \in Seq(Block) /\ Len(l) = Len(s) + Len(a)
      BY <3>1, SMT
    <3> QED
      BY <1>1, <3>2
  <2>3. \A i \in 1 .. Len(s) : l[i] = s[i]
    BY <1>1, <2>1, SMT
  <2>4. \A i \in 1 .. BlockCount : l[Len(s) + i] = a[i]
    BY <1>1, <2>1, SMT
  <2> QED
    BY <2>2, <2>3, <2>4
<1>3. \A i \in 1 .. Len(l) : i \in 1 .. Len(s) \/ i - Len(s) \in 1 .. BlockCount
  BY <1>2, MemoryAssumption, SMT
<1> HIDE DEF l
<1>4. \A i \in 1 .. Len(s) : l[i][1] # q
  BY <1>2, ListIs
<1>5. \A i \in 1 .. BlockCount : l[Len(s) + i] = <<q, i - 1>>
  BY <1>1, <1>2
<1>6. IsInjective(l)
  <2>1. \A i, j \in 1 .. Len(s) : l[i] = l[j] => i = j
    BY <1>2, ListIs, SMT
  <2>2. \A i, j \in 1 .. BlockCount : l[Len(s) + i] = l[Len(s) + j] => i = j
    BY <1>5, SMT
  <2>3. ASSUME NEW i \in 1 .. Len(l), NEW j \in 1 .. Len(l), l[i] = l[j]
        PROVE  i = j
    <3>1. CASE i \in 1 .. Len(s) /\ j \in 1 .. Len(s)
      BY <2>1, <2>3, <3>1
    <3>2. CASE i \in 1 .. Len(s) /\ j - Len(s) \in 1 .. BlockCount
      BY <1>4, <1>5, <2>3, <3>2, SMT
    <3>3. CASE i - Len(s) \in 1 .. BlockCount /\ j \in 1 .. Len(s)
      BY <1>4, <1>5, <2>3, <3>3, SMT
    <3>4. CASE i - Len(s) \in 1 .. BlockCount /\ j - Len(s) \in 1 .. BlockCount
      <4>1. i = Len(s) + (i - Len(s)) /\ j = Len(s) + (j - Len(s))
        BY SMT
      <4> QED
        BY <2>2, <2>3, <3>4, <4>1
    <3> QED
      BY <1>3, <3>1, <3>2, <3>3, <3>4
  <2> QED
    BY <1>2, <2>3, ListIs
<1>7. ASSUME NEW b
      PROVE  b \in Range(l) <=> b \in Range(s) \/ b \in BlocksIn(q)
  <2>1. b \in Range(l) <=> \E i \in 1 .. Len(l) : l[i] = b
    BY <1>2, ListIs
  <2>2. b \in Range(s) <=> \E i \in 1 .. Len(s) : s[i] = b
    BY ListIs
  <2>3. ASSUME NEW i \in 1 .. Len(l), l[i] = b
        PROVE  b \in Range(s) \/ b \in BlocksIn(q)
    <3>1. CASE i \in 1 .. Len(s)
      BY <1>2, <2>2, <2>3, <3>1
    <3>2. CASE i - Len(s) \in 1 .. BlockCount
      <4>1. i = Len(s) + (i - Len(s)) /\ (i - Len(s)) - 1 \in 0 .. BlockCount - 1
        BY <3>2, MemoryAssumption, SMT
      <4>2. b = <<q, (i - Len(s)) - 1>>
        BY <1>5, <2>3, <3>2, <4>1
      <4> QED
        BY <4>1, <4>2 DEF BlocksIn
    <3> QED
      BY <1>3, <3>1, <3>2
  <2>4. ASSUME NEW i \in 1 .. Len(s), s[i] = b
        PROVE  \E k \in 1 .. Len(l) : l[k] = b
    <3>1. i \in 1 .. Len(l)
      BY <1>2, MemoryAssumption, SMT
    <3> QED
      BY <1>2, <2>4, <3>1
  <2>5. ASSUME NEW k \in 0 .. BlockCount - 1, b = <<q, k>>
        PROVE  \E m \in 1 .. Len(l) : l[m] = b
    <3>1. k + 1 \in 1 .. BlockCount /\ Len(s) + (k + 1) \in 1 .. Len(l) /\ (k + 1) - 1 = k
      BY <1>2, MemoryAssumption, SMT
    <3>2. l[Len(s) + (k + 1)] = <<q, (k + 1) - 1>>
      BY <1>5, <3>1
    <3> QED
      BY <2>5, <3>1, <3>2
  <2> QED
    BY <2>1, <2>2, <2>3, <2>4, <2>5, SMT DEF BlocksIn
<1>8. l # <<>>
  BY <1>2, MemoryAssumption, SMT
<1> QED
  BY <1>2, <1>6, <1>7, <1>8 DEF l, a

(***************************************************************************)
(* What a step leaves alone.                                               *)
(***************************************************************************)
\* A header has a descriptor or not, and pages.
LEMMA HeaderIs ==
  ASSUME Types, NEW q \in Headed
  PROVE  /\ q \in Page /\ q \in Nat /\ arena[q] \in Header
         /\ arena[q].desc \in Desc \cup {Null} /\ arena[q].free_cnt \in Nat
         /\ Size(q) \in Nat
<1>1. q \in Page /\ q \in Nat /\ arena[q] \in Header
  <2>1. q \in Page /\ arena[q] # Null
    BY DEF Headed
  <2>2. arena[q] \in Header
    BY <2>1 DEF Types
  <2> QED
    BY <2>1, <2>2, MemoryAssumption, SMT DEF Page
<1>2. arena[q].desc \in Desc \cup {Null} /\ arena[q].free_cnt \in Nat
  BY <1>1 DEF Header
<1> QED
  BY <1>1, <1>2 DEF Size

\* The first page of a header is its own.
LEMMA FirstPage ==
  ASSUME Types, Headers, NEW q \in Headed
  PROVE  q \in Run(q, Size(q))
  BY HeaderIs, SMT DEF Headers, Run

\* A call in progress has pages of the pool.
LEMMA HandledIn ==
  ASSUME Types, Calls, NEW t \in Thread
  PROVE  Handled(t) \subseteq Page
  BY DEF Calls, Paged, Handled

\* The other calls go on as before if the step takes nobody's lock, sets bits
\* only with the pool locked, and changes a list only with no other call
\* holding the descriptor.
LEMMA OthersGoOn ==
  ASSUME Types, Calls, NEW t \in Thread,
         \A u \in Thread \ {t} : /\ pc'[u] = pc[u] /\ desc'[u] = desc[u]
                                 /\ page'[u] = page[u] /\ cnt'[u] = cnt[u],
         \A d \in Desc : desc_lock[d] \in Thread \ {t} =>
           desc_lock'[d] = desc_lock[d] /\ free_list'[d] = free_list[d],
         pool_lock \in Thread \ {t} => pool_lock' = pool_lock,
         \A p \in Page : used_map'[p] => used_map[p] \/ pool_lock = t,
         Locked(t)', Paged(t)'
  PROVE  Calls'
<1> SUFFICES ASSUME NEW u \in Thread, u # t
             PROVE  Locked(u)' /\ Paged(u)'
  BY DEF Calls
<1>1. /\ pc'[u] = pc[u] /\ desc'[u] = desc[u]
      /\ page'[u] = page[u] /\ cnt'[u] = cnt[u]
  OBVIOUS
<1>2. desc[u] \in Desc \cup {Null} /\ u # Null
  BY MemoryAssumption DEF Types
<1>3. Locked(u) /\ Paged(u)
  BY DEF Calls
<1>4. Locked(u)'
  BY <1>1, <1>2, <1>3 DEF Locked
<1>5. Paged(u)'
  BY <1>1, <1>3 DEF Paged
<1> QED
  BY <1>4, <1>5

\* Pages stay with their owners in a step of a call that has none.
LEMMA PagesStay ==
  ASSUME Types, Headers, Handling, Marked, NEW t \in Thread,
         \A u \in Thread \ {t} : /\ pc'[u] = pc[u] /\ desc'[u] = desc[u]
                                 /\ page'[u] = page[u] /\ cnt'[u] = cnt[u],
         pc[t] \notin {"init", "assert", "clear"},
         pc'[t] \notin {"init", "assert", "clear"},
         UNCHANGED used_map, Headed' = Headed,
         \A q \in Headed : arena'[q].desc = arena[q].desc /\ Size(q)' = Size(q)
  PROVE  Headers' /\ Handling' /\ Marked'
<1>1. \A u \in Thread : Handled(u)' = Handled(u)
  BY DEF Handled
<1>2. \A u \in Thread : pc'[u] = "assert" <=> pc[u] = "assert"
  OBVIOUS
<1>3. \A u \in Thread : pc[u] = "assert" =>
        page'[u] = page[u] /\ cnt'[u] = cnt[u] /\ desc'[u] = desc[u]
  OBVIOUS
<1>4. Headers'
  <2> SUFFICES ASSUME NEW q \in Headed
               PROVE  /\ Size(q)' > 0
                      /\ Run(q, Size(q)') \subseteq Page
                      /\ \A r \in Headed : q # r => Run(q, Size(q)') \cap Run(r, Size(r)') = {}
                      /\ \A u \in Thread : ~(pc'[u] = "assert" /\ page'[u] = q) =>
                           Run(q, Size(q)') \cap Handled(u)' = {}
    BY DEF Headers, Run
  <2>1. Size(q)' = Size(q) /\ \A r \in Headed : Size(r)' = Size(r)
    OBVIOUS
  <2>2. \A u \in Thread : ~(pc'[u] = "assert" /\ page'[u] = q) =>
          ~(pc[u] = "assert" /\ page[u] = q)
    BY <1>2, <1>3
  <2> QED
    BY <1>1, <2>1, <2>2 DEF Headers
<1>5. Handling'
  BY <1>1, <1>2, <1>3, SMT DEF Handling
<1>6. \A p \in Page : Taken(p)' <=> Taken(p)
  BY <1>1 DEF Taken, Run
<1>7. Marked'
  BY <1>6 DEF Marked
<1> QED
  BY <1>4, <1>5, <1>7

\* Blocks stay where they are in a step between points outside of free.
LEMMA BlocksStay ==
  ASSUME Types, Places, Lodged, Counts, NEW t \in Thread,
         \A u \in Thread \ {t} : /\ pc'[u] = pc[u] /\ desc'[u] = desc[u]
                                 /\ page'[u] = page[u] /\ block'[u] = block[u],
         pc[t] \notin {"free", "assert"}, pc'[t] \notin {"free", "assert"},
         UNCHANGED <<arena, free_list, given>>
  PROVE  Places' /\ Lodged' /\ Counts'
<1>1. \A u \in Thread : /\ pc'[u] = "assert" <=> pc[u] = "assert"
                        /\ pc'[u] = "free" <=> pc[u] = "free"
  OBVIOUS
<1>2. \A u \in Thread : pc[u] \in {"free", "assert"} =>
        page'[u] = page[u] /\ desc'[u] = desc[u] /\ block'[u] = block[u]
  OBVIOUS
<1>3. \A b : (Pending(b)' <=> Pending(b)) /\ (Listed(b)' <=> Listed(b))
  BY <1>1, <1>2 DEF Pending, Listed
<1>4. Headed' = Headed
  BY DEF Headed
<1>5. Places'
  BY <1>1, <1>2, <1>3 DEF Places
<1>6. Lodged'
  BY <1>1, <1>2, <1>4, SMT DEF Lodged
<1>7. \A q : (Released(q)' <=> Released(q)) /\ FreeBlocks(q)' = FreeBlocks(q)
  BY <1>1, <1>2 DEF Released, FreeBlocks
<1>8. \A b : Known(b)' <=> Known(b)
  BY <1>3 DEF Known
<1>9. Counts'
  BY <1>4, <1>7, <1>8 DEF Counts
<1> QED
  BY <1>5, <1>6, <1>9

(***************************************************************************)
(* malloc, step by step.                                                   *)
(***************************************************************************)
\* A request for whole pages begins.
LEMMA MallocBigStep ==
  ASSUME Allocation, NEW t \in Thread, MallocBig(t)
  PROVE  Allocation'
<1>1. /\ pc[t] = "idle" /\ pc' = [pc EXCEPT ![t] = "scan"]
      /\ desc' = [desc EXCEPT ![t] = Null] /\ cnt' = [cnt EXCEPT ![t] = BigPages]
      /\ UNCHANGED <<used_map, pool_lock, arena, free_list, desc_lock, given, block, page, panic>>
  BY DEF MallocBig, Doing, Goto
<1>2. Types /\ Calls /\ Headers /\ Handling /\ Marked /\ Places /\ Lodged /\ Counts
  BY DEF Allocation
<1>3. BigPages \in Nat /\ BigPages > 0
  BY MemoryAssumption, SMT
<1>4. Types'
  BY <1>1, <1>2, <1>3 DEF Types, Label
<1>5. /\ pc'[t] = "scan" /\ desc'[t] = Null /\ cnt'[t] = BigPages
      /\ \A u \in Thread \ {t} : /\ pc'[u] = pc[u] /\ desc'[u] = desc[u] /\ page'[u] = page[u]
                                 /\ cnt'[u] = cnt[u] /\ block'[u] = block[u]
  BY <1>1, <1>2 DEF Types
<1>6. Calls'
  <2>1. Locked(t)' /\ Paged(t)'
    BY <1>3, <1>5 DEF Locked, Paged
  <2> QED
    BY <1>1, <1>2, <1>5, <2>1, OthersGoOn
<1>7. Headers' /\ Handling' /\ Marked'
  <2>1. Headed' = Headed /\ \A q \in Headed : arena'[q].desc = arena[q].desc /\ Size(q)' = Size(q)
    BY <1>1 DEF Headed, Size
  <2> QED
    BY <1>1, <1>2, <1>5, <2>1, PagesStay
<1>8. Places' /\ Lodged' /\ Counts'
  BY <1>1, <1>2, <1>5, BlocksStay
<1> QED
  BY <1>4, <1>6, <1>7, <1>8 DEF Allocation

\* A request for a block begins, and locks the descriptor.
LEMMA MallocStep ==
  ASSUME Allocation, NEW t \in Thread, NEW d \in Desc, Malloc(t, d)
  PROVE  Allocation'
<1>1. /\ pc[t] = "idle" /\ desc_lock[d] = Null
      /\ pc' = [pc EXCEPT ![t] = IF free_list[d] = <<>> THEN "scan" ELSE "pop"]
      /\ desc_lock' = [desc_lock EXCEPT ![d] = t]
      /\ desc' = [desc EXCEPT ![t] = d] /\ cnt' = [cnt EXCEPT ![t] = 1]
      /\ UNCHANGED <<used_map, pool_lock, arena, free_list, given, block, page, panic>>
  BY DEF Malloc, Doing, Goto
<1>2. Types /\ Calls /\ Headers /\ Handling /\ Marked /\ Places /\ Lodged /\ Counts
  BY DEF Allocation
<1>3. Types'
  BY <1>1, <1>2 DEF Types, Label
<1>4. /\ pc'[t] = (IF free_list[d] = <<>> THEN "scan" ELSE "pop")
      /\ desc'[t] = d /\ cnt'[t] = 1 /\ desc_lock'[d] = t
      /\ \A e \in Desc \ {d} : desc_lock'[e] = desc_lock[e]
      /\ \A u \in Thread \ {t} : /\ pc'[u] = pc[u] /\ desc'[u] = desc[u] /\ page'[u] = page[u]
                                 /\ cnt'[u] = cnt[u] /\ block'[u] = block[u]
  BY <1>1, <1>2 DEF Types
<1>5. Calls'
  <2>1. Locked(t)' /\ Paged(t)'
    <3>1. pc'[t] \in {"scan", "pop"} /\ (pc'[t] = "pop" => free_list'[d] # <<>>)
      BY <1>1, <1>4, SMT
    <3>2. Locked(t)'
      BY <1>4, <3>1, MemoryAssumption DEF Locked
    <3>3. Paged(t)'
      BY <1>4, <3>1, SMT DEF Paged
    <3> QED
      BY <3>2, <3>3
  <2>2. \A e \in Desc : desc_lock[e] \in Thread \ {t} =>
          desc_lock'[e] = desc_lock[e] /\ free_list'[e] = free_list[e]
    BY <1>1, <1>4, MemoryAssumption
  <2> QED
    BY <1>1, <1>2, <1>4, <2>1, <2>2, OthersGoOn
<1>6. Headers' /\ Handling' /\ Marked'
  <2>1. Headed' = Headed /\ \A q \in Headed : arena'[q].desc = arena[q].desc /\ Size(q)' = Size(q)
    BY <1>1 DEF Headed, Size
  <2> QED
    BY <1>1, <1>2, <1>4, <2>1, PagesStay, SMT
<1>7. Places' /\ Lodged' /\ Counts'
  BY <1>1, <1>2, <1>4, BlocksStay, SMT
<1> QED
  BY <1>3, <1>5, <1>6, <1>7 DEF Allocation

\* A call that returns has no effect of its own.
LEMMA Returns ==
  ASSUME Types, NEW t \in Thread, Finish(t)
  PROVE  /\ pc' \in [Thread -> Label] /\ desc' \in [Thread -> Desc \cup {Null}]
         /\ block' \in [Thread -> Block \cup {Null}]
         /\ page' \in [Thread -> Nat] /\ cnt' \in [Thread -> Nat]
         /\ pc'[t] = "idle" /\ desc'[t] = Null
         /\ \A u \in Thread \ {t} : /\ pc'[u] = pc[u] /\ desc'[u] = desc[u] /\ page'[u] = page[u]
                                    /\ cnt'[u] = cnt[u] /\ block'[u] = block[u]
         /\ Locked(t)' /\ Paged(t)'
<1>1. /\ pc' \in [Thread -> Label] /\ desc' \in [Thread -> Desc \cup {Null}]
      /\ block' \in [Thread -> Block \cup {Null}]
      /\ page' \in [Thread -> Nat] /\ cnt' \in [Thread -> Nat]
  BY DEF Types, Finish, Goto, Label
<1>2. /\ pc'[t] = "idle" /\ desc'[t] = Null
      /\ \A u \in Thread \ {t} : /\ pc'[u] = pc[u] /\ desc'[u] = desc[u] /\ page'[u] = page[u]
                                 /\ cnt'[u] = cnt[u] /\ block'[u] = block[u]
  BY DEF Types, Finish, Goto
<1>3. Locked(t)' /\ Paged(t)'
  BY <1>2 DEF Locked, Paged
<1> QED
  BY <1>1, <1>2, <1>3

\* A lock that is given back was the call's own.
LEMMA Unlocks ==
  ASSUME Types, Calls, NEW t \in Thread, Unlock(t), pc[t] # "free"
  PROVE  /\ desc_lock' \in [Desc -> Thread \cup {Null}]
         /\ \A d \in Desc : desc_lock[d] \in Thread \ {t} => desc_lock'[d] = desc_lock[d]
  BY MemoryAssumption DEF Types, Calls, Locked, Unlock

\* Neither do the steps of a scan: the pages are nobody's yet.
LEMMA ScanMoves ==
  ASSUME Allocation, NEW t \in Thread, Types',
         pc[t] \in {"scan", "test"}, pc'[t] \in {"idle", "test", "flip"},
         UNCHANGED <<used_map, arena, free_list, given, panic>>,
         \A u \in Thread \ {t} : /\ pc'[u] = pc[u] /\ desc'[u] = desc[u] /\ page'[u] = page[u]
                                 /\ cnt'[u] = cnt[u] /\ block'[u] = block[u],
         \A d \in Desc : desc_lock[d] \in Thread \ {t} => desc_lock'[d] = desc_lock[d],
         pool_lock \in Thread \ {t} => pool_lock' = pool_lock,
         Locked(t)', Paged(t)'
  PROVE  Allocation'
<1>1. Types /\ Calls /\ Headers /\ Handling /\ Marked /\ Places /\ Lodged /\ Counts
  BY DEF Allocation
<1>2. Headed' = Headed /\ \A q \in Headed : arena'[q].desc = arena[q].desc /\ Size(q)' = Size(q)
  BY DEF Headed, Size
<1>3. Calls'
  BY <1>1, OthersGoOn
<1>4. Headers' /\ Handling' /\ Marked'
  BY <1>1, <1>2, PagesStay
<1>5. Places' /\ Lodged' /\ Counts'
  BY <1>1, BlocksStay
<1> QED
  BY <1>3, <1>4, <1>5 DEF Allocation

\* palloc_get_multiple takes the lock of the pool.
LEMMA ScanStep ==
  ASSUME Allocation, NEW t \in Thread, Scan(t)
  PROVE  Allocation'
<1>1. /\ pc[t] = "scan" /\ pool_lock = Null /\ pool_lock' = t
      /\ pc' = [pc EXCEPT ![t] = "test"] /\ page' = [page EXCEPT ![t] = 0]
      /\ UNCHANGED <<used_map, arena, free_list, desc_lock, given, desc, block, cnt, panic>>
  BY DEF Scan, Doing, Goto
<1>2. Types /\ Locked(t) /\ Paged(t)
  BY DEF Allocation, Calls
<1>3. Types'
  BY <1>1, <1>2 DEF Types, Label
<1>4. /\ pc'[t] = "test"
      /\ \A u \in Thread \ {t} : /\ pc'[u] = pc[u] /\ desc'[u] = desc[u] /\ page'[u] = page[u]
                                 /\ cnt'[u] = cnt[u] /\ block'[u] = block[u]
  BY <1>1, <1>2 DEF Types
<1>5. Locked(t)' /\ Paged(t)'
  BY <1>1, <1>2, <1>4 DEF Locked, Paged
<1>6. pool_lock \notin Thread \ {t}
  BY <1>1, MemoryAssumption
<1> QED
  BY <1>1, <1>3, <1>4, <1>5, <1>6, ScanMoves

\* A used page sends the scan to the next place.
LEMMA TestUsedStep ==
  ASSUME Allocation, NEW t \in Thread, TestUsed(t)
  PROVE  Allocation'
<1>1. /\ pc[t] = "test" /\ page' = [page EXCEPT ![t] = @ + 1]
      /\ UNCHANGED <<used_map, pool_lock, arena, free_list, desc_lock, given, pc, desc, block,
                     cnt, panic>>
  BY DEF TestUsed, Doing
<1>2. Types /\ Locked(t) /\ Paged(t)
  BY DEF Allocation, Calls
<1>3. page[t] + 1 \in Nat
  BY <1>2, SMT DEF Types
<1>4. Types'
  BY <1>1, <1>2, <1>3 DEF Types
<1>5. \A u \in Thread \ {t} : /\ pc'[u] = pc[u] /\ desc'[u] = desc[u] /\ page'[u] = page[u]
                              /\ cnt'[u] = cnt[u] /\ block'[u] = block[u]
  BY <1>1, <1>2 DEF Types
<1>6. Locked(t)' /\ Paged(t)'
  BY <1>1, <1>2 DEF Locked, Paged
<1> QED
  BY <1>1, <1>4, <1>5, <1>6, ScanMoves

\* The pages of a run that the scan has come to the end of are free.
LEMMA RunFound ==
  ASSUME IInv, NEW t \in Thread, pc[t] = "test", page[t] + cnt[t] <= Pages,
         ~used_map[page[t] + seen[t]], ~(seen[t] + 1 < cnt[t])
  PROVE  /\ Run(page[t], cnt[t]) \subseteq Page
         /\ \A p \in Run(page[t], cnt[t]) : ~used_map[p]
<1>1. page[t] \in Nat /\ cnt[t] \in Nat /\ seen[t] \in Nat /\ seen[t] < cnt[t]
  BY DEF IInv, Allocation, Types, Scans, Scanned
<1>2. \A p \in Run(page[t], seen[t]) \cap Page : ~used_map[p]
  BY DEF IInv, Scans, Scanned
<1>3. /\ Run(page[t], cnt[t]) \subseteq Page
      /\ \A p \in Run(page[t], cnt[t]) : p \in Run(page[t], seen[t]) \/ p = page[t] + seen[t]
  BY <1>1, MemoryAssumption, SMT DEF Run, Page
<1> QED
  BY <1>2, <1>3

\* A free page sends the scan to the next bit or to the end of the run.
LEMMA TestFreeStep ==
  ASSUME IInv, NEW t \in Thread, TestFree(t)
  PROVE  Allocation'
<1>1. /\ pc[t] = "test" /\ page[t] + cnt[t] <= Pages /\ ~used_map[page[t] + seen[t]]
      /\ IF seen[t] + 1 < cnt[t] THEN UNCHANGED pc ELSE pc' = [pc EXCEPT ![t] = "flip"]
      /\ UNCHANGED <<used_map, pool_lock, arena, free_list, desc_lock, given, desc, block, page,
                     cnt, panic>>
  BY DEF TestFree, Doing, Goto
<1>2. Types /\ Locked(t) /\ Paged(t) /\ pool_lock = t
  BY <1>1 DEF IInv, Allocation, Calls, Scans, Scanned
<1>3. \A u \in Thread \ {t} : /\ pc'[u] = pc[u] /\ desc'[u] = desc[u] /\ page'[u] = page[u]
                              /\ cnt'[u] = cnt[u] /\ block'[u] = block[u]
  BY <1>1, <1>2 DEF Types
<1>4. CASE seen[t] + 1 < cnt[t]
  <2>1. UNCHANGED pc
    BY <1>1, <1>4
  <2>2. Types'
    BY <1>1, <1>2, <2>1 DEF Types
  <2>3. Locked(t)' /\ Paged(t)'
    BY <1>1, <1>2, <2>1 DEF Locked, Paged
  <2> QED
    BY <1>1, <1>3, <2>1, <2>2, <2>3, ScanMoves DEF IInv
<1>5. CASE ~(seen[t] + 1 < cnt[t])
  <2>1. pc' = [pc EXCEPT ![t] = "flip"]
    BY <1>1, <1>5
  <2>2. Types' /\ pc'[t] = "flip"
    BY <1>1, <1>2, <2>1 DEF Types, Label
  <2>3. /\ Run(page[t], cnt[t]) \subseteq Page
        /\ \A p \in Run(page[t], cnt[t]) : ~used_map[p]
    BY <1>1, <1>5, RunFound
  <2>4. Locked(t)'
    BY <1>1, <1>2, <2>2 DEF Locked
  <2>5. Paged(t)'
    BY <1>1, <1>2, <2>2, <2>3 DEF Paged
  <2> QED
    BY <1>1, <1>3, <2>2, <2>4, <2>5, ScanMoves DEF IInv
<1> QED
  BY <1>4, <1>5

\* A scan that finds nothing gives the locks back.
LEMMA NoPagesStep ==
  ASSUME IInv, NEW t \in Thread, NoPages(t)
  PROVE  Allocation'
<1>1. /\ pc[t] = "test" /\ pool_lock' = Null /\ Finish(t) /\ Unlock(t)
      /\ UNCHANGED <<used_map, arena, free_list, given, panic>>
  BY DEF NoPages, Doing
<1>2. Types /\ Calls /\ pool_lock = t
  BY <1>1 DEF IInv, Allocation, Scans, Scanned
<1>3. /\ pc' \in [Thread -> Label] /\ desc' \in [Thread -> Desc \cup {Null}]
      /\ block' \in [Thread -> Block \cup {Null}]
      /\ page' \in [Thread -> Nat] /\ cnt' \in [Thread -> Nat]
      /\ pc'[t] = "idle"
      /\ \A u \in Thread \ {t} : /\ pc'[u] = pc[u] /\ desc'[u] = desc[u] /\ page'[u] = page[u]
                                 /\ cnt'[u] = cnt[u] /\ block'[u] = block[u]
      /\ Locked(t)' /\ Paged(t)'
  BY <1>1, <1>2, Returns
<1>4. /\ desc_lock' \in [Desc -> Thread \cup {Null}]
      /\ \A d \in Desc : desc_lock[d] \in Thread \ {t} => desc_lock'[d] = desc_lock[d]
  BY <1>1, <1>2, Unlocks
<1>5. Types'
  BY <1>1, <1>2, <1>3, <1>4 DEF Types
<1> QED
  BY <1>1, <1>2, <1>3, <1>4, <1>5, ScanMoves DEF IInv

\* The pages that were found become the call's: nobody else has a free page.
LEMMA FlipStep ==
  ASSUME Allocation, NEW t \in Thread, Flip(t)
  PROVE  Allocation'
<1> DEFINE R == Run(page[t], cnt[t])
<1>1. /\ pc[t] = "flip" /\ pool_lock' = Null /\ pc' = [pc EXCEPT ![t] = "init"]
      /\ used_map' = [p \in Page |-> p \in R \/ used_map[p]]
      /\ UNCHANGED <<arena, free_list, desc_lock, given, desc, block, page, cnt, panic>>
  BY DEF Flip, Doing, Goto
<1>2. Types /\ Calls /\ Headers /\ Handling /\ Marked /\ Places /\ Lodged /\ Counts
  BY DEF Allocation
<1>3. Locked(t) /\ Paged(t)
  BY <1>2 DEF Calls
<1>4. pool_lock = t /\ R \subseteq Page /\ \A p \in R : ~used_map[p]
  BY <1>1, <1>3 DEF Paged
<1>5. /\ pc'[t] = "init"
      /\ \A u \in Thread \ {t} : /\ pc'[u] = pc[u] /\ desc'[u] = desc[u] /\ page'[u] = page[u]
                                 /\ cnt'[u] = cnt[u] /\ block'[u] = block[u]
  BY <1>1, <1>2 DEF Types
<1>6. Types'
  <2>1. \A p \in Page : (p \in R \/ used_map[p]) \in BOOLEAN
    OBVIOUS
  <2>2. used_map' \in [Page -> BOOLEAN]
    BY <1>1, <2>1
  <2> QED
    BY <1>1, <1>2, <2>2 DEF Types, Label
<1>7. Calls'
  <2>1. Locked(t)'
    BY <1>1, <1>3, <1>5 DEF Locked
  <2>2. Paged(t)'
    BY <1>1, <1>3, <1>5 DEF Paged
  <2>3. \A p \in Page : used_map'[p] => used_map[p] \/ pool_lock = t
    BY <1>4
  <2>4. pool_lock \notin Thread \ {t}
    BY <1>4
  <2> QED
    BY <1>1, <1>2, <1>5, <2>1, <2>2, <2>3, <2>4, OthersGoOn
<1>8. /\ Handled(t) = {} /\ Handled(t)' = R
      /\ \A u \in Thread \ {t} : Handled(u)' = Handled(u)
  BY <1>1, <1>5 DEF Handled, Run
<1>9. \A p \in R : ~Taken(p)
  BY <1>2, <1>4 DEF Marked
<1>10. /\ \A q \in Headed : Run(q, Size(q)) \cap R = {}
       /\ \A u \in Thread : Handled(u) \cap R = {}
  BY <1>9 DEF Taken
<1>11. Headed' = Headed /\ \A q \in Headed : arena'[q] = arena[q] /\ Size(q)' = Size(q)
  BY <1>1 DEF Headed, Size
<1> HIDE DEF R
<1>12. Headers'
  <2> SUFFICES ASSUME NEW q \in Headed
               PROVE  /\ Size(q) > 0
                      /\ Run(q, Size(q)) \subseteq Page
                      /\ \A r \in Headed : q # r => Run(q, Size(q)) \cap Run(r, Size(r)) = {}
                      /\ \A u \in Thread : ~(pc'[u] = "assert" /\ page'[u] = q) =>
                           Run(q, Size(q)) \cap Handled(u)' = {}
    BY <1>11 DEF Headers, Run
  <2>1. ASSUME NEW u \in Thread, ~(pc'[u] = "assert" /\ page'[u] = q)
        PROVE  Run(q, Size(q)) \cap Handled(u)' = {}
    <3>1. CASE u = t
      BY <1>8, <1>10, <3>1
    <3>2. CASE u # t
      BY <1>2, <1>5, <1>8, <2>1, <3>2 DEF Headers
    <3> QED
      BY <3>1, <3>2
  <2> QED
    BY <1>2, <2>1 DEF Headers
<1>13. Handling'
  <2>1. ASSUME NEW v \in Thread, NEW u \in Thread, v # u
        PROVE  Handled(v)' \cap Handled(u)' = {}
    <3>1. CASE u # t /\ v # t
      BY <1>2, <1>8, <2>1, <3>1 DEF Handling
    <3>2. CASE u = t \/ v = t
      BY <1>8, <1>10, <2>1, <3>2
    <3> QED
      BY <3>1, <3>2
  <2>2. ASSUME NEW u \in Thread, pc'[u] = "assert"
        PROVE  /\ page'[u] \in Headed /\ arena'[page'[u]].desc = desc'[u]
               /\ Size(page[u])' = cnt'[u]
    BY <1>1, <1>2, <1>5, <1>11, <2>2 DEF Handling
  <2> QED
    BY <1>11, <2>1, <2>2 DEF Handling
<1>14. Marked'
  <2> SUFFICES ASSUME NEW p \in Page
               PROVE  used_map'[p] <=> Taken(p)'
    BY DEF Marked
  <2>1. Taken(p)' <=> p \in R \/ Taken(p)
    BY <1>8, <1>11 DEF Taken, Run
  <2>2. used_map'[p] <=> p \in R \/ used_map[p]
    BY <1>1
  <2> QED
    BY <1>2, <2>1, <2>2 DEF Marked
<1>15. Places' /\ Lodged' /\ Counts'
  BY <1>1, <1>2, <1>5, BlocksStay
<1> QED
  BY <1>6, <1>7, <1>12, <1>13, <1>14, <1>15 DEF Allocation

\* A call puts a header on its pages, and leaves them to it.
LEMMA Build ==
  ASSUME Types, Calls, Headers, Handling, Marked, NEW t \in Thread, NEW h \in Header,
         \A u \in Thread \ {t} : /\ pc'[u] = pc[u] /\ desc'[u] = desc[u]
                                 /\ page'[u] = page[u] /\ cnt'[u] = cnt[u],
         pc[t] = "init", pc'[t] \notin {"init", "assert", "clear"},
         UNCHANGED used_map, arena' = [arena EXCEPT ![page[t]] = h],
         cnt[t] = IF h.desc = Null THEN h.free_cnt ELSE 1
  PROVE  /\ page[t] \in Page \ Headed /\ Headed' = Headed \cup {page[t]}
         /\ \A q \in Headed : arena'[q] = arena[q]
         /\ arena'[page[t]] = h
         /\ Headers' /\ Handling' /\ Marked'
<1>0. PICK q : q = page[t]
  OBVIOUS
<1> DEFINE R == Run(q, cnt[t])
<1>1. Handled(t) = R /\ Handled(t)' = {} /\ \A u \in Thread \ {t} : Handled(u)' = Handled(u)
  BY <1>0 DEF Handled
<1>2. R \subseteq Page /\ cnt[t] \in Nat /\ cnt[t] > 0 /\ q \in Nat
  BY <1>0 DEF Calls, Paged, Types
<1>3. q \in R /\ q \in Page
  BY <1>2, SMT DEF Run
<1>4. \A r \in Headed : Run(r, Size(r)) \cap R = {}
  BY <1>1 DEF Headers
<1>5. q \notin Headed
  BY <1>3, <1>4, FirstPage
<1>6. arena'[q] = h /\ \A r \in Page \ {q} : arena'[r] = arena[r]
  BY <1>0, <1>3 DEF Types
<1>7. h # Null
  BY MemoryAssumption DEF Header
<1>8. Headed' = Headed \cup {q}
  BY <1>3, <1>6, <1>7 DEF Headed
<1>9. \A r \in Headed : arena'[r] = arena[r] /\ Size(r)' = Size(r)
  BY <1>5, <1>6, SMT DEF Headed, Size
<1>10. Size(q)' = cnt[t]
  BY <1>6 DEF Size
<1> HIDE DEF R
<1>11. Headers'
  <2> SUFFICES ASSUME NEW r \in Headed \cup {q}
               PROVE  /\ Size(r)' > 0
                      /\ Run(r, Size(r)') \subseteq Page
                      /\ \A s \in Headed \cup {q} : r # s =>
                           Run(r, Size(r)') \cap Run(s, Size(s)') = {}
                      /\ \A u \in Thread : ~(pc'[u] = "assert" /\ page'[u] = r) =>
                           Run(r, Size(r)') \cap Handled(u)' = {}
    BY <1>8 DEF Headers, Run
  <2>1. CASE r = q
    <3>1. Run(r, Size(r)') = R
      BY <1>10, <2>1 DEF R
    <3>2. ASSUME NEW s \in Headed
          PROVE  R \cap Run(s, Size(s)') = {}
      BY <1>4, <1>9
    <3>3. ASSUME NEW u \in Thread
          PROVE  R \cap Handled(u)' = {}
      BY <1>1 DEF Handling
    <3> QED
      BY <1>2, <1>10, <2>1, <3>1, <3>2, <3>3
  <2>2. CASE r \in Headed
    <3>1. Size(r)' = Size(r)
      BY <1>9, <2>2
    <3>2. ASSUME NEW s \in Headed \cup {q}, r # s
          PROVE  Run(r, Size(r)) \cap Run(s, Size(s)') = {}
      <4>1. CASE s = q
        <5>1. Run(s, Size(s)') = R
          BY <1>10, <4>1 DEF R
        <5> QED
          BY <1>4, <2>2, <5>1
      <4>2. CASE s \in Headed
        BY <1>9, <2>2, <3>2, <4>2 DEF Headers
      <4> QED
        BY <4>1, <4>2
    <3>3. ASSUME NEW u \in Thread, ~(pc'[u] = "assert" /\ page'[u] = r)
          PROVE  Run(r, Size(r)) \cap Handled(u)' = {}
      BY <1>1, <2>2, <3>3 DEF Headers
    <3>4. Size(r) > 0 /\ Run(r, Size(r)) \subseteq Page
      BY <2>2 DEF Headers
    <3> QED
      BY <3>1, <3>2, <3>3, <3>4
  <2> QED
    BY <2>1, <2>2
<1>12. Handling'
  <2>1. ASSUME NEW v \in Thread, NEW u \in Thread, v # u
        PROVE  Handled(v)' \cap Handled(u)' = {}
    BY <1>1, <2>1 DEF Handling
  <2>2. ASSUME NEW u \in Thread, pc'[u] = "assert"
        PROVE  /\ page'[u] \in Headed' /\ arena'[page'[u]].desc = desc'[u]
               /\ Size(page[u])' = cnt'[u]
    <3>1. u # t /\ pc[u] = "assert" /\ page'[u] = page[u] /\ cnt'[u] = cnt[u] /\ desc'[u] = desc[u]
      BY <2>2
    <3>2. page[u] \in Headed /\ arena[page[u]].desc = desc[u] /\ Size(page[u]) = cnt[u]
      BY <3>1 DEF Handling
    <3>3. Size(page[u])' = IF arena'[page'[u]].desc = Null THEN arena'[page'[u]].free_cnt ELSE 1
      BY DEF Size
    <3>4. arena'[page[u]] = arena[page[u]]
      BY <1>9, <3>2
    <3> QED
      BY <1>8, <3>1, <3>2, <3>3, <3>4 DEF Size
  <2> QED
    BY <2>1, <2>2 DEF Handling
<1>13. Marked'
  <2> SUFFICES ASSUME NEW p \in Page
               PROVE  used_map[p] <=> Taken(p)'
    BY DEF Marked
  <2>1. Taken(p)' <=> \/ \E u \in Thread : p \in Handled(u)'
                      \/ \E r \in Headed \cup {q} : p \in Run(r, Size(r)')
    BY <1>8 DEF Taken, Run
  <2>2. (\E u \in Thread : p \in Handled(u)) <=> p \in R \/ \E u \in Thread : p \in Handled(u)'
    BY <1>1
  <2>3. (\E r \in Headed \cup {q} : p \in Run(r, Size(r)')) <=>
          p \in R \/ \E r \in Headed : p \in Run(r, Size(r))
    BY <1>9, <1>10 DEF R
  <2>4. Taken(p) <=> Taken(p)'
    BY <2>1, <2>2, <2>3 DEF Taken
  <2> QED
    BY <2>4 DEF Marked
<1> QED
  BY <1>0, <1>3, <1>5, <1>6, <1>8, <1>9, <1>11, <1>12, <1>13

\* The threads inside free, or about to give pages back, and what they have
\* there are the same.
LEMMA SameFrees ==
  ASSUME NEW t \in Thread, pc[t] \notin {"free", "assert"}, pc'[t] \notin {"free", "assert"},
         \A u \in Thread \ {t} : /\ pc'[u] = pc[u] /\ desc'[u] = desc[u]
                                 /\ page'[u] = page[u] /\ block'[u] = block[u]
  PROVE  /\ \A b : Pending(b)' <=> Pending(b)
         /\ \A q : Released(q)' <=> Released(q)
         /\ \A u \in Thread : pc'[u] \in {"free", "assert"} =>
              /\ u # t /\ pc'[u] = pc[u] /\ desc'[u] = desc[u]
              /\ page'[u] = page[u] /\ block'[u] = block[u]
<1>1. \A u \in Thread : /\ pc'[u] = "assert" <=> pc[u] = "assert"
                        /\ pc'[u] = "free" <=> pc[u] = "free"
  OBVIOUS
<1>2. \A u \in Thread : pc[u] \in {"free", "assert"} =>
        page'[u] = page[u] /\ desc'[u] = desc[u] /\ block'[u] = block[u]
  OBVIOUS
<1> QED
  BY <1>1, <1>2 DEF Pending, Released

\* A page without a header has no blocks, and nobody gives it back.
LEMMA Unheaded ==
  ASSUME Types, Handling, Lodged, NEW q, q \notin Headed
  PROVE  /\ ~Released(q)
         /\ \A b : b[1] = q => b \notin given /\ ~Pending(b) /\ ~Listed(b)
<1>1. ~Released(q)
  BY DEF Handling, Released
<1>2. ASSUME NEW b, b[1] = q
      PROVE  b \notin given /\ ~Pending(b) /\ ~Listed(b)
  <2>1. b \notin given
    BY <1>2 DEF Lodged
  <2>2. ~Pending(b)
    BY <1>2 DEF Lodged, Pending
  <2>3. ~Listed(b)
    BY <1>2 DEF Lodged, Listed
  <2> QED
    BY <2>1, <2>2, <2>3
<1> QED
  BY <1>1, <1>2

\* A big block gets its header and is given out.
LEMMA InitBigStep ==
  ASSUME Allocation, NEW t \in Thread, InitBig(t)
  PROVE  Allocation'
<1>1. PICK q : q = page[t]
  OBVIOUS
<1>2. PICK h : h = [desc |-> Null, free_cnt |-> cnt[t]]
  OBVIOUS
<1>3. PICK b : b = <<q, 0>>
  OBVIOUS
<1>4. /\ pc[t] = "init" /\ arena' = [arena EXCEPT ![page[t]] = h]
      /\ given' = given \cup {b} /\ Finish(t)
      /\ UNCHANGED <<used_map, pool_lock, free_list, desc_lock, panic>>
  BY <1>1, <1>2, <1>3 DEF InitBig, Doing
<1>5. Types /\ Calls /\ Headers /\ Handling /\ Marked /\ Places /\ Lodged /\ Counts
  BY DEF Allocation
<1>6. /\ pc' \in [Thread -> Label] /\ desc' \in [Thread -> Desc \cup {Null}]
      /\ block' \in [Thread -> Block \cup {Null}]
      /\ page' \in [Thread -> Nat] /\ cnt' \in [Thread -> Nat]
      /\ pc'[t] = "idle" /\ desc'[t] = Null
      /\ \A u \in Thread \ {t} : /\ pc'[u] = pc[u] /\ desc'[u] = desc[u] /\ page'[u] = page[u]
                                 /\ cnt'[u] = cnt[u] /\ block'[u] = block[u]
      /\ Locked(t)' /\ Paged(t)'
  BY <1>4, <1>5, Returns
<1>7. cnt[t] \in Nat
  BY <1>5 DEF Types
<1>8. h \in Header /\ h.desc = Null /\ h.free_cnt = cnt[t]
  BY <1>2, <1>7 DEF Header
<1>9. /\ q \in Page \ Headed /\ Headed' = Headed \cup {q}
      /\ \A r \in Headed : arena'[r] = arena[r]
      /\ arena'[q] = h
      /\ Headers' /\ Handling' /\ Marked'
  <2>1. cnt[t] = IF h.desc = Null THEN h.free_cnt ELSE 1
    BY <1>8
  <2>2. pc'[t] \notin {"init", "assert", "clear"}
    BY <1>6
  <2>3. \A u \in Thread \ {t} : /\ pc'[u] = pc[u] /\ desc'[u] = desc[u]
                                 /\ page'[u] = page[u] /\ cnt'[u] = cnt[u]
    BY <1>6
  <2>4. UNCHANGED used_map /\ pc[t] = "init" /\ arena' = [arena EXCEPT ![page[t]] = h]
    BY <1>4
  <2>5. /\ page[t] \in Page \ Headed /\ Headed' = Headed \cup {page[t]}
        /\ \A r \in Headed : arena'[r] = arena[r]
        /\ arena'[page[t]] = h
        /\ Headers' /\ Handling' /\ Marked'
    BY <1>5, <1>8, <2>1, <2>2, <2>3, <2>4, Build
  <2> QED
    BY <1>1, <2>5
<1>10. b \in Block /\ b[1] = q /\ b[2] = 0
  BY <1>3, <1>9, MemoryAssumption, SMT DEF Block
<1>11. Types'
  BY <1>1, <1>4, <1>5, <1>6, <1>8, <1>9, <1>10 DEF Types
<1>12. Calls'
  BY <1>4, <1>5, <1>6, OthersGoOn
<1>13. /\ \A x : Pending(x)' <=> Pending(x)
       /\ \A r : Released(r)' <=> Released(r)
       /\ \A u \in Thread : pc'[u] \in {"free", "assert"} =>
            /\ u # t /\ pc'[u] = pc[u] /\ desc'[u] = desc[u]
            /\ page'[u] = page[u] /\ block'[u] = block[u]
  BY <1>4, <1>6, SameFrees
<1>14. \A x : Listed(x)' <=> Listed(x)
  BY <1>4 DEF Listed
<1>15. /\ ~Released(q) /\ b \notin given /\ ~Pending(b) /\ ~Listed(b)
  BY <1>5, <1>9, <1>10, Unheaded
<1>16. Places'
  <2>1. \A x \in given' : ~Pending(x)' /\ ~Listed(x)'
    BY <1>4, <1>5, <1>13, <1>14, <1>15 DEF Places
  <2>2. \A x \in Block : Pending(x)' => ~Listed(x)'
    BY <1>5, <1>13, <1>14 DEF Places
  <2>3. \A u, v \in Thread : pc'[u] = "free" /\ pc'[v] = "free" /\ block'[u] = block'[v] => u = v
    BY <1>5, <1>13 DEF Places
  <2>4. \A d \in Desc : IsInjective(free_list'[d])
    BY <1>4, <1>5 DEF Places
  <2> QED
    BY <2>1, <2>2, <2>3, <2>4 DEF Places
<1>17. Lodged'
  <2>1. \A x \in given' : /\ x[1] \in Headed'
                          /\ arena'[x[1]].desc = Null => x[2] = 0
    <3>1. \A x \in given : /\ x[1] \in Headed'
                           /\ arena'[x[1]].desc = Null => x[2] = 0
      BY <1>5, <1>9 DEF Lodged
    <3> QED
      BY <1>4, <1>9, <1>10, <3>1
  <2>2. \A u \in Thread : pc'[u] = "free" =>
          /\ block'[u] \in Block /\ block'[u][1] \in Headed' /\ page'[u] = block'[u][1]
          /\ arena'[block'[u][1]].desc = desc'[u]
    BY <1>5, <1>9, <1>13, SMT DEF Lodged
  <2>3. \A d \in Desc : \A x \in Range(free_list'[d]) :
          x[1] \in Headed' /\ arena'[x[1]].desc = d
    BY <1>4, <1>5, <1>9, SMT DEF Lodged
  <2> QED
    BY <2>1, <2>2, <2>3 DEF Lodged
<1>18. Counts'
  <2>1. ASSUME NEW r \in Headed
        PROVE  /\ Released(r)' => \A x \in Block : x[1] = r => ~Known(x)'
               /\ arena'[r].desc # Null /\ ~Released(r)' =>
                    arena'[r].free_cnt = Cardinality(FreeBlocks(r)')
    <3>1. \A x \in Block : x[1] = r => (Known(x)' <=> Known(x))
      BY <1>4, <1>9, <1>10, <1>13, <1>14 DEF Known
    <3>2. FreeBlocks(r)' = FreeBlocks(r)
      BY <1>4, <1>9 DEF FreeBlocks
    <3> QED
      BY <1>5, <1>9, <1>13, <3>1, <3>2 DEF Counts
  <2>2. ~Released(q)' /\ arena'[q].desc = Null
    BY <1>8, <1>9, <1>13, <1>15
  <2> QED
    BY <1>9, <2>1, <2>2 DEF Counts, FreeBlocks
<1> QED
  BY <1>9, <1>11, <1>12, <1>16, <1>17, <1>18 DEF Allocation

\* The free blocks of an arena are blocks of it.
LEMMA FreeIn ==
  ASSUME Types, NEW q \in Page, arena[q].desc \in Desc
  PROVE  FreeBlocks(q) \in SUBSET BlocksIn(q)
<1>1. free_list[arena[q].desc] \in Seq(Block)
  BY DEF Types
<1>2. Range(free_list[arena[q].desc]) \subseteq Block
  BY <1>1, ListIs
<1> QED
  BY <1>2 DEF FreeBlocks, BlocksIn, Block

\* A new arena gets its header and puts its blocks on the free list.
LEMMA InitArenaStep ==
  ASSUME Allocation, Counting, NEW t \in Thread, InitArena(t)
  PROVE  Allocation'
<1>1. PICK q : q = page[t]
  OBVIOUS
<1>2. PICK d : d = desc[t]
  OBVIOUS
<1>3. PICK h : h = [desc |-> d, free_cnt |-> BlockCount]
  OBVIOUS
<1>4. /\ pc[t] = "init" /\ d # Null /\ arena' = [arena EXCEPT ![page[t]] = h]
      /\ free_list' = [free_list EXCEPT ![d] = free_list[d] \o BlocksOf(q, d)]
      /\ pc' = [pc EXCEPT ![t] = "pop"]
      /\ UNCHANGED <<used_map, pool_lock, desc_lock, given, desc, block, page, cnt, panic>>
  BY <1>1, <1>2, <1>3 DEF InitArena, Doing, Goto, blocks_per_arena
<1>5. Types /\ Calls /\ Headers /\ Handling /\ Marked /\ Places /\ Lodged /\ Counts
  BY DEF Allocation
<1>6. d \in Desc /\ desc_lock[d] = t /\ cnt[t] = 1
  BY <1>2, <1>4, <1>5 DEF Types, Calls, Locked
<1>7. h \in Header /\ h.desc = d /\ h.free_cnt = BlockCount
  BY <1>3, <1>6, MemoryAssumption DEF Header
<1>8. /\ pc' \in [Thread -> Label] /\ pc'[t] = "pop"
      /\ \A u \in Thread \ {t} : /\ pc'[u] = pc[u] /\ desc'[u] = desc[u] /\ page'[u] = page[u]
                                 /\ cnt'[u] = cnt[u] /\ block'[u] = block[u]
  BY <1>4, <1>5 DEF Types, Label
<1>9. /\ q \in Page \ Headed /\ Headed' = Headed \cup {q}
      /\ \A r \in Headed : arena'[r] = arena[r]
      /\ arena'[q] = h
      /\ Headers' /\ Handling' /\ Marked'
  <2>1. cnt[t] = IF h.desc = Null THEN h.free_cnt ELSE 1
    BY <1>4, <1>6, <1>7
  <2>2. pc'[t] \notin {"init", "assert", "clear"}
    BY <1>8
  <2>3. \A u \in Thread \ {t} : /\ pc'[u] = pc[u] /\ desc'[u] = desc[u]
                                 /\ page'[u] = page[u] /\ cnt'[u] = cnt[u]
    BY <1>8
  <2>4. UNCHANGED used_map /\ pc[t] = "init" /\ arena' = [arena EXCEPT ![page[t]] = h]
    BY <1>4
  <2>5. /\ page[t] \in Page \ Headed /\ Headed' = Headed \cup {page[t]}
        /\ \A r \in Headed : arena'[r] = arena[r]
        /\ arena'[page[t]] = h
        /\ Headers' /\ Handling' /\ Marked'
    BY <1>5, <1>7, <2>1, <2>2, <2>3, <2>4, Build
  <2> QED
    BY <1>1, <2>5
<1>10. /\ ~Released(q)
       /\ \A b : b[1] = q => b \notin given /\ ~Pending(b) /\ ~Listed(b)
  BY <1>5, <1>9, Unheaded
<1>11. PICK l : l = free_list[d] \o BlocksOf(q, d)
  OBVIOUS
<1>12. /\ l \in Seq(Block) /\ IsInjective(l) /\ l # <<>>
       /\ Range(l) = Range(free_list[d]) \cup BlocksIn(q)
  <2>1. free_list[d] \in Seq(Block) /\ IsInjective(free_list[d])
    BY <1>5, <1>6 DEF Types, Places
  <2>2. \A b \in Range(free_list[d]) : b[1] # q
    BY <1>6, <1>10 DEF Listed
  <2>3. q \in Page
    BY <1>9
  <2> QED
    BY <1>11, <2>1, <2>2, <2>3, ArenaOn
<1>13. free_list'[d] = l /\ \A e \in Desc \ {d} : free_list'[e] = free_list[e]
  BY <1>4, <1>5, <1>6, <1>11 DEF Types
<1>14. free_list' = [free_list EXCEPT ![d] = l]
  BY <1>4, <1>11
<1>15. Types'
  <2>1. free_list' \in [Desc -> Seq(Block)]
    BY <1>5, <1>12, <1>14 DEF Types
  <2>2. arena' \in [Page -> Header \cup {Null}]
    BY <1>4, <1>5, <1>7 DEF Types
  <2> QED
    BY <1>4, <1>5, <1>8, <2>1, <2>2 DEF Types
<1>16. Calls'
  <2>1. Locked(t)'
    BY <1>2, <1>4, <1>6, <1>8, <1>12, <1>13 DEF Locked
  <2>2. Paged(t)'
    BY <1>8 DEF Paged
  <2>3. \A e \in Desc : desc_lock[e] \in Thread \ {t} =>
          desc_lock'[e] = desc_lock[e] /\ free_list'[e] = free_list[e]
    BY <1>4, <1>6, <1>13
  <2> QED
    BY <1>4, <1>5, <1>8, <2>1, <2>2, <2>3, OthersGoOn
<1>17. /\ \A x : Pending(x)' <=> Pending(x)
       /\ \A r : Released(r)' <=> Released(r)
       /\ \A u \in Thread : pc'[u] \in {"free", "assert"} =>
            /\ u # t /\ pc'[u] = pc[u] /\ desc'[u] = desc[u]
            /\ page'[u] = page[u] /\ block'[u] = block[u]
  BY <1>4, <1>8, SameFrees
<1>18. \A x : x \in BlocksIn(q) => x[1] = q
  BY DEF BlocksIn
<1>19. \A x : Listed(x)' <=> Listed(x) \/ x \in BlocksIn(q)
  BY <1>6, <1>12, <1>13 DEF Listed
<1>20. Places'
  <2>1. \A x \in given' : ~Pending(x)' /\ ~Listed(x)'
    BY <1>4, <1>5, <1>10, <1>17, <1>18, <1>19 DEF Places
  <2>2. \A x \in Block : Pending(x)' => ~Listed(x)'
    BY <1>5, <1>10, <1>17, <1>18, <1>19 DEF Places
  <2>3. \A u, v \in Thread : pc'[u] = "free" /\ pc'[v] = "free" /\ block'[u] = block'[v] => u = v
    BY <1>5, <1>17 DEF Places
  <2>4. \A e \in Desc : IsInjective(free_list'[e])
    BY <1>5, <1>12, <1>13 DEF Places
  <2> QED
    BY <2>1, <2>2, <2>3, <2>4 DEF Places
<1>21. Lodged'
  <2>1. \A x \in given' : /\ x[1] \in Headed'
                          /\ arena'[x[1]].desc = Null => x[2] = 0
    BY <1>4, <1>5, <1>9 DEF Lodged
  <2>2. \A u \in Thread : pc'[u] = "free" =>
          /\ block'[u] \in Block /\ block'[u][1] \in Headed' /\ page'[u] = block'[u][1]
          /\ arena'[block'[u][1]].desc = desc'[u]
    BY <1>5, <1>9, <1>17, SMT DEF Lodged
  <2>3. ASSUME NEW e \in Desc, NEW x \in Range(free_list'[e])
        PROVE  x[1] \in Headed' /\ arena'[x[1]].desc = e
    <3>1. CASE x \in Range(free_list[e])
      BY <1>5, <1>9, <3>1 DEF Lodged
    <3>2. CASE e = d /\ x \in BlocksIn(q)
      BY <1>7, <1>9, <1>18, <3>2
    <3> QED
      BY <1>12, <1>13, <2>3, <3>1, <3>2
  <2> QED
    BY <2>1, <2>2, <2>3 DEF Lodged
<1>22. Counts'
  <2>1. ASSUME NEW r \in Headed
        PROVE  /\ Released(r)' => \A x \in Block : x[1] = r => ~Known(x)'
               /\ arena'[r].desc # Null /\ ~Released(r)' =>
                    arena'[r].free_cnt = Cardinality(FreeBlocks(r)')
    <3>1. r # q
      BY <1>9
    <3>2. \A x \in Block : x[1] = r => (Known(x)' <=> Known(x))
      BY <1>4, <1>17, <1>18, <1>19, <3>1 DEF Known
    <3>3. arena[r].desc # Null => FreeBlocks(r)' = FreeBlocks(r)
      <4>1. arena[r].desc \in Desc \cup {Null} /\ arena'[r].desc = arena[r].desc
        BY <1>5, <1>9, HeaderIs
      <4>2. \A x : x[1] = r => (x \in Range(l) <=> x \in Range(free_list[d]))
        BY <1>12, <1>18, <3>1
      <4>3. CASE arena[r].desc = d
        BY <1>13, <4>1, <4>2, <4>3 DEF FreeBlocks
      <4>4. CASE arena[r].desc \in Desc \ {d}
        BY <1>13, <4>1, <4>4 DEF FreeBlocks
      <4> QED
        BY <4>1, <4>3, <4>4
    <3> QED
      BY <1>5, <1>9, <1>17, <3>2, <3>3 DEF Counts
  <2>2. ~Released(q)'
    BY <1>10, <1>17
  <2>3. arena'[q].free_cnt = Cardinality(FreeBlocks(q)')
    <3>1. FreeBlocks(q)' = {x \in Range(l) : x[1] = q}
      BY <1>7, <1>9, <1>13 DEF FreeBlocks
    <3>2. \A x \in Range(free_list[d]) : x[1] # q
      BY <1>6, <1>10 DEF Listed
    <3>3. FreeBlocks(q)' = BlocksIn(q)
      BY <1>12, <1>18, <3>1, <3>2, SMT
    <3>4. Cardinality(BlocksIn(q)) = BlockCount
      BY <1>9 DEF Counting
    <3> QED
      BY <1>7, <1>9, <3>3, <3>4
  <2>4. \A r \in Headed' :
          /\ Released(r)' => \A x \in Block : x[1] = r => ~Known(x)'
          /\ arena'[r].desc # Null /\ ~Released(r)' =>
               arena'[r].free_cnt = Cardinality(FreeBlocks(r)')
    BY <1>9, <2>1, <2>2, <2>3
  <2> QED
    BY <2>4 DEF Counts, FreeBlocks
<1> QED
  BY <1>9, <1>15, <1>16, <1>20, <1>21, <1>22 DEF Allocation

\* A block goes from the free list to the caller.
LEMMA PopStep ==
  ASSUME Allocation, Counting, NEW t \in Thread, PopBlock(t)
  PROVE  Allocation'
<1>1. PICK d : d = desc[t]
  OBVIOUS
<1>2. Types /\ Calls /\ Headers /\ Handling /\ Marked /\ Places /\ Lodged /\ Counts
  BY DEF Allocation
<1>3. pc[t] = "pop"
  BY DEF PopBlock, Doing
<1>4. d \in Desc /\ desc_lock[d] = t /\ free_list[d] # <<>>
  BY <1>1, <1>2, <1>3 DEF Types, Calls, Locked
<1>5. PICK l : l = Tail(free_list[d])
  OBVIOUS
<1>6. PICK b : b = Head(free_list[d])
  OBVIOUS
<1>7. free_list[d] \in Seq(Block) /\ IsInjective(free_list[d])
  BY <1>2, <1>4 DEF Types, Places
<1>8. /\ b \in Range(free_list[d]) /\ b \in Block
      /\ l \in Seq(Block) /\ IsInjective(l) /\ Range(l) = Range(free_list[d]) \ {b}
  BY <1>4, <1>5, <1>6, <1>7, PopFront, ListIs
<1>9. PICK q : q = b[1]
  OBVIOUS
<1>10. q \in Headed /\ arena[q].desc = d /\ arena[q] # Null
  BY <1>2, <1>4, <1>8, <1>9 DEF Lodged, Headed
<1>11. /\ free_list' = [free_list EXCEPT ![d] = l]
       /\ arena' = [arena EXCEPT ![q].free_cnt = @ - 1]
       /\ given' = given \cup {b} /\ Unlock(t) /\ Finish(t)
       /\ UNCHANGED <<used_map, pool_lock, panic>>
  BY <1>1, <1>4, <1>5, <1>6, <1>9, <1>10 DEF PopBlock
<1>12. /\ q \in Page /\ arena[q] \in Header /\ arena[q].free_cnt \in Nat
  BY <1>2, <1>10, HeaderIs
<1>13. Listed(b) /\ b \notin given /\ ~Pending(b) /\ Known(b)
  BY <1>2, <1>4, <1>8 DEF Listed, Places, Known
<1>14. ~Released(q)
  BY <1>2, <1>8, <1>9, <1>10, <1>13 DEF Counts
<1>15. /\ FreeBlocks(q) \in SUBSET BlocksIn(q) /\ b \in FreeBlocks(q)
       /\ arena[q].free_cnt = Cardinality(FreeBlocks(q))
  BY <1>2, <1>4, <1>8, <1>9, <1>10, <1>12, <1>14, MemoryAssumption, FreeIn DEF Counts, FreeBlocks
<1>16. /\ Cardinality(FreeBlocks(q) \ {b}) = arena[q].free_cnt - 1
       /\ Cardinality(FreeBlocks(q) \ {b}) \in Nat
  <2>1. FreeBlocks(q) \ {b} \in SUBSET BlocksIn(q)
    BY <1>15
  <2> QED
    BY <1>12, <1>15, <2>1 DEF Counting
<1>17. PICK h : h = [arena[q] EXCEPT !.free_cnt = @ - 1]
  OBVIOUS
<1>18. h \in Header /\ h.desc = d /\ h.free_cnt = arena[q].free_cnt - 1 /\ h # Null
  BY <1>10, <1>12, <1>16, <1>17, MemoryAssumption DEF Header
<1>19. /\ arena' = [arena EXCEPT ![q] = h] /\ arena'[q] = h
       /\ \A r \in Page \ {q} : arena'[r] = arena[r]
  BY <1>2, <1>11, <1>12, <1>17 DEF Types
<1>20. free_list'[d] = l /\ \A e \in Desc \ {d} : free_list'[e] = free_list[e]
  BY <1>2, <1>4, <1>11 DEF Types
<1>21. /\ pc' \in [Thread -> Label] /\ desc' \in [Thread -> Desc \cup {Null}]
       /\ block' \in [Thread -> Block \cup {Null}]
       /\ page' \in [Thread -> Nat] /\ cnt' \in [Thread -> Nat]
       /\ pc'[t] = "idle" /\ desc'[t] = Null
       /\ \A u \in Thread \ {t} : /\ pc'[u] = pc[u] /\ desc'[u] = desc[u] /\ page'[u] = page[u]
                                  /\ cnt'[u] = cnt[u] /\ block'[u] = block[u]
       /\ Locked(t)' /\ Paged(t)'
  BY <1>2, <1>11, Returns
<1>22. /\ desc_lock' \in [Desc -> Thread \cup {Null}]
       /\ \A e \in Desc : desc_lock[e] \in Thread \ {t} => desc_lock'[e] = desc_lock[e]
  BY <1>2, <1>3, <1>11, Unlocks
<1>23. Types'
  <2>1. arena' \in [Page -> Header \cup {Null}]
    BY <1>2, <1>18, <1>19 DEF Types
  <2>2. free_list' \in [Desc -> Seq(Block)]
    BY <1>2, <1>8, <1>11 DEF Types
  <2> QED
    BY <1>2, <1>8, <1>11, <1>21, <1>22, <2>1, <2>2 DEF Types
<1>24. Calls'
  <2>1. \A e \in Desc : desc_lock[e] \in Thread \ {t} =>
          desc_lock'[e] = desc_lock[e] /\ free_list'[e] = free_list[e]
    BY <1>4, <1>20, <1>22
  <2> QED
    BY <1>2, <1>11, <1>21, <2>1, OthersGoOn
<1>25. Headed' = Headed
  BY <1>10, <1>12, <1>18, <1>19 DEF Headed
<1>26. \A r \in Headed : r # q => arena'[r] = arena[r]
  BY <1>19 DEF Headed
<1>27. Headers' /\ Handling' /\ Marked'
  <2>1. \A r \in Headed : arena'[r].desc = arena[r].desc /\ Size(r)' = Size(r)
    <3>1. d # Null
      BY <1>4, MemoryAssumption
    <3> QED
      BY <1>10, <1>18, <1>19, <1>26, <3>1, SMT DEF Size
  <2> QED
    BY <1>2, <1>3, <1>11, <1>21, <1>25, <2>1, PagesStay
<1>28. /\ \A x : Pending(x)' <=> Pending(x)
       /\ \A r : Released(r)' <=> Released(r)
       /\ \A u \in Thread : pc'[u] \in {"free", "assert"} =>
            /\ u # t /\ pc'[u] = pc[u] /\ desc'[u] = desc[u]
            /\ page'[u] = page[u] /\ block'[u] = block[u]
  BY <1>3, <1>21, SameFrees
<1>29. \A x : Listed(x)' => Listed(x) /\ x # b
  <2> SUFFICES ASSUME NEW x, NEW e \in Desc, x \in Range(free_list'[e])
               PROVE  Listed(x) /\ x # b
    BY DEF Listed
  <2>1. CASE e = d
    BY <1>4, <1>8, <1>20, <2>1 DEF Listed
  <2>2. CASE e # d
    <3>1. x \in Range(free_list[e])
      BY <1>20, <2>2
    <3>2. arena[x[1]].desc = e
      BY <1>2, <3>1 DEF Lodged
    <3> QED
      BY <1>9, <1>10, <2>2, <3>1, <3>2 DEF Listed
  <2> QED
    BY <2>1, <2>2
<1>30. Places'
  <2>1. \A x \in given' : ~Pending(x)' /\ ~Listed(x)'
    BY <1>2, <1>11, <1>13, <1>28, <1>29 DEF Places
  <2>2. \A x \in Block : Pending(x)' => ~Listed(x)'
    BY <1>2, <1>28, <1>29 DEF Places
  <2>3. \A u, v \in Thread : pc'[u] = "free" /\ pc'[v] = "free" /\ block'[u] = block'[v] => u = v
    BY <1>2, <1>28 DEF Places
  <2>4. \A e \in Desc : IsInjective(free_list'[e])
    BY <1>2, <1>8, <1>20 DEF Places
  <2> QED
    BY <2>1, <2>2, <2>3, <2>4 DEF Places
<1>31. \A r \in Headed : arena'[r].desc = arena[r].desc
  BY <1>10, <1>18, <1>19, <1>26
<1>32. Lodged'
  <2>1. \A x \in given' : /\ x[1] \in Headed'
                          /\ arena'[x[1]].desc = Null => x[2] = 0
    <3>1. d # Null
      BY <1>4, MemoryAssumption
    <3>2. \A x \in given : /\ x[1] \in Headed'
                           /\ arena'[x[1]].desc = Null => x[2] = 0
      BY <1>2, <1>25, <1>31 DEF Lodged
    <3> QED
      BY <1>9, <1>10, <1>11, <1>25, <1>31, <3>1, <3>2
  <2>2. \A u \in Thread : pc'[u] = "free" =>
          /\ block'[u] \in Block /\ block'[u][1] \in Headed' /\ page'[u] = block'[u][1]
          /\ arena'[block'[u][1]].desc = desc'[u]
    BY <1>2, <1>25, <1>28, <1>31, SMT DEF Lodged
  <2>3. ASSUME NEW e \in Desc, NEW x \in Range(free_list'[e])
        PROVE  x[1] \in Headed' /\ arena'[x[1]].desc = e
    <3>1. x \in Range(free_list[e])
      BY <1>8, <1>20, <2>3
    <3> QED
      BY <1>2, <1>25, <1>31, <3>1 DEF Lodged
  <2> QED
    BY <2>1, <2>2, <2>3 DEF Lodged
<1>33. Counts'
  <2>1. ASSUME NEW r \in Headed, r # q
        PROVE  /\ Released(r)' => \A x \in Block : x[1] = r => ~Known(x)'
               /\ arena'[r].desc # Null /\ ~Released(r)' =>
                    arena'[r].free_cnt = Cardinality(FreeBlocks(r)')
    <3>1. \A x \in Block : x[1] = r => (Known(x)' => Known(x))
      BY <1>9, <1>11, <1>28, <1>29, <2>1 DEF Known
    <3>2. arena[r].desc # Null => FreeBlocks(r)' = FreeBlocks(r)
      <4>1. arena[r].desc \in Desc \cup {Null} /\ arena'[r].desc = arena[r].desc
        BY <1>2, <1>31, HeaderIs
      <4>2. \A x : x[1] = r => (x \in Range(l) <=> x \in Range(free_list[d]))
        BY <1>8, <1>9, <2>1
      <4>3. CASE arena[r].desc = d
        BY <1>20, <4>1, <4>2, <4>3 DEF FreeBlocks
      <4>4. CASE arena[r].desc \in Desc \ {d}
        BY <1>20, <4>1, <4>4 DEF FreeBlocks
      <4> QED
        BY <4>1, <4>3, <4>4
    <3> QED
      BY <1>2, <1>26, <1>28, <2>1, <3>1, <3>2 DEF Counts
  <2>2. ~Released(q)'
    BY <1>14, <1>28
  <2>3. arena'[q].free_cnt = Cardinality(FreeBlocks(q)')
    <3>1. FreeBlocks(q)' = {x \in Range(l) : x[1] = q}
      BY <1>18, <1>19, <1>20 DEF FreeBlocks
    <3>2. FreeBlocks(q) = {x \in Range(free_list[d]) : x[1] = q}
      BY <1>10 DEF FreeBlocks
    <3>3. FreeBlocks(q)' = FreeBlocks(q) \ {b}
      BY <1>8, <3>1, <3>2
    <3> QED
      BY <1>16, <1>18, <1>19, <3>3
  <2>4. \A r \in Headed' :
          /\ Released(r)' => \A x \in Block : x[1] = r => ~Known(x)'
          /\ arena'[r].desc # Null /\ ~Released(r)' =>
               arena'[r].free_cnt = Cardinality(FreeBlocks(r)')
    BY <1>25, <2>1, <2>2, <2>3
  <2> QED
    BY <2>4 DEF Counts, FreeBlocks
<1> QED
  BY <1>23, <1>24, <1>27, <1>30, <1>32, <1>33 DEF Allocation

(***************************************************************************)
(* free, step by step.                                                     *)
(***************************************************************************)
\* A call is about to give back the pages of a header that nobody else gives
\* back.
LEMMA Seize ==
  ASSUME Types, Headers, Handling, Marked, NEW t \in Thread, NEW q \in Headed,
         \A u \in Thread \ {t} : /\ pc'[u] = pc[u] /\ desc'[u] = desc[u]
                                 /\ page'[u] = page[u] /\ cnt'[u] = cnt[u],
         pc[t] \notin {"init", "assert", "clear"}, pc'[t] = "assert",
         page'[t] = q, cnt'[t] = Size(q), desc'[t] = arena[q].desc,
         ~Released(q), UNCHANGED used_map, Headed' = Headed,
         \A r \in Headed : arena'[r].desc = arena[r].desc /\ Size(r)' = Size(r)
  PROVE  Headers' /\ Handling' /\ Marked'
<1> DEFINE R == Run(q, Size(q))
<1>1. Handled(t) = {} /\ Handled(t)' = R /\ \A u \in Thread \ {t} : Handled(u)' = Handled(u)
  BY DEF Handled
<1>2. \A u \in Thread : ~(pc[u] = "assert" /\ page[u] = q)
  BY DEF Released
<1>3. \A u \in Thread \ {t} : R \cap Handled(u) = {}
  BY <1>2 DEF Headers
<1>4. Headers'
  <2> SUFFICES ASSUME NEW r \in Headed
               PROVE  /\ Size(r)' > 0
                      /\ Run(r, Size(r)') \subseteq Page
                      /\ \A s \in Headed : r # s => Run(r, Size(r)') \cap Run(s, Size(s)') = {}
                      /\ \A u \in Thread : ~(pc'[u] = "assert" /\ page'[u] = r) =>
                           Run(r, Size(r)') \cap Handled(u)' = {}
    BY DEF Headers, Run
  <2>1. Size(r)' = Size(r) /\ \A s \in Headed : Size(s)' = Size(s)
    OBVIOUS
  <2>2. ASSUME NEW u \in Thread, ~(pc'[u] = "assert" /\ page'[u] = r)
        PROVE  Run(r, Size(r)) \cap Handled(u)' = {}
    <3>1. CASE u = t
      <4>1. r # q
        BY <2>2, <3>1
      <4> QED
        BY <1>1, <3>1, <4>1 DEF Headers
    <3>2. CASE u # t
      BY <1>1, <2>2, <3>2 DEF Headers
    <3> QED
      BY <3>1, <3>2
  <2> QED
    BY <2>1, <2>2 DEF Headers
<1>5. Handling'
  <2>1. ASSUME NEW v \in Thread, NEW u \in Thread, v # u
        PROVE  Handled(v)' \cap Handled(u)' = {}
    <3>1. CASE u # t /\ v # t
      BY <1>1, <2>1, <3>1 DEF Handling
    <3>2. CASE u = t \/ v = t
      BY <1>1, <1>3, <2>1, <3>2, SMT
    <3> QED
      BY <3>1, <3>2
  <2>2. ASSUME NEW u \in Thread, pc'[u] = "assert"
        PROVE  /\ page'[u] \in Headed' /\ arena'[page'[u]].desc = desc'[u]
               /\ Size(page[u])' = cnt'[u]
    <3>1. \A r \in Headed : page'[u] = r => Size(page[u])' = Size(r)
      BY DEF Size
    <3>2. CASE u = t
      BY <3>1, <3>2
    <3>3. CASE u # t
      BY <2>2, <3>1, <3>3, SMT DEF Handling
    <3> QED
      BY <3>2, <3>3
  <2> QED
    BY <2>1, <2>2 DEF Handling
<1>6. Marked'
  <2> SUFFICES ASSUME NEW p \in Page
               PROVE  Taken(p)' <=> Taken(p)
    BY DEF Marked
  <2>1. Taken(p)' <=> \/ \E u \in Thread : p \in Handled(u)'
                      \/ \E r \in Headed : p \in Run(r, Size(r))
    BY DEF Taken, Run
  <2> QED
    BY <1>1, <2>1 DEF Taken
<1> QED
  BY <1>4, <1>5, <1>6

\* A big block goes straight to the page allocator.
LEMMA FreeBigStep ==
  ASSUME Allocation, NEW t \in Thread, NEW b \in given, FreeBlock(t, b), arena[b[1]].desc = Null
  PROVE  Allocation'
<1>1. Types /\ Calls /\ Headers /\ Handling /\ Marked /\ Places /\ Lodged /\ Counts
  BY DEF Allocation
<1>2. PICK q : q = b[1]
  OBVIOUS
<1>3. b \in Block /\ q \in Headed /\ arena[q] # Null /\ arena[q].desc = Null
  BY <1>1, <1>2 DEF Lodged, Types, Headed
<1>4. PICK c : c = arena[q].free_cnt
  OBVIOUS
<1>5. /\ pc[t] = "idle" /\ given' = given \ {b}
      /\ desc' = [desc EXCEPT ![t] = Null] /\ block' = [block EXCEPT ![t] = b]
      /\ page' = [page EXCEPT ![t] = q] /\ cnt' = [cnt EXCEPT ![t] = c]
      /\ pc' = [pc EXCEPT ![t] = "assert"]
      /\ UNCHANGED <<used_map, pool_lock, arena, free_list, desc_lock, panic>>
  BY <1>2, <1>3, <1>4 DEF FreeBlock, Doing, Goto
<1>6. q \in Nat /\ q \in Page /\ c \in Nat /\ Size(q) = c
  BY <1>1, <1>3, <1>4, HeaderIs DEF Size
<1>7. Types'
  BY <1>1, <1>3, <1>5, <1>6 DEF Types, Label
<1>8. /\ pc'[t] = "assert" /\ desc'[t] = Null /\ page'[t] = q /\ cnt'[t] = c
      /\ \A u \in Thread \ {t} : /\ pc'[u] = pc[u] /\ desc'[u] = desc[u] /\ page'[u] = page[u]
                                 /\ cnt'[u] = cnt[u] /\ block'[u] = block[u]
  BY <1>1, <1>5 DEF Types
<1>9. Calls'
  <2>1. Locked(t)'
    BY <1>8 DEF Locked
  <2>2. Paged(t)'
    BY <1>1, <1>3, <1>6, <1>8, SMT DEF Paged, Headers
  <2> QED
    BY <1>1, <1>5, <1>8, <2>1, <2>2, OthersGoOn
<1>10. ~Released(q)
  BY <1>1, <1>2, <1>3 DEF Counts, Known
<1>11. Headed' = Headed /\ \A r \in Headed : arena'[r] = arena[r] /\ Size(r)' = Size(r)
  BY <1>5 DEF Headed, Size
<1>12. Headers' /\ Handling' /\ Marked'
  BY <1>1, <1>3, <1>5, <1>6, <1>8, <1>10, <1>11, Seize
<1>13. \A u \in Thread : /\ pc'[u] = "free" <=> pc[u] = "free"
                         /\ pc[u] = "free" => u # t
  BY <1>5, <1>8
<1>14. \A x : (Pending(x)' <=> Pending(x)) /\ (Listed(x)' <=> Listed(x))
  BY <1>5, <1>8, <1>13 DEF Pending, Listed
<1>15. Places'
  BY <1>1, <1>5, <1>8, <1>13, <1>14, SMT DEF Places
<1>16. Lodged'
  BY <1>1, <1>5, <1>8, <1>11, <1>13, SMT DEF Lodged
<1>17. \A r : r # q => (Released(r)' <=> Released(r))
  BY <1>5, <1>8 DEF Released
<1>18. ASSUME NEW x \in Block, x[1] = q
       PROVE  ~Known(x)'
  <2>1. ~Pending(x)
    BY <1>1, <1>3, <1>18, SMT DEF Lodged, Pending, Calls, Locked
  <2>2. ~Listed(x)
    BY <1>1, <1>3, <1>18, MemoryAssumption, SMT DEF Lodged, Listed
  <2>3. x \in given => x[2] = 0
    BY <1>1, <1>3, <1>18 DEF Lodged
  <2>4. b[2] = 0
    BY <1>1, <1>2, <1>3 DEF Lodged
  <2>5. x \in given => x = b
    BY <1>2, <1>3, <1>18, <2>3, <2>4, SMT DEF Block
  <2> QED
    BY <1>5, <1>14, <2>1, <2>2, <2>5 DEF Known
<1>19. Counts'
  <2>1. \A x : Known(x)' => Known(x)
    BY <1>5, <1>14 DEF Known
  <2>2. \A r \in Headed : FreeBlocks(r)' = FreeBlocks(r)
    BY <1>5 DEF FreeBlocks
  <2>3. ASSUME NEW r \in Headed
        PROVE  /\ Released(r)' => \A x \in Block : x[1] = r => ~Known(x)'
               /\ arena'[r].desc # Null /\ ~Released(r)' =>
                    arena'[r].free_cnt = Cardinality(FreeBlocks(r)')
    <3>1. CASE r = q
      BY <1>3, <1>11, <1>18, <3>1
    <3>2. CASE r # q
      BY <1>1, <1>11, <1>17, <2>1, <2>2, <3>2 DEF Counts
    <3> QED
      BY <3>1, <3>2
  <2> QED
    BY <1>11, <2>3 DEF Counts, FreeBlocks
<1> QED
  BY <1>7, <1>9, <1>12, <1>15, <1>16, <1>19 DEF Allocation

\* A block of an arena waits for the descriptor's lock.
LEMMA FreeSmallStep ==
  ASSUME Allocation, NEW t \in Thread, NEW b \in given, FreeBlock(t, b), arena[b[1]].desc # Null
  PROVE  Allocation'
<1>1. Types /\ Calls /\ Headers /\ Handling /\ Marked /\ Places /\ Lodged /\ Counts
  BY DEF Allocation
<1>2. PICK q : q = b[1]
  OBVIOUS
<1>3. PICK d : d = arena[q].desc
  OBVIOUS
<1>4. b \in Block /\ q \in Headed /\ arena[q] # Null /\ d # Null
  BY <1>1, <1>2, <1>3 DEF Lodged, Types, Headed
<1>5. /\ pc[t] = "idle" /\ given' = given \ {b}
      /\ desc' = [desc EXCEPT ![t] = d] /\ block' = [block EXCEPT ![t] = b]
      /\ page' = [page EXCEPT ![t] = q] /\ cnt' = [cnt EXCEPT ![t] = 1]
      /\ pc' = [pc EXCEPT ![t] = "free"]
      /\ UNCHANGED <<used_map, pool_lock, arena, free_list, desc_lock, panic>>
  BY <1>2, <1>3, <1>4 DEF FreeBlock, Doing, Goto
<1>6. q \in Nat /\ q \in Page /\ d \in Desc
  BY <1>1, <1>3, <1>4, HeaderIs
<1>7. Types'
  BY <1>1, <1>4, <1>5, <1>6 DEF Types, Label
<1>8. /\ pc'[t] = "free" /\ desc'[t] = d /\ page'[t] = q /\ cnt'[t] = 1 /\ block'[t] = b
      /\ \A u \in Thread \ {t} : /\ pc'[u] = pc[u] /\ desc'[u] = desc[u] /\ page'[u] = page[u]
                                 /\ cnt'[u] = cnt[u] /\ block'[u] = block[u]
  BY <1>1, <1>5 DEF Types
<1>9. Calls'
  <2>1. Locked(t)'
    BY <1>4, <1>8 DEF Locked
  <2>2. Paged(t)'
    BY <1>8 DEF Paged
  <2> QED
    BY <1>1, <1>5, <1>8, <2>1, <2>2, OthersGoOn
<1>10. Headed' = Headed /\ \A r \in Headed : arena'[r].desc = arena[r].desc /\ Size(r)' = Size(r)
  BY <1>5 DEF Headed, Size
<1>11. Headers' /\ Handling' /\ Marked'
  BY <1>1, <1>5, <1>8, <1>10, PagesStay
<1>12. \A x : (Pending(x)' <=> Pending(x) \/ x = b) /\ (Listed(x)' <=> Listed(x))
  BY <1>5, <1>8 DEF Pending, Listed
<1>13. ~Pending(b) /\ ~Listed(b)
  BY <1>1 DEF Places
<1>14. Places'
  <2>1. \A x \in given' : ~Pending(x)' /\ ~Listed(x)'
    BY <1>1, <1>5, <1>12 DEF Places
  <2>2. \A x \in Block : Pending(x)' => ~Listed(x)'
    BY <1>1, <1>12, <1>13 DEF Places
  <2>3. ASSUME NEW u \in Thread, NEW v \in Thread,
               pc'[u] = "free", pc'[v] = "free", block'[u] = block'[v]
        PROVE  u = v
    <3>1. \A w \in Thread : w # t /\ pc[w] = "free" => block[w] # b
      BY <1>13 DEF Pending
    <3>2. \A w \in Thread : w # t => pc'[w] = pc[w] /\ block'[w] = block[w]
      BY <1>8
    <3>3. CASE u # t /\ v # t
      BY <1>1, <2>3, <3>2, <3>3 DEF Places
    <3>4. CASE u = t \/ v = t
      BY <1>8, <2>3, <3>1, <3>2, <3>4
    <3> QED
      BY <3>3, <3>4
  <2>4. \A e \in Desc : IsInjective(free_list'[e])
    BY <1>1, <1>5 DEF Places
  <2> QED
    BY <2>1, <2>2, <2>3, <2>4 DEF Places
<1>15. Lodged'
  <2>1. \A x \in given' : /\ x[1] \in Headed'
                          /\ arena'[x[1]].desc = Null => x[2] = 0
    BY <1>1, <1>5, <1>10 DEF Lodged
  <2>2. ASSUME NEW u \in Thread, pc'[u] = "free"
        PROVE  /\ block'[u] \in Block /\ block'[u][1] \in Headed' /\ page'[u] = block'[u][1]
               /\ arena'[block'[u][1]].desc = desc'[u]
    <3>1. CASE u = t
      BY <1>2, <1>3, <1>4, <1>8, <1>10, <3>1
    <3>2. CASE u # t
      BY <1>1, <1>8, <1>10, <2>2, <3>2, SMTT(30) DEF Lodged
    <3> QED
      BY <3>1, <3>2
  <2>3. \A e \in Desc : \A x \in Range(free_list'[e]) :
          x[1] \in Headed' /\ arena'[x[1]].desc = e
    BY <1>1, <1>5, <1>10 DEF Lodged
  <2> QED
    BY <2>1, <2>2, <2>3 DEF Lodged
<1>16. Counts'
  <2>1. \A x : Known(x)' => Known(x)
    BY <1>5, <1>12 DEF Known
  <2>2. \A r \in Headed : FreeBlocks(r)' = FreeBlocks(r)
    BY <1>5 DEF FreeBlocks
  <2>3. \A r : Released(r)' <=> Released(r)
    BY <1>5, <1>8 DEF Released
  <2>4. \A r \in Headed' :
          /\ Released(r)' => \A x \in Block : x[1] = r => ~Known(x)'
          /\ arena'[r].desc # Null /\ ~Released(r)' =>
               arena'[r].free_cnt = Cardinality(FreeBlocks(r)')
    BY <1>1, <1>5, <1>10, <2>1, <2>2, <2>3 DEF Counts
  <2> QED
    BY <2>4 DEF Counts, FreeBlocks
<1> QED
  BY <1>7, <1>9, <1>11, <1>14, <1>15, <1>16 DEF Allocation

\* What free finds once it has the lock: the block belongs to an arena that
\* stays, and the arena's count has room for it.
LEMMA FreeFinds ==
  ASSUME Allocation, Counting, NEW t \in Thread, FreeLocked(t)
  PROVE  \E d, b, q :
          /\ d = desc[t] /\ b = block[t] /\ q = b[1]
          /\ pc[t] = "free" /\ d \in Desc /\ d # Null /\ desc_lock[d] = Null
          /\ b \in Block /\ q \in Headed /\ q \in Page /\ page[t] = q /\ cnt[t] = 1
          /\ arena[q].desc = d /\ arena[q].free_cnt \in Nat
          /\ Pending(b) /\ ~Listed(b) /\ b \notin given
          /\ \A u \in Thread : pc[u] = "free" /\ block[u] = b => u = t
          /\ ~Released(q)
          /\ arena[q].free_cnt + 1 = Cardinality(FreeBlocks(q) \cup {b})
          /\ arena[q].free_cnt + 1 <= BlockCount
          /\ arena[q].free_cnt + 1 = BlockCount => FreeBlocks(q) \cup {b} = BlocksIn(q)
<1>1. Types /\ Calls /\ Headers /\ Handling /\ Marked /\ Places /\ Lodged /\ Counts
  BY DEF Allocation
<1> PICK d : d = desc[t]
  OBVIOUS
<1> PICK b : b = block[t]
  OBVIOUS
<1> PICK q : q = b[1]
  OBVIOUS
<1>2. pc[t] = "free" /\ desc_lock[d] = Null
  BY DEF FreeLocked, Doing
<1>3. d \in Desc /\ d # Null /\ cnt[t] = 1
  BY <1>1, <1>2 DEF Types, Calls, Locked
<1>4. b \in Block /\ q \in Headed /\ page[t] = q /\ arena[q].desc = d
  BY <1>1, <1>2 DEF Lodged
<1>5. q \in Page /\ arena[q] \in Header /\ arena[q].free_cnt \in Nat
  BY <1>1, <1>4, HeaderIs
<1>6. Pending(b)
  BY <1>2 DEF Pending
<1>7. ~Listed(b) /\ b \notin given /\ \A u \in Thread : pc[u] = "free" /\ block[u] = b => u = t
  BY <1>1, <1>2, <1>4, <1>6 DEF Places
<1>8. ~Released(q)
  BY <1>1, <1>4, <1>6 DEF Counts, Known
<1>9. FreeBlocks(q) \in SUBSET BlocksIn(q)
  BY <1>1, <1>3, <1>4, <1>5, FreeIn
<1>10. b \in BlocksIn(q) \ FreeBlocks(q)
  BY <1>3, <1>4, <1>7 DEF Block, BlocksIn, FreeBlocks, Listed
<1>11. arena[q].free_cnt = Cardinality(FreeBlocks(q))
  BY <1>1, <1>3, <1>4, <1>8 DEF Counts
<1>12. FreeBlocks(q) \cup {b} \in SUBSET BlocksIn(q)
  BY <1>9, <1>10
<1>13. Cardinality(FreeBlocks(q) \cup {b}) = Cardinality(FreeBlocks(q)) + 1
  BY <1>5, <1>9, <1>10, SMT DEF Counting
<1>14. /\ Cardinality(FreeBlocks(q) \cup {b}) <= BlockCount
       /\ Cardinality(FreeBlocks(q) \cup {b}) = BlockCount => FreeBlocks(q) \cup {b} = BlocksIn(q)
  BY <1>5, <1>12 DEF Counting
<1> WITNESS d, b, q
<1> QED
  BY <1>2, <1>3, <1>4, <1>5, <1>6, <1>7, <1>8, <1>9, <1>11, <1>13, <1>14

\* Counting a block in leaves the headers.
LEMMA CountUp ==
  ASSUME Types, NEW q \in Headed, NEW d \in Desc, arena[q].desc = d,
         NEW n \in Nat, arena' = [arena EXCEPT ![q].free_cnt = n]
  PROVE  /\ arena' \in [Page -> Header \cup {Null}] /\ Headed' = Headed
         /\ arena'[q].free_cnt = n
         /\ \A r \in Headed : r # q => arena'[r] = arena[r]
         /\ \A r \in Headed : arena'[r].desc = arena[r].desc /\ Size(r)' = Size(r)
<1>1. q \in Page /\ arena[q] \in Header
  BY HeaderIs
<1>2. PICK h : h = [arena[q] EXCEPT !.free_cnt = n]
  OBVIOUS
<1>3. h \in Header /\ h.desc = d /\ h.free_cnt = n /\ h # Null /\ d # Null
  BY <1>1, <1>2, MemoryAssumption DEF Header
<1>4. /\ arena' = [arena EXCEPT ![q] = h] /\ arena'[q] = h
      /\ \A r \in Page \ {q} : arena'[r] = arena[r]
  BY <1>1, <1>2 DEF Types
<1>5. arena' \in [Page -> Header \cup {Null}]
  BY <1>3, <1>4 DEF Types
<1>6. Headed' = Headed
  BY <1>1, <1>3, <1>4 DEF Headed
<1>7. \A r \in Headed : r # q => arena'[r] = arena[r]
  BY <1>4 DEF Headed
<1>8. \A r \in Headed : arena'[r].desc = arena[r].desc /\ Size(r)' = Size(r)
  BY <1>3, <1>4, <1>7 DEF Size
<1> QED
  BY <1>3, <1>4, <1>5, <1>6, <1>7, <1>8

\* The block goes to the free list of an arena that has others given out.
LEMMA FreePartStep ==
  ASSUME Allocation, Counting, NEW t \in Thread, FreeLocked(t),
         arena[block[t][1]].free_cnt + 1 < BlockCount
  PROVE  Allocation'
<1>1. Types /\ Calls /\ Headers /\ Handling /\ Marked /\ Places /\ Lodged /\ Counts
  BY DEF Allocation
<1>2. PICK d, b, q :
      /\ d = desc[t] /\ b = block[t] /\ q = b[1]
      /\ pc[t] = "free" /\ d \in Desc /\ d # Null /\ desc_lock[d] = Null
      /\ b \in Block /\ q \in Headed /\ q \in Page /\ page[t] = q /\ cnt[t] = 1
      /\ arena[q].desc = d /\ arena[q].free_cnt \in Nat
      /\ Pending(b) /\ ~Listed(b) /\ b \notin given
      /\ \A u \in Thread : pc[u] = "free" /\ block[u] = b => u = t
      /\ ~Released(q)
      /\ arena[q].free_cnt + 1 = Cardinality(FreeBlocks(q) \cup {b})
      /\ arena[q].free_cnt + 1 <= BlockCount
      /\ arena[q].free_cnt + 1 = BlockCount => FreeBlocks(q) \cup {b} = BlocksIn(q)
  BY FreeFinds
<1>5. PICK n : n = arena[q].free_cnt + 1
  OBVIOUS
<1>6. PICK l : l = <<b>> \o free_list[d]
  OBVIOUS
<1>8. /\ n \in Nat /\ n < BlockCount /\ ~(n > BlockCount) /\ ~(n >= BlockCount)
      /\ n = Cardinality(FreeBlocks(q) \cup {b})
  BY <1>2, <1>5, MemoryAssumption, SMT
<1>9. /\ arena' = [arena EXCEPT ![q].free_cnt = n] /\ panic' = FALSE
      /\ free_list' = [free_list EXCEPT ![d] = l] /\ Finish(t)
      /\ UNCHANGED <<desc_lock, used_map, pool_lock, given>>
  <2>1. arena' = [arena EXCEPT ![q].free_cnt = n]
    BY <1>2, <1>5 DEF FreeLocked
  <2>2. panic' = FALSE
    <3>1. panic' = (n > BlockCount)
      BY <1>2, <1>5 DEF FreeLocked, blocks_per_arena
    <3>2. (n > BlockCount) = FALSE
      BY <1>8, SMT
    <3> QED
      BY <3>1, <3>2
  <2>3. /\ free_list' = [free_list EXCEPT ![d] = l] /\ Finish(t)
        /\ UNCHANGED desc_lock
    BY <1>2, <1>5, <1>6, <1>8 DEF FreeLocked, blocks_per_arena
  <2>4. UNCHANGED <<used_map, pool_lock, given>>
    BY DEF FreeLocked
  <2> QED
    BY <2>1, <2>2, <2>3, <2>4
<1>10. /\ l \in Seq(Block) /\ IsInjective(l) /\ Range(l) = Range(free_list[d]) \cup {b}
  <2>1. free_list[d] \in Seq(Block) /\ IsInjective(free_list[d]) /\ b \notin Range(free_list[d])
    BY <1>1, <1>2 DEF Types, Places, Listed
  <2> QED
    BY <1>6, <1>2, <2>1, PushFront
<1>11. /\ arena' \in [Page -> Header \cup {Null}] /\ Headed' = Headed
       /\ arena'[q].free_cnt = n
       /\ \A r \in Headed : r # q => arena'[r] = arena[r]
       /\ \A r \in Headed : arena'[r].desc = arena[r].desc /\ Size(r)' = Size(r)
  BY <1>1, <1>2, <1>8, <1>9, CountUp
<1>12. free_list'[d] = l /\ \A e \in Desc \ {d} : free_list'[e] = free_list[e]
  BY <1>1, <1>2, <1>9 DEF Types
<1>13. /\ pc' \in [Thread -> Label] /\ desc' \in [Thread -> Desc \cup {Null}]
       /\ block' \in [Thread -> Block \cup {Null}]
       /\ page' \in [Thread -> Nat] /\ cnt' \in [Thread -> Nat]
       /\ pc'[t] = "idle" /\ desc'[t] = Null
       /\ \A u \in Thread \ {t} : /\ pc'[u] = pc[u] /\ desc'[u] = desc[u] /\ page'[u] = page[u]
                                  /\ cnt'[u] = cnt[u] /\ block'[u] = block[u]
       /\ Locked(t)' /\ Paged(t)'
  BY <1>1, <1>9, Returns
<1>14. Types'
  <2>1. free_list' \in [Desc -> Seq(Block)]
    BY <1>1, <1>9, <1>10 DEF Types
  <2> QED
    BY <1>1, <1>9, <1>11, <1>13, <2>1 DEF Types
<1>15. Calls'
  <2>1. \A e \in Desc : desc_lock[e] \in Thread \ {t} =>
          desc_lock'[e] = desc_lock[e] /\ free_list'[e] = free_list[e]
    BY <1>2, <1>9, <1>12, MemoryAssumption
  <2> QED
    BY <1>1, <1>9, <1>13, <2>1, OthersGoOn
<1>16. Headers' /\ Handling' /\ Marked'
  BY <1>1, <1>2, <1>9, <1>11, <1>13, PagesStay, SMTT(30)
<1>17. \A u \in Thread : pc'[u] = "free" =>
         u # t /\ pc[u] = "free" /\ block'[u] = block[u] /\ page'[u] = page[u] /\ desc'[u] = desc[u]
  BY <1>13
<1>18. \A x : Pending(x)' => Pending(x) /\ x # b
  BY <1>2, <1>17 DEF Pending
<1>19. \A x : Listed(x)' => Listed(x) \/ x = b
  BY <1>10, <1>12 DEF Listed
<1>20. Places'
  <2>1. \A x \in given' : ~Pending(x)' /\ ~Listed(x)'
    BY <1>1, <1>2, <1>9, <1>18, <1>19 DEF Places
  <2>2. \A x \in Block : Pending(x)' => ~Listed(x)'
    BY <1>1, <1>18, <1>19 DEF Places
  <2>3. \A u, v \in Thread : pc'[u] = "free" /\ pc'[v] = "free" /\ block'[u] = block'[v] => u = v
    BY <1>1, <1>17 DEF Places
  <2>4. \A e \in Desc : IsInjective(free_list'[e])
    BY <1>1, <1>10, <1>12 DEF Places
  <2> QED
    BY <2>1, <2>2, <2>3, <2>4 DEF Places
<1>21. Lodged'
  <2>1. \A x \in given' : /\ x[1] \in Headed'
                          /\ arena'[x[1]].desc = Null => x[2] = 0
    BY <1>1, <1>9, <1>11 DEF Lodged
  <2>2. \A u \in Thread : pc'[u] = "free" =>
          /\ block'[u] \in Block /\ block'[u][1] \in Headed' /\ page'[u] = block'[u][1]
          /\ arena'[block'[u][1]].desc = desc'[u]
    BY <1>1, <1>11, <1>17, SMT DEF Lodged
  <2>3. ASSUME NEW e \in Desc, NEW x \in Range(free_list'[e])
        PROVE  x[1] \in Headed' /\ arena'[x[1]].desc = e
    <3>1. x \in Range(free_list[e]) \/ (e = d /\ x = b)
      BY <1>10, <1>12, <2>3
    <3> QED
      BY <1>1, <1>2, <1>11, <3>1 DEF Lodged
  <2> QED
    BY <2>1, <2>2, <2>3 DEF Lodged
<1>22. \A r : Released(r)' <=> Released(r)
  BY <1>2, <1>13 DEF Released
<1>23. Counts'
  <2>1. ASSUME NEW r \in Headed, r # q
        PROVE  /\ Released(r)' => \A x \in Block : x[1] = r => ~Known(x)'
               /\ arena'[r].desc # Null /\ ~Released(r)' =>
                    arena'[r].free_cnt = Cardinality(FreeBlocks(r)')
    <3>1. \A x \in Block : x[1] = r => (Known(x)' => Known(x))
      BY <1>2, <1>9, <1>18, <1>19, <2>1 DEF Known
    <3>2. arena[r].desc # Null => FreeBlocks(r)' = FreeBlocks(r)
      <4>1. arena[r].desc \in Desc \cup {Null} /\ arena'[r].desc = arena[r].desc
        BY <1>1, <1>11, HeaderIs
      <4>2. \A x : x[1] = r => (x \in Range(l) <=> x \in Range(free_list[d]))
        BY <1>2, <1>10, <2>1
      <4>3. CASE arena[r].desc = d
        BY <1>12, <4>1, <4>2, <4>3 DEF FreeBlocks
      <4>4. CASE arena[r].desc \in Desc \ {d}
        BY <1>12, <4>1, <4>4 DEF FreeBlocks
      <4> QED
        BY <4>1, <4>3, <4>4
    <3> QED
      BY <1>1, <1>11, <1>22, <2>1, <3>1, <3>2 DEF Counts
  <2>2. ~Released(q)'
    BY <1>2, <1>22
  <2>3. arena'[q].free_cnt = Cardinality(FreeBlocks(q)')
    <3>1. FreeBlocks(q)' = {x \in Range(l) : x[1] = q}
      BY <1>2, <1>11, <1>12 DEF FreeBlocks
    <3>2. FreeBlocks(q) = {x \in Range(free_list[d]) : x[1] = q}
      BY <1>2 DEF FreeBlocks
    <3>3. FreeBlocks(q)' = FreeBlocks(q) \cup {b}
      BY <1>2, <1>10, <3>1, <3>2
    <3> QED
      BY <1>8, <1>11, <3>3
  <2>4. \A r \in Headed' :
          /\ Released(r)' => \A x \in Block : x[1] = r => ~Known(x)'
          /\ arena'[r].desc # Null /\ ~Released(r)' =>
               arena'[r].free_cnt = Cardinality(FreeBlocks(r)')
    BY <1>11, <2>1, <2>2, <2>3
  <2> QED
    BY <2>4 DEF Counts, FreeBlocks
<1> QED
  BY <1>14, <1>15, <1>16, <1>20, <1>21, <1>23 DEF Allocation

\* The last block of an arena comes back: the arena leaves the free list and
\* its page is about to go back to the pool.
LEMMA FreeLastStep ==
  ASSUME Allocation, Counting, Unlinking, NEW t \in Thread, FreeLocked(t),
         ~(arena[block[t][1]].free_cnt + 1 < BlockCount)
  PROVE  Allocation'
<1>1. Types /\ Calls /\ Headers /\ Handling /\ Marked /\ Places /\ Lodged /\ Counts
  BY DEF Allocation
<1>2. PICK d, b, q :
      /\ d = desc[t] /\ b = block[t] /\ q = b[1]
      /\ pc[t] = "free" /\ d \in Desc /\ d # Null /\ desc_lock[d] = Null
      /\ b \in Block /\ q \in Headed /\ q \in Page /\ page[t] = q /\ cnt[t] = 1
      /\ arena[q].desc = d /\ arena[q].free_cnt \in Nat
      /\ Pending(b) /\ ~Listed(b) /\ b \notin given
      /\ \A u \in Thread : pc[u] = "free" /\ block[u] = b => u = t
      /\ ~Released(q)
      /\ arena[q].free_cnt + 1 = Cardinality(FreeBlocks(q) \cup {b})
      /\ arena[q].free_cnt + 1 <= BlockCount
      /\ arena[q].free_cnt + 1 = BlockCount => FreeBlocks(q) \cup {b} = BlocksIn(q)
  BY FreeFinds
<1>5. PICK n : n = arena[q].free_cnt + 1
  OBVIOUS
<1>6. PICK l : l = WithoutArena(<<b>> \o free_list[d], q)
  OBVIOUS
<1>8. n \in Nat /\ ~(n > BlockCount) /\ n >= BlockCount /\ FreeBlocks(q) \cup {b} = BlocksIn(q)
  BY <1>2, <1>5, MemoryAssumption, SMT
<1>9. /\ arena' = [arena EXCEPT ![q].free_cnt = n] /\ panic' = FALSE
      /\ free_list' = [free_list EXCEPT ![d] = l]
      /\ desc_lock' = [desc_lock EXCEPT ![d] = t]
      /\ pc' = [pc EXCEPT ![t] = "assert"]
      /\ UNCHANGED <<desc, block, page, cnt, used_map, pool_lock, given>>
  <2>1. arena' = [arena EXCEPT ![q].free_cnt = n]
    BY <1>2, <1>5 DEF FreeLocked
  <2>2. panic' = FALSE
    <3>1. panic' = (n > BlockCount)
      BY <1>2, <1>5 DEF FreeLocked, blocks_per_arena
    <3>2. (n > BlockCount) = FALSE
      BY <1>8, SMT
    <3> QED
      BY <3>1, <3>2
  <2>3. /\ free_list' = [free_list EXCEPT ![d] = l]
        /\ desc_lock' = [desc_lock EXCEPT ![d] = t] /\ Goto(t, "assert")
        /\ UNCHANGED <<desc, block, page, cnt>>
    BY <1>2, <1>5, <1>6, <1>8 DEF FreeLocked, blocks_per_arena
  <2>4. UNCHANGED <<used_map, pool_lock, given>>
    BY DEF FreeLocked
  <2> QED
    BY <2>1, <2>2, <2>3, <2>4 DEF Goto
<1>10. l \in Seq(Block) /\ IsInjective(l) /\ Range(l) = {x \in Range(free_list[d]) : x[1] # q}
  <2>1. PICK s : s = <<b>> \o free_list[d]
    OBVIOUS
  <2>2. free_list[d] \in Seq(Block) /\ IsInjective(free_list[d]) /\ b \notin Range(free_list[d])
    BY <1>1, <1>2 DEF Types, Places, Listed
  <2>3. s \in Seq(Block) /\ IsInjective(s) /\ Range(s) = Range(free_list[d]) \cup {b}
    BY <1>2, <2>1, <2>2, PushFront
  <2>4. l \in Seq(Block) /\ IsInjective(l) /\ Range(l) = {x \in Range(s) : x[1] # q}
    BY <1>6, <1>2, <2>1, <2>3 DEF Unlinking
  <2> QED
    BY <1>2, <2>3, <2>4
<1>11. /\ arena' \in [Page -> Header \cup {Null}] /\ Headed' = Headed
       /\ \A r \in Headed : r # q => arena'[r] = arena[r]
       /\ \A r \in Headed : arena'[r].desc = arena[r].desc /\ Size(r)' = Size(r)
  BY <1>1, <1>2, <1>8, <1>9, CountUp
<1>12. free_list'[d] = l /\ \A e \in Desc \ {d} : free_list'[e] = free_list[e]
  BY <1>1, <1>2, <1>9 DEF Types
<1>13. /\ pc' \in [Thread -> Label] /\ pc'[t] = "assert"
       /\ \A u \in Thread \ {t} : /\ pc'[u] = pc[u] /\ desc'[u] = desc[u] /\ page'[u] = page[u]
                                  /\ cnt'[u] = cnt[u] /\ block'[u] = block[u]
  BY <1>1, <1>9 DEF Types, Label
<1>14. Types'
  <2>1. free_list' \in [Desc -> Seq(Block)] /\ desc_lock' \in [Desc -> Thread \cup {Null}]
    BY <1>1, <1>9, <1>10 DEF Types
  <2> QED
    BY <1>1, <1>9, <1>11, <1>13, <2>1 DEF Types
<1>15. Size(q) = 1
  BY <1>2 DEF Size
<1>16. Calls'
  <2>1. \A e \in Desc : desc_lock[e] \in Thread \ {t} =>
          desc_lock'[e] = desc_lock[e] /\ free_list'[e] = free_list[e]
    BY <1>1, <1>2, <1>9, <1>12, MemoryAssumption DEF Types
  <2>2. Locked(t)'
    <3>1. desc_lock'[d] = t
      BY <1>1, <1>2, <1>9 DEF Types
    <3> QED
      BY <1>2, <1>9, <1>13, <3>1 DEF Locked
  <2>3. Paged(t)'
    <3>1. Run(q, 1) \subseteq Page
      BY <1>1, <1>2, <1>15 DEF Headers
    <3> QED
      BY <1>2, <1>9, <1>13, <3>1, SMT DEF Paged
  <2> QED
    BY <1>1, <1>9, <1>13, <2>1, <2>2, <2>3, OthersGoOn
<1>17. Headers' /\ Handling' /\ Marked'
  <2>1. pc[t] \notin {"init", "assert", "clear"}
    BY <1>2
  <2>2. page'[t] = q /\ cnt'[t] = Size(q) /\ desc'[t] = arena[q].desc
    BY <1>2, <1>9, <1>15
  <2>3. UNCHANGED used_map
    BY <1>9
  <2> QED
    BY <1>1, <1>2, <1>11, <1>13, <2>1, <2>2, <2>3, Seize
<1>18. \A u \in Thread : pc'[u] = "free" => u # t /\ pc[u] = "free"
  BY <1>13
<1>19. \A x : Pending(x)' => Pending(x) /\ x # b
  BY <1>2, <1>9, <1>18 DEF Pending
<1>20. \A x : Listed(x)' => Listed(x) /\ (x[1] # q \/ x \notin FreeBlocks(q))
  <2>1. ASSUME NEW x, NEW e \in Desc, x \in Range(free_list'[e])
        PROVE  Listed(x) /\ (x[1] # q \/ x \notin FreeBlocks(q))
    <3>1. CASE e = d
      BY <1>10, <1>12, <2>1, <3>1 DEF Listed
    <3>2. CASE e # d
      <4>1. x \in Range(free_list[e])
        BY <1>12, <2>1, <3>2
      <4>2. x[1] # q
        BY <1>1, <1>2, <3>2, <4>1 DEF Lodged
      <4> QED
        BY <4>1, <4>2 DEF Listed
    <3> QED
      BY <3>1, <3>2
  <2> QED
    BY <2>1 DEF Listed
<1>21. Places'
  <2>1. \A x \in given' : ~Pending(x)' /\ ~Listed(x)'
    BY <1>1, <1>9, <1>19, <1>20 DEF Places
  <2>2. \A x \in Block : Pending(x)' => ~Listed(x)'
    BY <1>1, <1>19, <1>20 DEF Places
  <2>3. \A u, v \in Thread : pc'[u] = "free" /\ pc'[v] = "free" /\ block'[u] = block'[v] => u = v
    BY <1>1, <1>9, <1>18 DEF Places
  <2>4. \A e \in Desc : IsInjective(free_list'[e])
    BY <1>1, <1>10, <1>12 DEF Places
  <2> QED
    BY <2>1, <2>2, <2>3, <2>4 DEF Places
<1>22. Lodged'
  <2>1. \A x \in given' : /\ x[1] \in Headed'
                          /\ arena'[x[1]].desc = Null => x[2] = 0
    BY <1>1, <1>9, <1>11 DEF Lodged
  <2>2. \A u \in Thread : pc'[u] = "free" =>
          /\ block'[u] \in Block /\ block'[u][1] \in Headed' /\ page'[u] = block'[u][1]
          /\ arena'[block'[u][1]].desc = desc'[u]
    BY <1>1, <1>9, <1>11, <1>18 DEF Lodged
  <2>3. ASSUME NEW e \in Desc, NEW x \in Range(free_list'[e])
        PROVE  x[1] \in Headed' /\ arena'[x[1]].desc = e
    <3>1. x \in Range(free_list[e])
      BY <1>10, <1>12, <2>3
    <3> QED
      BY <1>1, <1>11, <3>1 DEF Lodged
  <2> QED
    BY <2>1, <2>2, <2>3 DEF Lodged
<1>23. \A r : Released(r)' <=> Released(r) \/ r = q
  BY <1>2, <1>9, <1>13 DEF Released
<1>24. Counts'
  <2>1. ASSUME NEW r \in Headed, r # q
        PROVE  /\ Released(r)' => \A x \in Block : x[1] = r => ~Known(x)'
               /\ arena'[r].desc # Null /\ ~Released(r)' =>
                    arena'[r].free_cnt = Cardinality(FreeBlocks(r)')
    <3>1. \A x \in Block : Known(x)' => Known(x)
      BY <1>9, <1>19, <1>20 DEF Known
    <3>2. arena[r].desc # Null => FreeBlocks(r)' = FreeBlocks(r)
      <4>1. arena[r].desc \in Desc \cup {Null} /\ arena'[r].desc = arena[r].desc
        BY <1>1, <1>11, HeaderIs
      <4>2. \A x : x[1] = r => (x \in Range(l) <=> x \in Range(free_list[d]))
        BY <1>10, <2>1
      <4>3. CASE arena[r].desc = d
        BY <1>12, <4>1, <4>2, <4>3 DEF FreeBlocks
      <4>4. CASE arena[r].desc \in Desc \ {d}
        BY <1>12, <4>1, <4>4 DEF FreeBlocks
      <4> QED
        BY <4>1, <4>3, <4>4
    <3> QED
      BY <1>1, <1>11, <1>23, <2>1, <3>1, <3>2 DEF Counts
  <2>2. \A x \in Block : x[1] = q => ~Known(x)'
    <3>1. SUFFICES ASSUME NEW x \in Block, x[1] = q
                   PROVE  ~Known(x)'
      OBVIOUS
    <3>2. x \in FreeBlocks(q) \/ x = b
      BY <1>8, <3>1 DEF Block, BlocksIn
    <3>3. CASE x = b
      BY <1>2, <1>9, <1>19, <1>20, <3>3 DEF Known
    <3>4. CASE x \in FreeBlocks(q)
      <4>1. Listed(x)
        BY <1>2, <3>4 DEF FreeBlocks, Listed
      <4>2. x \notin given /\ ~Pending(x)
        BY <1>1, <4>1 DEF Places
      <4> QED
        BY <1>9, <1>19, <1>20, <3>1, <3>4, <4>2 DEF Known
    <3> QED
      BY <3>2, <3>3, <3>4
  <2>3. \A r \in Headed' :
          /\ Released(r)' => \A x \in Block : x[1] = r => ~Known(x)'
          /\ arena'[r].desc # Null /\ ~Released(r)' =>
               arena'[r].free_cnt = Cardinality(FreeBlocks(r)')
    BY <1>11, <1>23, <2>1, <2>2
  <2> QED
    BY <2>3 DEF Counts, FreeBlocks
<1> QED
  BY <1>14, <1>16, <1>17, <1>21, <1>22, <1>24 DEF Allocation

\* palloc_free_multiple overwrites a header, and the pages stay with the call.
LEMMA FreePagesStep ==
  ASSUME Allocation, NEW t \in Thread, FreePages(t)
  PROVE  Allocation'
<1>1. Types /\ Calls /\ Headers /\ Handling /\ Marked /\ Places /\ Lodged /\ Counts
  BY DEF Allocation
<1>2. PICK q : q = page[t]
  OBVIOUS
<1>3. PICK R : R = Run(page[t], cnt[t])
  OBVIOUS
<1>4. /\ pc[t] = "assert" /\ pc' = [pc EXCEPT ![t] = "clear"]
      /\ arena' = [p \in Page |-> IF p \in R THEN Null ELSE arena[p]]
      /\ panic' = (\E p \in R : ~used_map[p])
      /\ UNCHANGED <<used_map, pool_lock, free_list, desc_lock, given, desc, block, page, cnt>>
  BY <1>3 DEF FreePages, Doing, Goto
<1>5. q \in Headed /\ Size(q) = cnt[t] /\ R = Run(q, Size(q)) /\ R = Handled(t)
  BY <1>1, <1>2, <1>3, <1>4 DEF Handling, Handled
<1>6. R \subseteq Page /\ q \in R
  BY <1>1, <1>5, FirstPage DEF Headers
<1>7. \A p \in R : used_map[p]
  BY <1>1, <1>5, <1>6 DEF Marked, Taken
<1>8. panic' = FALSE
  BY <1>4, <1>7
<1>9. /\ pc'[t] = "clear"
      /\ \A u \in Thread \ {t} : /\ pc'[u] = pc[u] /\ desc'[u] = desc[u] /\ page'[u] = page[u]
                                 /\ cnt'[u] = cnt[u] /\ block'[u] = block[u]
  BY <1>1, <1>4 DEF Types
<1>10. Types'
  <2>1. \A p \in Page : (IF p \in R THEN Null ELSE arena[p]) \in Header \cup {Null}
    BY <1>1 DEF Types
  <2>2. arena' \in [Page -> Header \cup {Null}]
    BY <1>4, <2>1
  <2>3. pc' \in [Thread -> Label]
    BY <1>1, <1>4 DEF Types, Label
  <2> QED
    BY <1>1, <1>4, <1>8, <2>2, <2>3 DEF Types
<1>11. Calls'
  <2>1. Locked(t) /\ Paged(t)
    BY <1>1 DEF Calls
  <2>2. Locked(t)'
    BY <1>4, <1>9, <2>1 DEF Locked
  <2>3. Paged(t)'
    BY <1>4, <1>9, <2>1 DEF Paged, Run
  <2> QED
    BY <1>1, <1>4, <1>9, <2>2, <2>3, OthersGoOn
<1>12. \A u \in Thread : Handled(u)' = Handled(u)
  BY <1>4, <1>9 DEF Handled, Run
<1>13. ASSUME NEW r \in Headed, r # q
       PROVE  r \notin R
  <2>1. Run(r, Size(r)) \cap R = {}
    BY <1>1, <1>5, <1>13 DEF Headers
  <2>2. r \in Run(r, Size(r))
    BY <1>1, FirstPage
  <2> QED
    BY <2>1, <2>2
<1>14. /\ \A r : r \in Headed' <=> r \in Headed /\ r # q
       /\ \A r \in Headed : r # q => arena'[r] = arena[r] /\ Size(r)' = Size(r)
  <2>1. \A r \in Page : arena'[r] = IF r \in R THEN Null ELSE arena[r]
    BY <1>4
  <2>2. \A r \in Headed : r # q => arena'[r] = arena[r] /\ r \in Page
    BY <1>13, <2>1 DEF Headed
  <2>3. \A r \in Headed : r # q => Size(r)' = Size(r)
    BY <2>2 DEF Size
  <2>4. \A r : r \in Headed' <=> r \in Headed /\ r # q
    BY <1>6, <2>1, <2>2 DEF Headed
  <2> QED
    BY <2>2, <2>3, <2>4
<1>15. Headers'
  <2> SUFFICES ASSUME NEW r \in Headed, r # q
               PROVE  /\ Size(r) > 0
                      /\ Run(r, Size(r)) \subseteq Page
                      /\ \A s \in Headed : r # s => Run(r, Size(r)) \cap Run(s, Size(s)) = {}
                      /\ \A u \in Thread : ~(pc'[u] = "assert" /\ page'[u] = r) =>
                           Run(r, Size(r)) \cap Handled(u) = {}
    BY <1>12, <1>14 DEF Headers, Run
  <2>1. ASSUME NEW u \in Thread, ~(pc'[u] = "assert" /\ page'[u] = r)
        PROVE  Run(r, Size(r)) \cap Handled(u) = {}
    <3>1. ~(pc[u] = "assert" /\ page[u] = r)
      BY <1>2, <1>4, <1>9, <2>1
    <3> QED
      BY <1>1, <3>1 DEF Headers
  <2> QED
    BY <1>1, <2>1 DEF Headers
<1>16. ASSUME NEW u \in Thread, pc'[u] = "assert"
       PROVE  u # t /\ pc[u] = "assert" /\ page'[u] = page[u] /\ page[u] \in Headed /\ page[u] # q
  <2>1. u # t /\ pc[u] = "assert" /\ page'[u] = page[u]
    BY <1>4, <1>9, <1>16
  <2>2. page[u] \in Headed /\ Handled(u) = Run(page[u], Size(page[u]))
    BY <1>1, <2>1 DEF Handling, Handled
  <2>3. page[u] \in Handled(u)
    BY <1>1, <2>2, FirstPage
  <2>4. Handled(u) \cap Handled(t) = {}
    BY <1>1, <2>1 DEF Handling
  <2> QED
    BY <1>5, <1>6, <2>1, <2>2, <2>3, <2>4
<1>17. Handling'
  <2>1. \A u, v \in Thread : v # u => Handled(v)' \cap Handled(u)' = {}
    BY <1>1, <1>12 DEF Handling
  <2>2. ASSUME NEW u \in Thread, pc'[u] = "assert"
        PROVE  /\ page'[u] \in Headed' /\ arena'[page'[u]].desc = desc'[u]
               /\ Size(page[u])' = cnt'[u]
    BY <1>1, <1>4, <1>14, <1>16, <2>2, SMT DEF Handling
  <2> QED
    BY <2>1, <2>2 DEF Handling
<1>18. Marked'
  <2> SUFFICES ASSUME NEW p \in Page
               PROVE  used_map[p] <=> Taken(p)'
    BY <1>4 DEF Marked
  <2>1. Taken(p)' <=> Taken(p)
    <3>1. (\E r \in Headed' : p \in Run(r, Size(r)')) => \E r \in Headed : p \in Run(r, Size(r))
      BY <1>14
    <3>2. ASSUME NEW r \in Headed, p \in Run(r, Size(r))
          PROVE  Taken(p)'
      <4>1. CASE r = q
        BY <1>5, <1>12, <3>2, <4>1 DEF Taken
      <4>2. CASE r # q
        BY <1>14, <3>2, <4>2 DEF Taken, Run
      <4> QED
        BY <4>1, <4>2
    <3> QED
      BY <1>12, <3>1, <3>2 DEF Taken, Run
  <2> QED
    BY <1>1, <2>1 DEF Marked
<1>19. \A x : (Pending(x)' <=> Pending(x)) /\ (Listed(x)' <=> Listed(x))
  BY <1>4, <1>9 DEF Pending, Listed
<1>20. \A x \in Block : Known(x) => x[1] # q
  <2>1. Released(q)
    BY <1>2, <1>4 DEF Released
  <2> QED
    BY <1>1, <1>5, <2>1 DEF Counts
<1>21. Places'
  <2>1. \A u, v \in Thread : pc'[u] = "free" /\ pc'[v] = "free" /\ block'[u] = block'[v] => u = v
    BY <1>1, <1>4, <1>9, SMT DEF Places
  <2> QED
    BY <1>1, <1>4, <1>19, <2>1 DEF Places
<1>22. Lodged'
  <2>1. ASSUME NEW x \in given'
        PROVE  x[1] \in Headed' /\ (arena'[x[1]].desc = Null => x[2] = 0)
    <3>1. x \in given /\ x \in Block
      BY <1>1, <1>4, <2>1 DEF Types
    <3> QED
      BY <1>1, <1>14, <1>20, <3>1 DEF Lodged, Known
  <2>2. ASSUME NEW u \in Thread, pc'[u] = "free"
        PROVE  /\ block'[u] \in Block /\ block'[u][1] \in Headed' /\ page'[u] = block'[u][1]
               /\ arena'[block'[u][1]].desc = desc'[u]
    <3>1. pc[u] = "free" /\ block[u] \in Block /\ Pending(block[u])
      BY <1>1, <1>4, <1>9, <2>2 DEF Lodged, Pending
    <3>2. PICK x : x = block[u]
      OBVIOUS
    <3>3. x[1] \in Headed /\ page[u] = x[1] /\ arena[x[1]].desc = desc[u]
      BY <1>1, <3>1, <3>2 DEF Lodged
    <3>4. x[1] # q
      BY <1>20, <3>1, <3>2 DEF Known
    <3>5. block'[u] = x /\ page'[u] = page[u] /\ desc'[u] = desc[u]
      BY <1>4, <3>2
    <3> QED
      BY <1>14, <3>1, <3>2, <3>3, <3>4, <3>5
  <2>3. ASSUME NEW e \in Desc, NEW x \in Range(free_list'[e])
        PROVE  x[1] \in Headed' /\ arena'[x[1]].desc = e
    <3>1. x \in Range(free_list[e]) /\ free_list[e] \in Seq(Block)
      BY <1>1, <1>4, <2>3 DEF Types
    <3>2. x \in Block /\ Listed(x)
      BY <3>1, ListIs DEF Listed
    <3>3. x[1] # q
      BY <1>20, <3>2 DEF Known
    <3>4. x[1] \in Headed /\ arena[x[1]].desc = e
      BY <1>1, <3>1 DEF Lodged
    <3> QED
      BY <1>14, <3>3, <3>4
  <2> QED
    BY <2>1, <2>2, <2>3 DEF Lodged
<1>23. Counts'
  <2>1. ASSUME NEW r \in Headed, r # q
        PROVE  /\ Released(r)' => \A x \in Block : x[1] = r => ~Known(x)'
               /\ arena'[r].desc # Null /\ ~Released(r)' =>
                    arena'[r].free_cnt = Cardinality(FreeBlocks(r)')
    <3>1. Released(r)' <=> Released(r)
      BY <1>2, <1>4, <1>9, <2>1 DEF Released
    <3>2. \A x : Known(x)' <=> Known(x)
      BY <1>4, <1>19 DEF Known
    <3>3. FreeBlocks(r)' = FreeBlocks(r)
      BY <1>4, <1>14, <2>1 DEF FreeBlocks
    <3> QED
      BY <1>1, <1>14, <2>1, <3>1, <3>2, <3>3 DEF Counts
  <2>2. \A r \in Headed' :
          /\ Released(r)' => \A x \in Block : x[1] = r => ~Known(x)'
          /\ arena'[r].desc # Null /\ ~Released(r)' =>
               arena'[r].free_cnt = Cardinality(FreeBlocks(r)')
    BY <1>14, <2>1
  <2> QED
    BY <2>2 DEF Counts, FreeBlocks
<1> QED
  BY <1>10, <1>11, <1>15, <1>17, <1>18, <1>21, <1>22, <1>23 DEF Allocation

\* bitmap_set_multiple gives back the first page of a call, which goes on with
\* the others.
LEMMA ClearMoves ==
  ASSUME Allocation, NEW t \in Thread, Clear(t)
  PROVE  /\ Types' /\ Calls'
         /\ pc[t] = "clear" /\ pc'[t] \notin {"free", "assert"}
         /\ \A u \in Thread \ {t} : /\ pc'[u] = pc[u] /\ desc'[u] = desc[u] /\ page'[u] = page[u]
                                    /\ cnt'[u] = cnt[u] /\ block'[u] = block[u]
         /\ page[t] \in Handled(t) /\ page[t] \in Page
         /\ Handled(t)' = Handled(t) \ {page[t]}
         /\ \A u \in Thread \ {t} : Handled(u)' = Handled(u)
<1>1. Types /\ Calls
  BY DEF Allocation
<1>2. /\ pc[t] = "clear" /\ used_map' = [used_map EXCEPT ![page[t]] = FALSE]
      /\ UNCHANGED <<pool_lock, arena, free_list, given, panic>>
  BY DEF Clear, Doing
<1>3. Locked(t) /\ Paged(t)
  BY <1>1 DEF Calls
<1>4. page[t] \in Nat /\ cnt[t] \in Nat /\ cnt[t] > 0 /\ Run(page[t], cnt[t]) \subseteq Page
  BY <1>1, <1>2, <1>3 DEF Types, Paged
<1>5. /\ page[t] \in Run(page[t], cnt[t])
      /\ cnt[t] = 1 => Run(page[t], cnt[t]) = {page[t]}
      /\ cnt[t] # 1 => Run(page[t] + 1, cnt[t] - 1) = Run(page[t], cnt[t]) \ {page[t]}
  BY <1>4, SMT DEF Run
<1>6. Handled(t) = Run(page[t], cnt[t])
  BY <1>2 DEF Handled
<1>7. /\ used_map' \in [Page -> BOOLEAN]
      /\ \A p \in Page : used_map'[p] => used_map[p]
  BY <1>1, <1>2 DEF Types
<1>8. CASE cnt[t] = 1
  <2>1. Finish(t) /\ Unlock(t)
    BY <1>8 DEF Clear
  <2>2. /\ pc' \in [Thread -> Label] /\ desc' \in [Thread -> Desc \cup {Null}]
        /\ block' \in [Thread -> Block \cup {Null}]
        /\ page' \in [Thread -> Nat] /\ cnt' \in [Thread -> Nat]
        /\ pc'[t] = "idle" /\ desc'[t] = Null
        /\ \A u \in Thread \ {t} : /\ pc'[u] = pc[u] /\ desc'[u] = desc[u] /\ page'[u] = page[u]
                                   /\ cnt'[u] = cnt[u] /\ block'[u] = block[u]
        /\ Locked(t)' /\ Paged(t)'
    BY <1>1, <2>1, Returns
  <2>3. /\ desc_lock' \in [Desc -> Thread \cup {Null}]
        /\ \A d \in Desc : desc_lock[d] \in Thread \ {t} => desc_lock'[d] = desc_lock[d]
    BY <1>1, <1>2, <2>1, Unlocks
  <2>4. Types'
    BY <1>1, <1>2, <1>7, <2>2, <2>3 DEF Types
  <2>5. Calls'
    BY <1>1, <1>2, <1>7, <2>2, <2>3, OthersGoOn
  <2>6. Handled(t)' = {} /\ \A u \in Thread \ {t} : Handled(u)' = Handled(u)
    BY <2>2 DEF Handled, Run
  <2> QED
    BY <1>2, <1>4, <1>5, <1>6, <1>8, <2>2, <2>4, <2>5, <2>6
<1>9. CASE cnt[t] # 1
  <2>1. /\ page' = [page EXCEPT ![t] = @ + 1] /\ cnt' = [cnt EXCEPT ![t] = @ - 1]
        /\ UNCHANGED <<pc, desc, block, desc_lock>>
    BY <1>9 DEF Clear
  <2>2. /\ page' \in [Thread -> Nat] /\ cnt' \in [Thread -> Nat]
        /\ page'[t] = page[t] + 1 /\ cnt'[t] = cnt[t] - 1 /\ cnt'[t] > 0
        /\ \A u \in Thread \ {t} : page'[u] = page[u] /\ cnt'[u] = cnt[u]
    BY <1>1, <1>4, <1>9, <2>1, SMT DEF Types
  <2>3. Types'
    BY <1>1, <1>2, <1>7, <2>1, <2>2 DEF Types
  <2>4. Locked(t)'
    BY <1>2, <1>3, <1>9, <2>1 DEF Locked
  <2>5. Paged(t)'
    BY <1>2, <1>4, <1>5, <1>9, <2>1, <2>2 DEF Paged, Run
  <2>6. Calls'
    BY <1>1, <1>2, <1>7, <2>1, <2>2, <2>4, <2>5, OthersGoOn
  <2>7. Handled(t)' = Run(page[t] + 1, cnt[t] - 1)
    BY <1>2, <2>1, <2>2 DEF Handled, Run
  <2>8. \A u \in Thread \ {t} : Handled(u)' = Handled(u)
    BY <2>1, <2>2 DEF Handled, Run
  <2> QED
    BY <1>2, <1>4, <1>5, <1>6, <1>9, <2>1, <2>2, <2>3, <2>6, <2>7, <2>8
<1> QED
  BY <1>8, <1>9

LEMMA ClearStep ==
  ASSUME Allocation, NEW t \in Thread, Clear(t)
  PROVE  Allocation'
<1>1. Types /\ Calls /\ Headers /\ Handling /\ Marked /\ Places /\ Lodged /\ Counts
  BY DEF Allocation
<1>2. PICK p0 : p0 = page[t]
  OBVIOUS
<1>3. /\ Types' /\ Calls'
      /\ pc[t] = "clear" /\ pc'[t] \notin {"free", "assert"}
      /\ \A u \in Thread \ {t} : /\ pc'[u] = pc[u] /\ desc'[u] = desc[u] /\ page'[u] = page[u]
                                 /\ cnt'[u] = cnt[u] /\ block'[u] = block[u]
      /\ p0 \in Handled(t) /\ p0 \in Page
      /\ Handled(t)' = Handled(t) \ {p0}
      /\ \A u \in Thread \ {t} : Handled(u)' = Handled(u)
  BY <1>2, ClearMoves
<1>4. /\ used_map' = [used_map EXCEPT ![p0] = FALSE]
      /\ UNCHANGED <<arena, free_list, given>>
  BY <1>2 DEF Clear
<1>5. Headed' = Headed /\ \A q \in Headed : arena'[q] = arena[q] /\ Size(q)' = Size(q)
  BY <1>4 DEF Headed, Size
<1>6. \A u \in Thread : Handled(u)' \subseteq Handled(u)
  BY <1>3
<1>7. Headers'
  <2> SUFFICES ASSUME NEW q \in Headed
               PROVE  /\ Size(q) > 0
                      /\ Run(q, Size(q)) \subseteq Page
                      /\ \A r \in Headed : q # r => Run(q, Size(q)) \cap Run(r, Size(r)) = {}
                      /\ \A u \in Thread : ~(pc'[u] = "assert" /\ page'[u] = q) =>
                           Run(q, Size(q)) \cap Handled(u)' = {}
    BY <1>5 DEF Headers, Run
  <2>1. ASSUME NEW u \in Thread, ~(pc'[u] = "assert" /\ page'[u] = q)
        PROVE  Run(q, Size(q)) \cap Handled(u)' = {}
    <3>1. ~(pc[u] = "assert" /\ page[u] = q)
      BY <1>3, <2>1
    <3>2. Run(q, Size(q)) \cap Handled(u) = {}
      BY <1>1, <3>1 DEF Headers
    <3> QED
      BY <1>6, <3>2
  <2> QED
    BY <1>1, <2>1 DEF Headers
<1>8. Handling'
  <2>1. \A u, v \in Thread : v # u => Handled(v)' \cap Handled(u)' = {}
    BY <1>1, <1>6 DEF Handling
  <2>2. ASSUME NEW u \in Thread, pc'[u] = "assert"
        PROVE  /\ page'[u] \in Headed' /\ arena'[page'[u]].desc = desc'[u]
               /\ Size(page[u])' = cnt'[u]
    <3>1. /\ u # t /\ pc[u] = "assert" /\ page'[u] = page[u] /\ desc'[u] = desc[u]
          /\ cnt'[u] = cnt[u]
      BY <1>3, <2>2
    <3>2. page[u] \in Headed /\ arena[page[u]].desc = desc[u] /\ Size(page[u]) = cnt[u]
      BY <1>1, <3>1 DEF Handling
    <3> QED
      BY <1>4, <3>1, <3>2, <1>5 DEF Size
  <2> QED
    BY <2>1, <2>2 DEF Handling
<1>9. Marked'
  <2> SUFFICES ASSUME NEW p \in Page
               PROVE  used_map'[p] <=> Taken(p)'
    BY DEF Marked
  <2>1. CASE p = p0
    <3>1. ~used_map'[p]
      BY <1>1, <1>3, <1>4, <2>1 DEF Types
    <3>2. \A q \in Headed : p \notin Run(q, Size(q))
      BY <1>1, <1>3, <2>1 DEF Headers
    <3>3. \A u \in Thread : p \notin Handled(u)'
      BY <1>1, <1>3, <2>1 DEF Handling
    <3> QED
      BY <1>5, <3>1, <3>2, <3>3 DEF Taken, Run
  <2>2. CASE p # p0
    <3>1. used_map'[p] <=> used_map[p]
      BY <1>1, <1>4, <2>2 DEF Types
    <3>2. \A u \in Thread : p \in Handled(u)' <=> p \in Handled(u)
      BY <1>3, <2>2
    <3>3. Taken(p)' <=> Taken(p)
      BY <1>5, <3>2 DEF Taken, Run
    <3> QED
      BY <1>1, <3>1, <3>3 DEF Marked
  <2> QED
    BY <2>1, <2>2
<1>10. Places' /\ Lodged' /\ Counts'
  BY <1>1, <1>3, <1>4, BlocksStay
<1> QED
  BY <1>3, <1>7, <1>8, <1>9, <1>10 DEF Allocation

(***************************************************************************)
(* The invariant holds at the start and every step keeps it.               *)
(***************************************************************************)
LEMMA InitAllocation ==
  ASSUME MemoryInit
  PROVE  Allocation
<1>1. \A p \in Page : arena[p] = Null /\ ~used_map[p]
  BY DEF MemoryInit
<1>2. \A t \in Thread : pc[t] = "idle" /\ desc[t] = Null
  BY DEF MemoryInit
<1>3. \A d \in Desc : free_list[d] = <<>>
  BY DEF MemoryInit
<1>4. << >> \in Seq(Block) /\ IsInjective(<< >>) /\ \A b : b \notin Range(<< >>)
  BY SMT DEF IsInjective, Range
<1>5. Types
  <2>1. used_map \in [Page -> BOOLEAN] /\ arena \in [Page -> Header \cup {Null}]
    BY DEF MemoryInit
  <2>2. free_list \in [Desc -> Seq(Block)] /\ desc_lock \in [Desc -> Thread \cup {Null}]
    BY <1>4 DEF MemoryInit
  <2>3. /\ pc \in [Thread -> Label] /\ desc \in [Thread -> Desc \cup {Null}]
        /\ block \in [Thread -> Block \cup {Null}]
        /\ page \in [Thread -> Nat] /\ cnt \in [Thread -> Nat]
    BY DEF MemoryInit, Label
  <2> QED
    BY <2>1, <2>2, <2>3 DEF Types, MemoryInit
<1>6. Headed = {} /\ given = {}
  BY <1>1 DEF Headed, MemoryInit
<1>7. Calls
  BY <1>2 DEF Calls, Locked, Paged
<1>8. \A t \in Thread : Handled(t) = {}
  BY <1>2 DEF Handled
<1>9. Headers /\ Handling /\ Marked
  BY <1>1, <1>2, <1>6, <1>8 DEF Headers, Handling, Marked, Taken
<1>10. \A b : ~Pending(b) /\ ~Listed(b)
  BY <1>2, <1>3, <1>4 DEF Pending, Listed
<1>11. Places
  BY <1>2, <1>3, <1>4, <1>6, <1>10 DEF Places
<1>12. Lodged /\ Counts
  BY <1>2, <1>3, <1>4, <1>6 DEF Lodged, Counts
<1> QED
  BY <1>5, <1>7, <1>9, <1>11, <1>12 DEF Allocation

LEMMA StepAllocation ==
  ASSUME IInv, Counting, Unlinking, NEW t \in Thread, Step(t)
  PROVE  Allocation'
<1> Allocation
  BY DEF IInv
<1>1. CASE Scan(t)
  BY <1>1, ScanStep
<1>9. CASE TestUsed(t)
  BY <1>9, TestUsedStep
<1>10. CASE TestFree(t)
  BY <1>10, TestFreeStep
<1>11. CASE NoPages(t)
  BY <1>11, NoPagesStep
<1>2. CASE Flip(t)
  BY <1>2, FlipStep
<1>3. CASE InitBig(t)
  BY <1>3, InitBigStep
<1>4. CASE InitArena(t)
  BY <1>4, InitArenaStep
<1>5. CASE PopBlock(t)
  BY <1>5, PopStep
<1>6. CASE FreeLocked(t)
  <2>1. CASE arena[block[t][1]].free_cnt + 1 < BlockCount
    BY <1>6, <2>1, FreePartStep
  <2>2. CASE ~(arena[block[t][1]].free_cnt + 1 < BlockCount)
    BY <1>6, <2>2, FreeLastStep
  <2> QED
    BY <2>1, <2>2
<1>7. CASE FreePages(t)
  BY <1>7, FreePagesStep
<1>8. CASE Clear(t)
  BY <1>8, ClearStep
<1> QED
  BY <1>1, <1>2, <1>3, <1>4, <1>5, <1>6, <1>7, <1>8, <1>9, <1>10, <1>11 DEF Step

LEMMA NextAllocation ==
  ASSUME IInv, Counting, Unlinking, [MemoryNext]_memoryVars
  PROVE  Allocation'
<1> Allocation
  BY DEF IInv
<1>1. CASE UNCHANGED memoryVars
  <2>1. UNCHANGED <<used_map, pool_lock, arena, free_list, desc_lock, given>>
    BY <1>1 DEF memoryVars
  <2>2. UNCHANGED <<pc, desc, block, page, cnt, panic>>
    BY <1>1 DEF memoryVars, callVars
  <2>3. Types' /\ Calls'
    BY <2>1, <2>2 DEF Allocation, Types, Calls, Locked, Paged, Run
  <2>4. Headers' /\ Handling' /\ Marked'
    BY <2>1, <2>2, SMTT(30) DEF Allocation, Headers, Handling, Marked, Taken, Size, Headed, Handled, Run
  <2>5. Places' /\ Lodged'
    BY <2>1, <2>2, SMTT(30) DEF Allocation, Places, Lodged, Pending, Listed, Headed
  <2>6. Counts'
    BY <2>1, <2>2 DEF Allocation, Counts, Released, Known, Pending, Listed, FreeBlocks, Headed
  <2> QED
    BY <2>3, <2>4, <2>5, <2>6 DEF Allocation
<1>2. ASSUME NEW t \in Thread, MallocBig(t)
      PROVE  Allocation'
  BY <1>2, MallocBigStep
<1>3. ASSUME NEW t \in Thread, Step(t)
      PROVE  Allocation'
  BY <1>3, StepAllocation
<1>4. ASSUME NEW t \in Thread, NEW d \in Desc, Malloc(t, d)
      PROVE  Allocation'
  BY <1>4, MallocStep
<1>5. ASSUME NEW t \in Thread, NEW b \in Block, FreeBlock(t, b)
      PROVE  Allocation'
  <2>1. b \in given
    BY <1>5 DEF FreeBlock
  <2>2. CASE arena[b[1]].desc = Null
    BY <1>5, <2>1, <2>2, FreeBigStep
  <2>3. CASE arena[b[1]].desc # Null
    BY <1>5, <2>1, <2>3, FreeSmallStep
  <2> QED
    BY <2>2, <2>3
<1> QED
  BY <1>1, <1>2, <1>3, <1>4, <1>5 DEF MemoryNext

(***************************************************************************)
(* The scan goes on whatever the other calls do.                           *)
(***************************************************************************)
\* A step of t that is not in its scan afterwards, leaves the other calls alone,
\* and sets bits or the lock of the pool only when the lock is its own.
Aside(t) ==
  /\ \A u \in Thread \ {t} : /\ pc'[u] = pc[u] /\ page'[u] = page[u]
                             /\ cnt'[u] = cnt[u] /\ seen'[u] = seen[u]
  /\ seen' \in [Thread -> Nat] /\ pc'[t] # "test" /\ seen'[t] = 0
  /\ pool_lock \in Thread \ {t} => pool_lock' = pool_lock
  /\ \A p \in Page : used_map'[p] => used_map[p] \/ pool_lock = t

\* The scans of the others go on if the pool is locked by one of them.
LEMMA ScansGoOn ==
  ASSUME Scans, NEW t \in Thread, seen' \in [Thread -> Nat], Scanned(t)',
         \A u \in Thread \ {t} : /\ pc'[u] = pc[u] /\ page'[u] = page[u]
                                 /\ cnt'[u] = cnt[u] /\ seen'[u] = seen[u],
         pool_lock \in Thread \ {t} => pool_lock' = pool_lock,
         \A p \in Page : used_map'[p] => used_map[p] \/ pool_lock = t
  PROVE  Scans'
<1> SUFFICES ASSUME NEW u \in Thread, u # t
             PROVE  Scanned(u)'
  BY DEF Scans
<1>1. Scanned(u)
  BY DEF Scans
<1>2. /\ pc'[u] = pc[u] /\ page'[u] = page[u] /\ cnt'[u] = cnt[u] /\ seen'[u] = seen[u]
  OBVIOUS
<1>3. pc[u] = "test" => pool_lock' = u /\ pool_lock # t
  BY <1>1 DEF Scanned
<1> QED
  BY <1>1, <1>2, <1>3 DEF Scanned, Run

\* The calls of malloc and free begin without a scan.
LEMMA CallAside ==
  ASSUME IInv, NEW t \in Thread,
         \/ MallocBig(t)
         \/ \E d \in Desc : Malloc(t, d)
         \/ \E b \in Block : FreeBlock(t, b)
  PROVE  Aside(t)
<1>1. Types /\ seen \in [Thread -> Nat] /\ Scanned(t)
  BY DEF IInv, Allocation, Scans
<1>2. pc[t] = "idle" /\ UNCHANGED <<used_map, pool_lock, seen>>
  BY DEF MallocBig, Malloc, FreeBlock, Doing, callVars
<1>3. seen'[t] = 0
  BY <1>1, <1>2 DEF Scanned
<1>4. CASE MallocBig(t)
  BY <1>1, <1>2, <1>3, <1>4 DEF MallocBig, Goto, Aside, Types
<1>5. ASSUME NEW d \in Desc, Malloc(t, d)
      PROVE  Aside(t)
  <2>1. PICK l \in {"scan", "pop"} : pc' = [pc EXCEPT ![t] = l]
    BY <1>5 DEF Malloc, Goto
  <2> QED
    BY <1>1, <1>2, <1>3, <1>5, <2>1 DEF Malloc, Aside, Types
<1>6. ASSUME NEW b \in Block, FreeBlock(t, b)
      PROVE  Aside(t)
  <2>1. CASE UNCHANGED <<pc, page, cnt>>
    BY <1>1, <1>2, <1>3, <2>1 DEF Aside
  <2>2. CASE arena[b[1]] # Null
    <3>1. PICK l \in {"assert", "free"} : pc' = [pc EXCEPT ![t] = l]
      BY <1>6, <2>2 DEF FreeBlock, Goto
    <3>2. PICK n : cnt' = [cnt EXCEPT ![t] = n]
      BY <1>6, <2>2 DEF FreeBlock
    <3>3. page' = [page EXCEPT ![t] = b[1]]
      BY <1>6, <2>2 DEF FreeBlock
    <3> QED
      BY <1>1, <1>2, <1>3, <3>1, <3>2, <3>3 DEF Aside, Types
  <2> QED
    BY <1>6, <2>1, <2>2 DEF FreeBlock, callVars
<1> QED
  BY <1>4, <1>5, <1>6

\* A call that returns is aside.
LEMMA FinishAside ==
  ASSUME Types, Scans, NEW t \in Thread, Finish(t),
         pool_lock \in Thread \ {t} => pool_lock' = pool_lock,
         \A p \in Page : used_map'[p] => used_map[p] \/ pool_lock = t
  PROVE  Aside(t)
<1>1. /\ pc' = [pc EXCEPT ![t] = "idle"] /\ page' = [page EXCEPT ![t] = 0]
      /\ cnt' = [cnt EXCEPT ![t] = 0] /\ seen' = [seen EXCEPT ![t] = 0]
  BY DEF Finish, Goto
<1> QED
  BY <1>1 DEF Aside, Types, Scans

\* So is one that goes to another point and keeps its pages.
LEMMA GotoAside ==
  ASSUME Types, Scans, NEW t \in Thread, NEW l, l # "test", pc[t] # "test",
         pc' = [pc EXCEPT ![t] = l], UNCHANGED <<page, cnt, seen>>,
         pool_lock \in Thread \ {t} => pool_lock' = pool_lock,
         \A p \in Page : used_map'[p] => used_map[p] \/ pool_lock = t
  PROVE  Aside(t)
<1>1. seen[t] = 0
  BY DEF Scans, Scanned
<1> QED
  BY <1>1 DEF Aside, Types, Scans

\* Every step of a call but those of its scan is aside.
LEMMA StepAside ==
  ASSUME IInv, Allocation', NEW t \in Thread, Step(t), ~Scan(t), ~TestUsed(t), ~TestFree(t)
  PROVE  Aside(t)
<1>1. Types /\ Scans /\ Paged(t) /\ Scanned(t) /\ panic' = FALSE
  BY DEF IInv, Allocation, Types, Calls, Scans
<1>2. CASE NoPages(t)
  <2>1. pc[t] = "test" /\ Finish(t) /\ UNCHANGED used_map
    BY <1>2 DEF NoPages, Doing
  <2>2. pool_lock = t
    BY <1>1, <2>1 DEF Scanned
  <2> QED
    BY <1>1, <2>1, <2>2, FinishAside
<1>3. CASE Flip(t)
  <2>1. pc[t] = "flip" /\ pc' = [pc EXCEPT ![t] = "init"] /\ UNCHANGED <<page, cnt, seen>>
    BY <1>3 DEF Flip, Doing, Goto
  <2>2. pool_lock = t
    BY <1>1, <2>1 DEF Paged
  <2> QED
    BY <1>1, <2>1, <2>2, GotoAside
<1>4. CASE InitBig(t)
  BY <1>1, <1>4, FinishAside DEF InitBig
<1>5. CASE InitArena(t)
  <2>1. /\ pc[t] = "init" /\ pc' = [pc EXCEPT ![t] = "pop"]
        /\ UNCHANGED <<page, cnt, seen, used_map, pool_lock>>
    BY <1>5 DEF InitArena, Doing, Goto
  <2> QED
    BY <1>1, <2>1, GotoAside
<1>6. CASE PopBlock(t)
  <2>1. Finish(t) /\ UNCHANGED <<used_map, pool_lock>>
    BY <1>1, <1>6 DEF PopBlock
  <2> QED
    BY <1>1, <2>1, FinishAside
<1>7. CASE FreeLocked(t)
  <2>1. pc[t] = "free" /\ UNCHANGED <<used_map, pool_lock>>
    BY <1>7 DEF FreeLocked, Doing
  <2>2. \/ Finish(t)
        \/ pc' = [pc EXCEPT ![t] = "assert"] /\ UNCHANGED <<page, cnt, seen>>
    BY <1>7 DEF FreeLocked, Goto
  <2> QED
    BY <1>1, <2>1, <2>2, FinishAside, GotoAside
<1>8. CASE FreePages(t)
  <2>1. /\ pc[t] = "assert" /\ pc' = [pc EXCEPT ![t] = "clear"]
        /\ UNCHANGED <<page, cnt, seen, used_map, pool_lock>>
    BY <1>8 DEF FreePages, Doing, Goto
  <2> QED
    BY <1>1, <2>1, GotoAside
<1>9. CASE Clear(t)
  <2>1. /\ pc[t] = "clear" /\ UNCHANGED pool_lock
        /\ used_map' = [used_map EXCEPT ![page[t]] = FALSE]
    BY <1>9 DEF Clear, Doing
  <2>2. \A p \in Page : used_map'[p] => used_map[p]
    BY <1>1, <2>1 DEF Types
  <2>3. CASE Finish(t)
    BY <1>1, <2>1, <2>2, <2>3, FinishAside
  <2>4. CASE /\ page' = [page EXCEPT ![t] = @ + 1] /\ cnt' = [cnt EXCEPT ![t] = @ - 1]
             /\ UNCHANGED <<pc, seen>>
    BY <1>1, <2>1, <2>2, <2>4 DEF Aside, Types, Scans, Scanned
  <2> QED
    BY <1>9, <2>3, <2>4 DEF Clear
<1> QED
  BY <1>2, <1>3, <1>4, <1>5, <1>6, <1>7, <1>8, <1>9 DEF Step

\* The scan's own steps.
LEMMA ScanScans ==
  ASSUME IInv, NEW t \in Thread, Scan(t) \/ TestUsed(t) \/ TestFree(t)
  PROVE  Scans'
<1>1. Types /\ Scans /\ Scanned(t) /\ Paged(t)
  BY DEF IInv, Allocation, Calls, Scans
<1>2. page[t] \in Nat /\ cnt[t] \in Nat /\ seen[t] \in Nat /\ seen \in [Thread -> Nat]
  BY <1>1 DEF Types, Scans
<1>3. CASE Scan(t)
  <2>1. /\ pc[t] = "scan" /\ pool_lock = Null /\ pool_lock' = t
        /\ pc' = [pc EXCEPT ![t] = "test"] /\ page' = [page EXCEPT ![t] = 0]
        /\ UNCHANGED <<used_map, cnt, seen>>
    BY <1>3 DEF Scan, Doing, Goto
  <2>2. seen[t] = 0 /\ cnt[t] > 0
    BY <1>1, <2>1 DEF Scanned, Paged
  <2>3. seen'[t] < cnt'[t] /\ Run(page'[t], seen'[t]) = {}
    BY <1>1, <1>2, <2>1, <2>2, SMT DEF Run, Types
  <2>4. Scanned(t)'
    BY <1>1, <2>1, <2>3 DEF Scanned, Types
  <2>5. pool_lock \notin Thread \ {t}
    BY <2>1, MemoryAssumption
  <2>6. \A u \in Thread \ {t} : /\ pc'[u] = pc[u] /\ page'[u] = page[u]
                                /\ cnt'[u] = cnt[u] /\ seen'[u] = seen[u]
    BY <1>1, <2>1 DEF Types
  <2> QED
    BY <1>1, <1>2, <2>1, <2>4, <2>5, <2>6, ScansGoOn
<1>4. CASE TestUsed(t)
  <2>1. /\ pc[t] = "test" /\ page' = [page EXCEPT ![t] = @ + 1]
        /\ seen' = [seen EXCEPT ![t] = 0] /\ UNCHANGED <<used_map, pool_lock, pc, cnt>>
    BY <1>4 DEF TestUsed, Doing
  <2>2. pool_lock = t /\ cnt[t] > 0
    BY <1>1, <2>1 DEF Scanned, Paged
  <2>3. seen'[t] = 0 /\ seen' \in [Thread -> Nat]
    BY <1>2, <2>1
  <2>4. seen'[t] < cnt'[t] /\ Run(page'[t], seen'[t]) = {}
    <3>1. page'[t] = page[t] + 1
      BY <1>1, <2>1 DEF Types
    <3> QED
      BY <1>2, <2>1, <2>2, <2>3, <3>1, SMT DEF Run
  <2>5. Scanned(t)'
    BY <2>1, <2>2, <2>4 DEF Scanned
  <2>6. \A u \in Thread \ {t} : /\ pc'[u] = pc[u] /\ page'[u] = page[u]
                                /\ cnt'[u] = cnt[u] /\ seen'[u] = seen[u]
    BY <1>1, <1>2, <2>1 DEF Types
  <2> QED
    BY <1>1, <2>1, <2>3, <2>5, <2>6, ScansGoOn
<1>5. CASE TestFree(t)
  <2>1. /\ pc[t] = "test" /\ ~used_map[page[t] + seen[t]]
        /\ UNCHANGED <<used_map, pool_lock, page, cnt>>
    BY <1>5 DEF TestFree, Doing
  <2>2. pool_lock = t /\ \A p \in Run(page[t], seen[t]) \cap Page : ~used_map[p]
    BY <1>1, <2>1 DEF Scanned
  <2>3. CASE seen[t] + 1 < cnt[t]
    <3>1. seen' = [seen EXCEPT ![t] = @ + 1] /\ UNCHANGED pc
      BY <1>5, <2>3 DEF TestFree
    <3>2. seen[t] + 1 \in Nat
      BY <1>2, SMT
    <3>3. seen'[t] = seen[t] + 1 /\ seen' \in [Thread -> Nat]
      BY <1>2, <3>1, <3>2
    <3>4. \A p \in Run(page[t], seen[t] + 1) : p \in Run(page[t], seen[t]) \/ p = page[t] + seen[t]
      BY <1>2, SMT DEF Run
    <3>5. Scanned(t)'
      BY <2>1, <2>2, <2>3, <3>1, <3>3, <3>4 DEF Scanned
    <3>6. \A u \in Thread \ {t} : /\ pc'[u] = pc[u] /\ page'[u] = page[u]
                                  /\ cnt'[u] = cnt[u] /\ seen'[u] = seen[u]
      BY <1>2, <2>1, <3>1
    <3> QED
      BY <1>1, <2>1, <3>3, <3>5, <3>6, ScansGoOn
  <2>4. CASE ~(seen[t] + 1 < cnt[t])
    <3>1. seen' = [seen EXCEPT ![t] = 0] /\ pc' = [pc EXCEPT ![t] = "flip"]
      BY <1>5, <2>4 DEF TestFree, Goto
    <3>2. seen'[t] = 0 /\ pc'[t] = "flip" /\ seen' \in [Thread -> Nat]
      BY <1>1, <1>2, <3>1 DEF Types
    <3>3. Scanned(t)'
      BY <3>2 DEF Scanned
    <3>4. \A u \in Thread \ {t} : /\ pc'[u] = pc[u] /\ page'[u] = page[u]
                                  /\ cnt'[u] = cnt[u] /\ seen'[u] = seen[u]
      BY <1>1, <1>2, <2>1, <3>1 DEF Types
    <3> QED
      BY <1>1, <2>1, <3>2, <3>3, <3>4, ScansGoOn
  <2> QED
    BY <2>3, <2>4
<1> QED
  BY <1>3, <1>4, <1>5

\* At the start nobody scans.
LEMMA InitScans ==
  ASSUME MemoryInit
  PROVE  Scans
<1>1. /\ pc = [t \in Thread |-> "idle"] /\ seen = [t \in Thread |-> 0]
  BY DEF MemoryInit
<1> QED
  BY <1>1 DEF Scans, Scanned

\* Every step keeps the scans.
LEMMA NextScans ==
  ASSUME IInv, Allocation', [MemoryNext]_memoryVars
  PROVE  Scans'
<1>1. CASE UNCHANGED memoryVars
  <2>1. UNCHANGED <<used_map, pool_lock, pc, page, cnt, seen>>
    BY <1>1 DEF memoryVars, callVars
  <2> QED
    BY <2>1 DEF IInv, Scans, Scanned, Run
<1>2. ASSUME NEW t \in Thread, Aside(t)
      PROVE  Scans'
  <2>1. Scanned(t)'
    BY <1>2 DEF Aside, Scanned
  <2> QED
    BY <1>2, <2>1, ScansGoOn DEF Aside, IInv
<1>3. ASSUME NEW t \in Thread,
             \/ MallocBig(t)
             \/ \E d \in Desc : Malloc(t, d)
             \/ \E b \in Block : FreeBlock(t, b)
      PROVE  Scans'
  BY <1>2, <1>3, CallAside
<1>4. ASSUME NEW t \in Thread, Step(t)
      PROVE  Scans'
  BY <1>2, <1>4, ScanScans, StepAside
<1> QED
  BY <1>1, <1>3, <1>4 DEF MemoryNext

(***************************************************************************)
(* Cardinalities and lists without an arena.                               *)
(***************************************************************************)

INSTANCE FiniteSetTheorems

\* A set of places of a list is finite.
LEMMA PlacesFinite ==
  ASSUME NEW n \in Nat, NEW S \in SUBSET (1 .. n)
  PROVE  IsFiniteSet(S) /\ Cardinality(S) \in Nat
<1>1. IsFiniteSet(1 .. n)
  BY FS_Interval, SMT
<1>2. IsFiniteSet(S)
  BY <1>1, FS_Subset
<1> QED
  BY <1>2, FS_CardinalityType

\* How many members of a set of places there are up to each of them.
Rank(S, i) == Cardinality({j \in S : j <= i})

\* The members of a set of places are numbered by it, from 1 to their number.
LEMMA Ranks ==
  ASSUME NEW n \in Nat, NEW S \in SUBSET (1 .. n)
  PROVE  /\ Cardinality(S) \in Nat
         /\ \A i \in S : Rank(S, i) \in 1 .. Cardinality(S)
         /\ \A i, j \in S : Rank(S, i) = Rank(S, j) => i = j
         /\ \A k \in 1 .. Cardinality(S) : \E i \in S : Rank(S, i) = k
<1> DEFINE upto(i) == {j \in S : j <= i}
           c == Cardinality(S)
           f == [i \in S |-> Cardinality(upto(i))]
<1>1. IsFiniteSet(S) /\ c \in Nat
  BY PlacesFinite
<1>2. \A i \in S : IsFiniteSet(upto(i)) /\ Cardinality(upto(i)) \in Nat
  BY PlacesFinite
<1>3. ASSUME NEW i \in S
      PROVE  Cardinality(upto(i)) \in 1 .. c
  <2>1. upto(i) \in SUBSET S /\ i \in upto(i)
    BY <1>3, SMT
  <2>2. Cardinality(upto(i)) <= c
    <3> HIDE DEF upto
    <3> QED
      BY <1>1, <2>1, FS_Subset
  <2>3. Cardinality(upto(i)) # 0
    <3> HIDE DEF upto
    <3> QED
      BY <1>2, <1>3, <2>1, FS_EmptySet
  <2> QED
    <3> HIDE DEF upto, c
    <3> QED
      BY <1>1, <1>2, <1>3, <2>2, <2>3, SMT
<1>4. ASSUME NEW i \in S, NEW j \in S, i < j
      PROVE  Cardinality(upto(i)) # Cardinality(upto(j))
  <2>1. upto(i) \in SUBSET upto(j) /\ j \in upto(j) /\ j \notin upto(i)
    <3>1. i \in Nat /\ j \in Nat /\ \A x \in S : x \in Nat
      BY SMT
    <3>2. \A x \in S : x <= i => x <= j
      BY <1>4, <3>1, SMT
    <3>3. ~(j <= i) /\ j <= j
      BY <1>4, <3>1, SMT
    <3> QED
      BY <3>2, <3>3
  <2> HIDE DEF upto
  <2>2. IsFiniteSet(upto(j))
    BY <1>2
  <2> QED
    BY <2>1, <2>2, FS_Subset
<1>5. f \in Injection(S, 1 .. c)
  <2>1. f \in [S -> 1 .. c]
    BY <1>3
  <2>2. \A i, j \in S : f[i] = f[j] => i = j
    <3> SUFFICES ASSUME NEW i \in S, NEW j \in S, f[i] = f[j], i # j
                 PROVE  FALSE
      OBVIOUS
    <3>1. i < j \/ j < i
      BY SMT
    <3>2. Cardinality(upto(i)) = Cardinality(upto(j))
      OBVIOUS
    <3> HIDE DEF upto, f
    <3> QED
      BY <1>4, <3>1, <3>2
  <2> QED
    BY <2>1, <2>2 DEF Injection, IsInjective
<1>6. IsFiniteSet(1 .. c) /\ Cardinality(1 .. c) = c
  <2> HIDE DEF c
  <2> QED
    BY <1>1, FS_Interval, SMT
<1>7. f \in Surjection(S, 1 .. c)
  <2>1. Cardinality(S) = Cardinality(1 .. c)
    BY <1>6
  <2> HIDE DEF f, c
  <2> QED
    BY <1>5, <1>6, <2>1, FS_Injection
<1>8. \A k \in 1 .. c : \E i \in S : f[i] = k
  BY <1>7 DEF Surjection
<1>9. \A i \in S : Rank(S, i) = f[i]
  BY DEF Rank
<1>10. \A i, j \in S : f[i] = f[j] => i = j
  BY <1>5 DEF Injection, IsInjective
<1>11. \A i \in S : f[i] \in 1 .. c
  BY <1>5 DEF Injection
<1> HIDE DEF f
<1> QED
  BY <1>1, <1>8, <1>9, <1>10, <1>11, SMT

\* Taking an arena's blocks off a list leaves the other blocks, each once.
LEMMA ArenaOff ==
  ASSUME NEW s \in Seq(Block), IsInjective(s), NEW p
  PROVE  /\ WithoutArena(s, p) \in Seq(Block)
         /\ IsInjective(WithoutArena(s, p))
         /\ Range(WithoutArena(s, p)) = {b \in Range(s) : b[1] # p}
<1> DEFINE S == {i \in DOMAIN s : s[i][1] # p}
           c == Cardinality(S)
           at(k) == CHOOSE i \in S : Rank(S, i) = k
           w == [k \in 1 .. c |-> s[at(k)]]
<1>1. WithoutArena(s, p) = w
  BY DEF WithoutArena, Rank
<1>2. Len(s) \in Nat /\ S \in SUBSET (1 .. Len(s)) /\ \A i \in S : s[i] \in Block
  BY SMT
<1>3. \A i \in S : s[i][1] # p
  OBVIOUS
<1>4. \A i \in 1 .. Len(s) : s[i][1] # p => i \in S
  BY SMT
<1> HIDE DEF S
<1>5. /\ c \in Nat
      /\ \A i \in S : Rank(S, i) \in 1 .. c
      /\ \A i, j \in S : Rank(S, i) = Rank(S, j) => i = j
      /\ \A k \in 1 .. c : \E i \in S : Rank(S, i) = k
  BY <1>2, Ranks
<1> HIDE DEF c
<1>6. \A k \in 1 .. c : at(k) \in S /\ Rank(S, at(k)) = k
  BY <1>5
<1>7. \A i \in S : at(Rank(S, i)) = i
  BY <1>5, <1>6
<1> HIDE DEF at
<1>8. /\ w \in Seq(Block) /\ Len(w) = c
      /\ \A k \in 1 .. c : w[k] = s[at(k)]
  <2>1. \A k \in 1 .. c : s[at(k)] \in Block
    BY <1>2, <1>6
  <2>2. w \in [1 .. c -> Block]
    BY <2>1
  <2>3. \A k \in 1 .. c : w[k] = s[at(k)]
    OBVIOUS
  <2> HIDE DEF w
  <2> QED
    BY <1>5, <2>2, <2>3, SMT
<1> HIDE DEF w
<1>9. \A i, j \in 1 .. Len(s) : s[i] = s[j] => i = j
  BY ListIs
<1>10. IsInjective(w)
  <2>1. ASSUME NEW i \in 1 .. c, NEW j \in 1 .. c, w[i] = w[j]
        PROVE  i = j
    <3>1. at(i) \in 1 .. Len(s) /\ at(j) \in 1 .. Len(s)
      BY <1>2, <1>6
    <3>2. at(i) = at(j)
      BY <1>8, <1>9, <2>1, <3>1
    <3> QED
      BY <1>6, <3>2
  <2> QED
    BY <1>8, <2>1, ListIs
<1>11. ASSUME NEW b
       PROVE  b \in Range(w) <=> b \in Range(s) /\ b[1] # p
  <2>1. b \in Range(w) <=> \E k \in 1 .. c : w[k] = b
    BY <1>8, ListIs
  <2>2. b \in Range(s) <=> \E i \in 1 .. Len(s) : s[i] = b
    BY ListIs
  <2>3. ASSUME NEW k \in 1 .. c, w[k] = b
        PROVE  b[1] # p /\ \E i \in 1 .. Len(s) : s[i] = b
    BY <1>2, <1>3, <1>6, <1>8, <2>3
  <2>4. ASSUME NEW i \in 1 .. Len(s), s[i] = b, b[1] # p
        PROVE  \E k \in 1 .. c : w[k] = b
    <3>1. i \in S
      BY <1>4, <2>4
    <3>2. Rank(S, i) \in 1 .. c /\ w[Rank(S, i)] = s[i]
      BY <1>5, <1>7, <1>8, <3>1
    <3> QED
      BY <2>4, <3>2
  <2> QED
    BY <2>1, <2>2, <2>3, <2>4
<1> QED
  BY <1>1, <1>8, <1>10, <1>11

\* How many blocks of an arena a set of them has.
LEMMA Numbers == Counting
<1> SUFFICES ASSUME NEW q \in Page, NEW S \in SUBSET BlocksIn(q)
             PROVE  /\ Cardinality(S) \in Nat /\ Cardinality(S) <= BlockCount
                    /\ Cardinality(S) = BlockCount <=> S = BlocksIn(q)
                    /\ \A b \in BlocksIn(q) \ S : Cardinality(S \cup {b}) = Cardinality(S) + 1
                    /\ \A b \in S : Cardinality(S \ {b}) = Cardinality(S) - 1
  BY DEF Counting
<1>1. BlockCount \in Nat /\ BlockCount > 0
  BY MemoryAssumption, SMT
<1>2. IsFiniteSet(BlocksIn(q)) /\ Cardinality(BlocksIn(q)) = BlockCount
  <2>1. IsFiniteSet({q}) /\ Cardinality({q}) = 1
    BY FS_Singleton
  <2>2. PICK I : I = 0 .. BlockCount - 1
    OBVIOUS
  <2>3. IsFiniteSet(I) /\ Cardinality(I) = BlockCount
    <3>1. PICK n : n = BlockCount - 1
      OBVIOUS
    <3>2. n \in Int /\ ~(0 > n) /\ n - 0 + 1 = BlockCount
      BY <1>1, <3>1, SMT
    <3>3. IsFiniteSet(0 .. n) /\ Cardinality(0 .. n) = n - 0 + 1
      BY <3>2, FS_Interval, SMT
    <3> QED
      BY <2>2, <3>1, <3>2, <3>3
  <2>4. IsFiniteSet({q} \X I) /\ Cardinality({q} \X I) = Cardinality({q}) * Cardinality(I)
    BY <2>1, <2>3, FS_Product
  <2>5. BlocksIn(q) = {q} \X I
    BY <2>2 DEF BlocksIn
  <2>6. 1 * BlockCount = BlockCount
    BY <1>1, SMT
  <2> QED
    BY <2>1, <2>3, <2>4, <2>5, <2>6
<1>3. /\ IsFiniteSet(S) /\ Cardinality(S) <= BlockCount
      /\ Cardinality(S) = BlockCount => S = BlocksIn(q)
  BY <1>2, FS_Subset
<1>4. Cardinality(S) \in Nat
  BY <1>3, FS_CardinalityType
<1>5. \A b \in BlocksIn(q) \ S : Cardinality(S \cup {b}) = Cardinality(S) + 1
  BY <1>3, FS_AddElement
<1>6. \A b \in S : Cardinality(S \ {b}) = Cardinality(S) - 1
  BY <1>3, FS_RemoveElement
<1> QED
  BY <1>2, <1>3, <1>4, <1>5, <1>6

LEMMA Lists == Unlinking
  BY ArenaOff DEF Unlinking

(***************************************************************************)
(* Theorems.                                                               *)
(***************************************************************************)
\* Whatever the calls of malloc and free in progress, the inductive invariant
\* holds.
THEOREM AllocatorInvariant == MemorySpec => []IInv
<1>1. MemoryInit => IInv
  BY InitAllocation, InitScans DEF IInv
<1>2. IInv /\ [MemoryNext]_memoryVars => IInv'
  BY NextAllocation, NextScans, Numbers, Lists DEF IInv
<1> QED
  BY <1>1, <1>2, PTL DEF MemorySpec

\* A page that is not of a call in progress and has a header's run over it is
\* the header's alone, and a page of a call is the call's alone.
LEMMA OwnedOnce ==
  ASSUME IInv
  PROVE  PagesOwnedOnce
<1>1. Types /\ Calls /\ Headers /\ Handling /\ Marked
  BY DEF IInv, Allocation
<1> DEFINE owner(p) ==
      {<<"call", t>> : t \in {u \in Thread : p \in Handled(u)}}
        \cup {<<"header", q>> : q \in {r \in Headed :
                /\ p \in HeadedRun(r)
                /\ \A t \in Thread : pc[t] = "assert" => r \notin Handled(t)}}
<1>2. \A r \in Headed : HeadedRun(r) = Run(r, Size(r))
  BY DEF HeadedRun, Size
<1>3. ASSUME NEW p \in Page
      PROVE  Cardinality(owner(p)) = IF used_map[p] THEN 1 ELSE 0
  <2>1. CASE ~used_map[p]
    <3>1. ~Taken(p)
      BY <1>1, <2>1 DEF Marked
    <3>2. owner(p) = {}
      BY <1>2, <3>1 DEF Taken
    <3> QED
      BY <2>1, <3>2, FS_EmptySet
  <2>2. ASSUME used_map[p], NEW t \in Thread, p \in Handled(t)
        PROVE  owner(p) = {<<"call", t>>}
    <3>1. \A u \in Thread : p \in Handled(u) => u = t
      BY <1>1, <2>2 DEF Handling
    <3>2. ASSUME NEW r \in Headed, p \in HeadedRun(r)
          PROVE  pc[t] = "assert" /\ r \in Handled(t)
      <4>1. pc[t] = "assert" /\ page[t] = r
        BY <1>1, <1>2, <2>2, <3>2 DEF Headers
      <4>2. Handled(t) = Run(r, Size(r))
        BY <1>1, <4>1 DEF Handling, Handled
      <4> QED
        BY <1>1, <4>1, <4>2, FirstPage
    <3> QED
      BY <2>2, <3>1, <3>2
  <2>3. ASSUME used_map[p], \A t \in Thread : p \notin Handled(t),
               NEW q \in Headed, p \in Run(q, Size(q))
        PROVE  owner(p) = {<<"header", q>>}
    <3>1. \A r \in Headed : p \in HeadedRun(r) => r = q
      BY <1>1, <1>2, <2>3 DEF Headers
    <3>2. ASSUME NEW t \in Thread, pc[t] = "assert", q \in Handled(t)
          PROVE  FALSE
      <4>1. q \in Run(q, Size(q))
        BY <1>1, FirstPage
      <4>2. page[t] = q
        BY <1>1, <3>2, <4>1 DEF Headers
      <4>3. Handled(t) = Run(q, Size(q))
        BY <1>1, <3>2, <4>2 DEF Handling, Handled
      <4> QED
        BY <2>3, <4>3
    <3> QED
      BY <1>2, <2>3, <3>1, <3>2
  <2>4. CASE used_map[p]
    <3>1. Taken(p)
      BY <1>1, <2>4 DEF Marked
    <3>2. PICK x : owner(p) = {x}
      BY <2>2, <2>3, <2>4, <3>1 DEF Taken
    <3> HIDE DEF owner
    <3> QED
      BY <2>4, <3>2, FS_Singleton
  <2> HIDE DEF owner
  <2> QED
    BY <2>1, <2>4
<1> QED
  BY <1>3 DEF PagesOwnedOnce

\* Pages have one owner: used_map marks exactly the pages of arenas, of big
\* blocks and of calls in progress, and no page is of two of them.
THEOREM PagesSafe == MemorySpec => []PagesOwnedOnce
<1>1. IInv => PagesOwnedOnce
  BY OwnedOnce
<1> QED
  BY <1>1, AllocatorInvariant, PTL

\* The places of an arena's blocks on a list are as many as the blocks.
LEMMA AsMany ==
  ASSUME NEW s \in Seq(Block), IsInjective(s), NEW p
  PROVE  Cardinality({i \in DOMAIN s : s[i][1] = p}) = Cardinality({b \in Range(s) : b[1] = p})
<1>1. PICK I : I = {i \in DOMAIN s : s[i][1] = p}
  OBVIOUS
<1>2. PICK B : B = {b \in Range(s) : b[1] = p}
  OBVIOUS
<1>3. /\ I \in SUBSET (1 .. Len(s)) /\ Len(s) \in Nat
      /\ \A i : i \in I <=> i \in 1 .. Len(s) /\ s[i][1] = p
  BY <1>1, SMT
<1>4. IsFiniteSet(I)
  BY <1>3, PlacesFinite
<1>5. /\ \A b : b \in Range(s) <=> \E i \in 1 .. Len(s) : s[i] = b
      /\ \A i, j \in 1 .. Len(s) : s[i] = s[j] => i = j
  BY ListIs
<1>6. PICK f : f = [i \in I |-> s[i]]
  OBVIOUS
<1>7. f \in [I -> B] /\ \A i \in I : f[i] = s[i]
  BY <1>2, <1>3, <1>5, <1>6
<1>8. \A i, j \in I : f[i] = f[j] => i = j
  BY <1>3, <1>5, <1>7
<1>9. \A b \in B : \E i \in I : f[i] = b
  BY <1>2, <1>3, <1>5, <1>7
<1>10. f \in Bijection(I, B)
  BY <1>7, <1>8, <1>9 DEF Bijection, Injection, Surjection, IsInjective
<1>11. ExistsBijection(I, B)
  BY <1>10 DEF ExistsBijection
<1> QED
  BY <1>1, <1>2, <1>4, <1>11, FS_Bijection

LEMMA Exact ==
  ASSUME IInv
  PROVE  BlocksExact
<1>1. Types /\ Calls /\ Handling /\ Places /\ Lodged /\ Counts
  BY DEF IInv, Allocation
<1>2. ~panic
  BY <1>1 DEF Types
<1>3. \A b \in given : arena[b[1]] # Null
  BY <1>1 DEF Lodged, Headed
<1>4. ASSUME NEW d \in Desc
      PROVE  Range(free_list[d]) \cap given = {}
  BY <1>1 DEF Places, Listed
<1>5. ASSUME NEW d \in Desc, desc_lock[d] = Null, NEW p \in Headed, arena[p].desc = d
      PROVE  arena[p].free_cnt
               = Cardinality({i \in DOMAIN free_list[d] : free_list[d][i][1] = p})
  <2>1. d # Null /\ Null \notin Thread
    BY MemoryAssumption
  <2>2. ~Released(p)
    <3>1. SUFFICES ASSUME NEW t \in Thread, pc[t] = "assert", page[t] = p
                   PROVE  FALSE
      BY DEF Released
    <3>2. desc[t] = d
      BY <1>1, <1>5, <3>1 DEF Handling
    <3>3. desc_lock[d] = t
      BY <1>1, <2>1, <3>1, <3>2 DEF Calls, Locked
    <3> QED
      BY <1>5, <2>1, <3>3
  <2>3. arena[p].free_cnt = Cardinality(FreeBlocks(p))
    BY <1>1, <1>5, <2>1, <2>2 DEF Counts
  <2>4. FreeBlocks(p) = {b \in Range(free_list[d]) : b[1] = p}
    BY <1>5 DEF FreeBlocks
  <2>5. PICK s : s = free_list[d]
    OBVIOUS
  <2>6. s \in Seq(Block) /\ IsInjective(s)
    BY <1>1, <2>5 DEF Types, Places
  <2>7. Cardinality({i \in DOMAIN s : s[i][1] = p}) = Cardinality({b \in Range(s) : b[1] = p})
    BY <2>6, AsMany
  <2> QED
    BY <2>3, <2>4, <2>5, <2>7
<1> QED
  BY <1>1, <1>2, <1>3, <1>4, <1>5 DEF BlocksExact, Places

\* malloc and free keep the blocks exact: no assertion fails, no block is both
\* free and given out, and free_cnt counts an arena's free blocks.
THEOREM BlocksSafe == MemorySpec => []BlocksExact
<1>1. IInv => BlocksExact
  BY Exact
<1> QED
  BY <1>1, AllocatorInvariant, PTL
=============================================================================
