-------------------------------- MODULE List --------------------------------
(***************************************************************************)
(* The doubly linked lists of src/lib/kernel/list.c, at the level of their *)
(* pointers: every function of the file is an operator from link structure *)
(* to link structure, and an action applies it to the lists in memory.     *)
(*                                                                         *)
(* Beside the pointers, content records what each list should hold, as the *)
(* comments of list.c describe it.                                         *)
(***************************************************************************)
EXTENDS Naturals, SequencesExt

CONSTANTS
  Elem,     \* elements that callers embed in their structures
  List,     \* lists
  Value,    \* what the callers' comparison function looks at
  NULL      \* the null pointer

ASSUME ListAssumption == IsFiniteSet(Elem) /\ Value \subseteq Nat

head(l) == <<l, "head">>
tail(l) == <<l, "tail">>
Node == Elem \cup {head(l) : l \in List} \cup {tail(l) : l \in List}

VARIABLES
  links,      \* prev and next of every node, and whether an assertion failed
  value,      \* the value of each element
  content     \* the elements each list should hold, in order

listVars == <<links, value, content>>

Less(a, b) == value[a] < value[b]

Asserting(s, condition) == [s EXCEPT !.panic = @ \/ ~condition]

is_interior(s, e) == s.prev[e] # NULL /\ s.next[e] # NULL
is_tail(s, e) == s.prev[e] # NULL /\ s.next[e] = NULL

list_begin(s, l) == s.next[head(l)]
list_end(l) == tail(l)
list_empty(s, l) == list_begin(s, l) = list_end(l)

list_init(s, l) ==
  [s EXCEPT !.prev[head(l)] = NULL, !.next[head(l)] = tail(l),
            !.prev[tail(l)] = head(l), !.next[tail(l)] = NULL]

(***************************************************************************)
(* Insertion and removal.                                                  *)
(***************************************************************************)
list_insert(s, before, elem) ==
  [Asserting(s, is_interior(s, before) \/ is_tail(s, before)) EXCEPT
     !.prev[elem] = s.prev[before],
     !.next[elem] = before,
     !.next[s.prev[before]] = elem,
     !.prev[before] = elem]

list_push_front(s, l, elem) == list_insert(s, list_begin(s, l), elem)
list_push_back(s, l, elem) == list_insert(s, list_end(l), elem)

\* The removed element keeps its stale pointers.
list_remove(s, elem) ==
  [Asserting(s, is_interior(s, elem)) EXCEPT
     !.next[s.prev[elem]] = s.next[elem],
     !.prev[s.next[elem]] = s.prev[elem]]

\* list_front and list_back assert that the list is not empty.
list_pop_front(s, l) ==
  list_remove(Asserting(s, ~list_empty(s, l)), list_begin(s, l))
list_pop_back(s, l) ==
  list_remove(Asserting(s, ~list_empty(s, l)), s.prev[tail(l)])

\* Elements first to end (exclusive) move in front of `before': cut them out,
\* then link them in where before's predecessor is by then.
list_splice(s, before, first, end) ==
  IF first = end THEN s ELSE
  LET last == s.prev[end]
      asserted == Asserting(s, /\ is_interior(s, before) \/ is_tail(s, before)
                               /\ is_interior(s, first) /\ is_interior(s, last))
      cut == [asserted EXCEPT !.next[s.prev[first]] = end,
                              !.prev[end] = s.prev[first]]
  IN  [cut EXCEPT !.prev[first] = cut.prev[before],
                  !.next[last] = before,
                  !.next[cut.prev[before]] = first,
                  !.prev[before] = last]

\* list_reverse swaps the pointers of every element, then the four that tie
\* the elements to the head and the tail.
list_reverse(s, l) ==
  LET RECURSIVE Swapped(_, _)
      Swapped(r, e) ==
        IF e = list_end(l) THEN r
        ELSE Swapped([r EXCEPT !.prev[e] = r.next[e], !.next[e] = r.prev[e]],
                     r.next[e])
      swapped == Swapped(s, list_begin(s, l))
      ends == [swapped EXCEPT !.next[head(l)] = swapped.prev[tail(l)],
                              !.prev[tail(l)] = swapped.next[head(l)]]
      first == ends.next[head(l)]
      last == ends.prev[tail(l)]
  IN  IF list_empty(s, l) THEN s
      ELSE [ends EXCEPT !.prev[first] = ends.next[last],
                        !.next[last] = ends.prev[first]]

(***************************************************************************)
(* Sorting and searching.                                                  *)
(***************************************************************************)
RECURSIVE is_sorted(_, _, _)
is_sorted(s, a, b) ==
  \/ a = b \/ s.next[a] = b
  \/ ~Less(s.next[a], a) /\ is_sorted(s, s.next[a], b)

\* The end of the nondecreasing run that starts at a.
RECURSIVE find_end_of_run(_, _, _)
find_end_of_run(s, a, b) ==
  LET next == s.next[a] IN
  IF next = b \/ Less(next, a) THEN next ELSE find_end_of_run(s, next, b)

\* Mutation: an element of the second run overtakes its equals.
TakeSecond_Equal(b, a) == ~Less(a, b)

\* inplace_merge moves the second run's first element when it is smaller.
TakeSecond(b, a) == Less(b, a)

RECURSIVE Merge(_, _, _, _)
Merge(s, a0, a1b0, b1) ==
  IF a0 = a1b0 \/ a1b0 = b1 THEN s
  ELSE IF ~TakeSecond(a1b0, a0) THEN Merge(s, s.next[a0], a1b0, b1)
  ELSE LET next == s.next[a1b0]
       IN  Merge(list_splice(s, a0, s.prev[next], next), a0, next, b1)

inplace_merge(s, a0, a1b0, b1) ==
  Merge(Asserting(s, is_sorted(s, a0, a1b0) /\ is_sorted(s, a1b0, b1)),
        a0, a1b0, b1)

\* One pass of list_sort from a0 on: adjacent runs are merged in pairs.
RECURSIVE SortPass(_, _, _, _)
SortPass(s, l, a0, output_run_cnt) ==
  IF a0 = list_end(l) THEN [s |-> s, runs |-> output_run_cnt] ELSE
  LET a1b0 == find_end_of_run(s, a0, list_end(l)) IN
  IF a1b0 = list_end(l) THEN [s |-> s, runs |-> output_run_cnt + 1] ELSE
  LET b1 == find_end_of_run(s, a1b0, list_end(l))
  IN  SortPass(inplace_merge(s, a0, a1b0, b1), l, b1, output_run_cnt + 1)

\* Passes are made until one leaves a single run.
RECURSIVE list_sort(_, _)
list_sort(s, l) ==
  LET pass == SortPass(s, l, list_begin(s, l), 0) IN
  IF pass.runs > 1 THEN list_sort(pass.s, l)
  ELSE Asserting(pass.s, is_sorted(pass.s, list_begin(pass.s, l), list_end(l)))

\* list_insert_ordered goes in front of the first greater element.
RECURSIVE FirstGreater(_, _, _, _)
FirstGreater(s, l, e, elem) ==
  IF e = list_end(l) \/ Less(elem, e) THEN e
  ELSE FirstGreater(s, l, s.next[e], elem)

list_insert_ordered(s, l, elem) ==
  list_insert(s, FirstGreater(s, l, list_begin(s, l), elem), elem)

\* list_unique from elem on; d is where the duplicates go, or NULL.
RECURSIVE UniqueFrom(_, _, _, _)
UniqueFrom(s, l, d, elem) ==
  LET next == s.next[elem]
      removed == list_remove(s, next) IN
  IF next = list_end(l) THEN s
  ELSE IF ~Less(elem, next) /\ ~Less(next, elem)
  THEN UniqueFrom(IF d = NULL THEN removed ELSE list_push_back(removed, d, next),
                  l, d, elem)
  ELSE UniqueFrom(s, l, d, next)

list_unique(s, l, d) ==
  IF list_empty(s, l) THEN s ELSE UniqueFrom(s, l, d, list_begin(s, l))

RECURSIVE MaxFrom(_, _, _, _)
MaxFrom(s, l, max, e) ==
  IF e = list_end(l) THEN max
  ELSE MaxFrom(s, l, IF Less(max, e) THEN e ELSE max, s.next[e])

list_max(s, l) ==
  LET max == list_begin(s, l)
  IN  IF max = list_end(l) THEN max ELSE MaxFrom(s, l, max, s.next[max])

RECURSIVE MinFrom(_, _, _, _)
MinFrom(s, l, min, e) ==
  IF e = list_end(l) THEN min
  ELSE MinFrom(s, l, IF Less(e, min) THEN e ELSE min, s.next[e])

list_min(s, l) ==
  LET min == list_begin(s, l)
  IN  IF min = list_end(l) THEN min ELSE MinFrom(s, l, min, s.next[min])

RECURSIVE CountFrom(_, _, _)
CountFrom(s, l, e) == IF e = list_end(l) THEN 0 ELSE 1 + CountFrom(s, l, s.next[e])
list_size(s, l) == CountFrom(s, l, list_begin(s, l))

(***************************************************************************)
(* What the functions promise, on sequences.                               *)
(***************************************************************************)
Free == Elem \ UNION {ToSet(content[l]) : l \in List}

Goes(q, i) ==
  Cardinality({j \in DOMAIN q : \/ value[q[j]] < value[q[i]]
                                \/ value[q[j]] = value[q[i]] /\ j <= i})

\* q in nondecreasing order, equal elements in the order they had.
StablySorted(q) ==
  [k \in DOMAIN q |-> q[CHOOSE i \in DOMAIN q : Goes(q, i) = k]]

Repeats(q, i) == i > 1 /\ value[q[i]] = value[q[i - 1]]
At(q, positions) == [k \in 1 .. Cardinality(positions) |->
                       q[CHOOSE i \in positions :
                           Cardinality({j \in positions : j <= i}) = k]]

\* The first element of q that every other one is at most, or at least.
Earliest(q, Best(_, _)) ==
  q[CHOOSE i \in DOMAIN q : /\ \A j \in DOMAIN q : Best(q[i], q[j])
                            /\ \A j \in 1 .. i - 1 : ~Best(q[j], q[i])]

(***************************************************************************)
(* The calls.  Each one asks of its caller what list.c asserts or, for the *)
(* elements it is given, what the comments of list.c require.              *)
(***************************************************************************)
\* The links of an element on no list are dead: list_insert writes both before
\* anything reads them.
Commit(s) ==
  /\ links' = LET Dead(f) == [n \in Node |-> IF n \in Free' THEN NULL ELSE f[n]]
              IN  [s EXCEPT !.prev = Dead(@), !.next = Dead(@)]
  /\ UNCHANGED value

Insert(l, i, e) ==
  /\ e \in Free /\ i \in 1 .. Len(content[l]) + 1
  /\ content' = [content EXCEPT ![l] = InsertAt(@, i, e)]
  /\ Commit(list_insert(links, IF i \in DOMAIN content[l] THEN content[l][i]
                               ELSE list_end(l), e))

PushFront(l, e) ==
  /\ e \in Free
  /\ content' = [content EXCEPT ![l] = <<e>> \o @]
  /\ Commit(list_push_front(links, l, e))

PushBack(l, e) ==
  /\ e \in Free
  /\ content' = [content EXCEPT ![l] = Append(@, e)]
  /\ Commit(list_push_back(links, l, e))

InsertOrdered(l, e) ==
  /\ e \in Free /\ content[l] = StablySorted(content[l])
  /\ content' = [content EXCEPT ![l] = StablySorted(Append(@, e))]
  /\ Commit(list_insert_ordered(links, l, e))

Unlink(l, i) ==
  /\ i \in DOMAIN content[l]
  /\ content' = [content EXCEPT ![l] = RemoveAt(@, i)]
  /\ Commit(list_remove(links, content[l][i]))

Pop(l) ==
  /\ content[l] # <<>>
  /\ \/ /\ content' = [content EXCEPT ![l] = Tail(@)]
        /\ Commit(list_pop_front(links, l))
     \/ /\ content' = [content EXCEPT ![l] = Front(@)]
        /\ Commit(list_pop_back(links, l))

\* `before' is in another list, or outside the range that moves.
Splice(from, i, j, to, k) ==
  LET Place(l, n) == IF n \in DOMAIN content[l] THEN content[l][n] ELSE list_end(l)
      range == SubSeq(content[from], i, j - 1)
      rest == SubSeq(content[from], 1, i - 1)
                \o SubSeq(content[from], j, Len(content[from]))
      at == IF from = to /\ k >= j THEN k - Len(range) ELSE k
      target == IF from = to THEN rest ELSE content[to] IN
  /\ i <= j /\ j <= Len(content[from]) + 1 /\ k <= Len(content[to]) + 1
  /\ from = to => k < i \/ k >= j
  /\ content' = [content EXCEPT ![from] = rest,
                                ![to] = SubSeq(target, 1, at - 1) \o range
                                          \o SubSeq(target, at, Len(target))]
  /\ Commit(list_splice(links, Place(to, k), Place(from, i), Place(from, j)))

Reversal(l) ==
  /\ content' = [content EXCEPT ![l] = Reverse(@)]
  /\ Commit(list_reverse(links, l))

Sort(l) ==
  /\ content' = [content EXCEPT ![l] = StablySorted(@)]
  /\ Commit(list_sort(links, l))

Unique(l, d) ==
  LET q == content[l]
      duplicates == {i \in DOMAIN q : Repeats(q, i)}
      kept == [content EXCEPT ![l] = At(q, DOMAIN q \ duplicates)] IN
  /\ d # l
  /\ content' = IF d = NULL THEN kept
                ELSE [kept EXCEPT ![d] = @ \o At(q, duplicates)]
  /\ Commit(list_unique(links, l, d))

Reinit(l) ==
  /\ content' = [content EXCEPT ![l] = <<>>]
  /\ Commit(list_init(links, l))

-----------------------------------------------------------------------------
Unlinked == [n \in Node |-> NULL]

ListInit ==
  /\ value \in [Elem -> Value]
  /\ links = LET RECURSIVE AllInit(_)
                 AllInit(ls) ==
                   IF ls = {} THEN [prev |-> Unlinked, next |-> Unlinked,
                                    panic |-> FALSE]
                   ELSE LET l == CHOOSE l \in ls : TRUE
                        IN  list_init(AllInit(ls \ {l}), l)
             IN  AllInit(List)
  /\ content = [l \in List |-> <<>>]

Position == 1 .. Cardinality(Elem) + 1

ListNext ==
  \E l \in List :
    \/ \E e \in Elem : PushFront(l, e) \/ PushBack(l, e) \/ InsertOrdered(l, e)
    \/ \E i \in Position : Unlink(l, i) \/ \E e \in Elem : Insert(l, i, e)
    \/ Pop(l) \/ Reversal(l) \/ Sort(l) \/ Reinit(l)
    \/ \E d \in List \cup {NULL} : Unique(l, d)
    \/ \E to \in List, i, j, k \in Position : Splice(l, i, j, to, k)

(***************************************************************************)
(* Properties.                                                             *)
(***************************************************************************)
\* The nodes met from n on, through at most as many links as there are nodes.
RECURSIVE Walk(_, _, _)
Walk(link, n, steps) ==
  IF n = NULL \/ steps = 0 THEN <<>>
  ELSE <<n>> \o Walk(link, link[n], steps - 1)

\* Through any sequence of calls, of splices within and between lists and of
\* sorts in particular, following next from the head and prev from the tail of
\* a list both give the elements the comments of list.c promise, sorts are
\* stable, no assertion of list.c fails, and list_size, list_max and list_min
\* answer for that sequence, the earliest element where several are equal.
ListsAreSequences ==
  /\ ~links.panic
  /\ \A l \in List :
       LET q == content[l]
           walk == <<head(l)>> \o q \o <<tail(l)>> IN
       /\ Walk(links.next, head(l), Cardinality(Node)) = walk
       /\ Walk(links.prev, tail(l), Cardinality(Node)) = Reverse(walk)
       /\ list_size(links, l) = Len(q)
       /\ IF q = <<>>
          THEN list_max(links, l) = tail(l) /\ list_min(links, l) = tail(l)
          ELSE /\ list_max(links, l) = Earliest(q, LAMBDA a, b : ~Less(a, b))
               /\ list_min(links, l) = Earliest(q, LAMBDA a, b : ~Less(b, a))
=============================================================================
