-------------------------------- MODULE Hash --------------------------------
(***************************************************************************)
(* The hash tables of src/lib/kernel/hash.c: chained buckets, a number of  *)
(* buckets that follows the number of elements, iteration.                 *)
(*                                                                         *)
(* A bucket is a list of list.c, here the sequence that module List shows  *)
(* it to be.  Beside the table, present records which elements it should   *)
(* hold.                                                                   *)
(***************************************************************************)
EXTENDS Integers, Bitwise, SequencesExt

CONSTANTS
  Item,          \* elements that callers embed in their structures
  KeyOf,         \* what the comparison function looks at, for each element
  HashOf,        \* the hash function, on keys
  MinBuckets,    \* the least number of buckets: 4 in the source
  BEST_ELEMS_PER_BUCKET,
  NONE           \* the null pointer

ASSUME HashAssumption ==
  /\ \A e \in Item : HashOf[KeyOf[e]] \in Nat
  /\ MinBuckets \in Nat \ {0} /\ BEST_ELEMS_PER_BUCKET \in Nat \ {0}

VARIABLES
  table,      \* the struct hash, or NONE before hash_init
  iterator,   \* the struct hash_iterator, or NONE
  present,    \* the elements the table should hold
  visited     \* the elements passed to the caller by the walk in progress or
              \* by the last one: an iteration, hash_apply or hash_clear

hashVars == <<table, iterator, present, visited>>

Bucket(h) == 0 .. h.bucket_cnt - 1
Empty(cnt) == [elem_cnt |-> 0, bucket_cnt |-> cnt,
               buckets |-> [b \in 0 .. cnt - 1 |-> <<>>]]

\* The elements in the order of a walk over the buckets.
Flat(h) == FlattenSeq([i \in 1 .. h.bucket_cnt |-> h.buckets[i - 1]])

Equal(d, e) == KeyOf[d] = KeyOf[e]

find_bucket(h, e) == HashOf[KeyOf[e]] & (h.bucket_cnt - 1)

find_elem(h, b, e) ==
  LET q == h.buckets[b]
      same == {i \in DOMAIN q : Equal(q[i], e)}
  IN  IF same = {} THEN NONE
      ELSE q[CHOOSE i \in same : \A j \in same : i <= j]

insert_elem(h, b, e) ==
  [h EXCEPT !.elem_cnt = @ + 1, !.buckets[b] = <<e>> \o @]

remove_elem(h, e) ==
  [h EXCEPT !.elem_cnt = @ - 1,
            !.buckets = [b \in DOMAIN @ |-> SelectSeq(@[b], LAMBDA d : d # e)]]

turn_off_least_1bit(x) == x & (x - 1)
is_power_of_2(x) == x # 0 /\ turn_off_least_1bit(x) = 0

RECURSIVE PowerOf2UpTo(_)
PowerOf2UpTo(x) ==
  IF is_power_of_2(x) THEN x ELSE PowerOf2UpTo(turn_off_least_1bit(x))

\* The number of buckets rehash wants.
BestCount(elem_cnt) ==
  LET cnt == elem_cnt \div BEST_ELEMS_PER_BUCKET
  IN  PowerOf2UpTo(IF cnt < MinBuckets THEN MinBuckets ELSE cnt)

\* Mutation: an element goes to the bucket with the number it came from.
Moved_OldBucket(h, cnt) ==
  [Empty(cnt) EXCEPT
     !.elem_cnt = h.elem_cnt,
     !.buckets = [b \in DOMAIN @ |-> IF b \in Bucket(h) THEN h.buckets[b] ELSE <<>>]]

\* The elements in cnt new buckets, each moved to the front of its own.
Moved(h, cnt) ==
  LET new == [Empty(cnt) EXCEPT !.elem_cnt = h.elem_cnt]
      Into(b) == SelectSeq(Flat(h), LAMBDA e : find_bucket(new, e) = b)
  IN  [new EXCEPT !.buckets = [b \in DOMAIN @ |-> Reverse(Into(b))]]

\* rehash; when there is no memory for the new buckets, the old ones stay.
rehash(h, memory) ==
  LET cnt == BestCount(h.elem_cnt)
  IN  IF cnt = h.bucket_cnt \/ ~memory THEN h ELSE Moved(h, cnt)

(***************************************************************************)
(* The calls.                                                              *)
(***************************************************************************)
\* hash_init; without memory for the buckets there is no table.
HashNew ==
  /\ table = NONE
  /\ table' = Empty(MinBuckets)
  /\ present' = {}
  /\ UNCHANGED <<iterator, visited>>

\* A change of the table invalidates the iterators.
Changed == iterator' = NONE /\ visited' = <<>>

Same(e) == {d \in present : Equal(d, e)}

HashInsert(e) ==
  LET b == find_bucket(table, e) IN
  /\ table # NONE
  /\ \E memory \in BOOLEAN :
       table' = rehash(IF find_elem(table, b, e) = NONE
                       THEN insert_elem(table, b, e) ELSE table, memory)
  /\ present' = IF Same(e) = {} THEN present \cup {e} ELSE present
  /\ Changed

HashReplace(e) ==
  LET b == find_bucket(table, e)
      old == find_elem(table, b, e)
      without == IF old = NONE THEN table ELSE remove_elem(table, old) IN
  /\ table # NONE
  /\ \E memory \in BOOLEAN : table' = rehash(insert_elem(without, b, e), memory)
  /\ present' = (present \ Same(e)) \cup {e}
  /\ Changed

HashDelete(e) ==
  LET found == find_elem(table, find_bucket(table, e), e) IN
  /\ table # NONE
  /\ \E memory \in BOOLEAN :
       table' = IF found = NONE THEN table
                ELSE rehash(remove_elem(table, found), memory)
  /\ present' = present \ Same(e)
  /\ Changed

\* hash_clear, with or without a destructor; the number of buckets stays.
HashClear ==
  /\ table # NONE
  /\ visited' \in {Flat(table), <<>>}
  /\ table' = Empty(table.bucket_cnt)
  /\ present' = {}
  /\ iterator' = NONE

\* hash_destroy.
HashDestroy ==
  /\ table # NONE
  /\ visited' \in {Flat(table), <<>>}
  /\ table' = NONE
  /\ present' = {}
  /\ iterator' = NONE

\* hash_apply; a walk the caller had begun with an iterator is given up.
HashApply ==
  /\ table # NONE
  /\ visited' = Flat(table)
  /\ iterator' = NONE
  /\ UNCHANGED <<table, present>>

\* hash_first: in front of the first element of the first bucket.
HashFirst ==
  /\ table # NONE
  /\ iterator' = [bucket |-> 0, at |-> 0, end |-> FALSE]
  /\ visited' = <<>>
  /\ UNCHANGED <<table, present>>

\* Mutation: a bucket that turns out to be empty ends the iteration.
Later_OneBucket(i) == {b \in {i.bucket + 1} : b \in Bucket(table)
                                                /\ table.buckets[b] # <<>>}

\* The buckets in which hash_next goes on after the end of the current one.
Later(i) == {b \in Bucket(table) : b > i.bucket /\ table.buckets[b] # <<>>}

\* hash_next.
HashNext ==
  LET i == iterator
      nextBucket == CHOOSE b \in Later(i) : \A c \in Later(i) : b <= c IN
  /\ table # NONE /\ i # NONE /\ ~i.end
  /\ iterator' =
       IF i.at < Len(table.buckets[i.bucket]) THEN [i EXCEPT !.at = @ + 1]
       ELSE IF Later(i) # {} THEN [i EXCEPT !.bucket = nextBucket, !.at = 1]
       ELSE [i EXCEPT !.end = TRUE]
  /\ visited' = IF iterator'.end THEN visited
                ELSE Append(visited, table.buckets[iterator'.bucket][iterator'.at])
  /\ UNCHANGED <<table, present>>

-----------------------------------------------------------------------------
HashInit ==
  /\ table = NONE
  /\ iterator = NONE
  /\ present = {}
  /\ visited = <<>>

HashSteps ==
  \/ HashNew \/ HashClear \/ HashDestroy \/ HashApply \/ HashFirst \/ HashNext
  \/ \E e \in Item : HashInsert(e) \/ HashReplace(e) \/ HashDelete(e)

(***************************************************************************)
(* Properties.                                                             *)
(***************************************************************************)
\* hash_find, hash_insert, hash_replace and hash_delete answer for a set of
\* elements with different keys, whatever the growing and shrinking of rehash
\* did to the buckets and also when rehash found no memory: the table holds
\* exactly that set, every element where find_bucket looks for it, and
\* hash_size counts it.
TableIsSet ==
  table # NONE =>
    /\ \A e \in Item :
         LET found == find_elem(table, find_bucket(table, e), e)
         IN  IF Same(e) = {} THEN found = NONE ELSE Same(e) = {found}
    /\ ToSet(Flat(table)) = present
    /\ table.elem_cnt = Cardinality(present) /\ Len(Flat(table)) = table.elem_cnt
    /\ is_power_of_2(table.bucket_cnt)

\* A walk over the table meets no element twice, and when hash_next returns
\* null it has met them all.
WalkIsComplete ==
  /\ IsInjective(visited)
  /\ iterator # NONE /\ iterator.end => ToSet(visited) = present
=============================================================================
