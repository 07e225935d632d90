------------------------------- MODULE Stdlib -------------------------------
(***************************************************************************)
(* The algorithms of src/lib/stdlib.c and src/lib/arithmetic.c: heap sort, *)
(* binary search, atoi, and division of double words by means of the       *)
(* processor's division by a single word.                                  *)
(***************************************************************************)
EXTENDS Integers, Sequences

CONSTANTS
  W,         \* bits in a word: 32 in the source
  IntBits    \* bits in an int, for atoi: 32 in the source

ASSUME WidthAssumption == W \in Nat \ {0} /\ IntBits \in Nat \ {0}

(***************************************************************************)
(* sort and binary_search.  Elements are compared as integers.             *)
(***************************************************************************)
do_swap(array, a, b) == [array EXCEPT ![a] = array[b], ![b] = array[a]]

\* The index of the largest element among i and its children.
Largest(array, i, cnt) ==
  LET left == 2 * i
      right == 2 * i + 1
      max == IF left <= cnt /\ array[left] > array[i] THEN left ELSE i
  IN  IF right <= cnt /\ array[right] > array[max] THEN right ELSE max

RECURSIVE heapify(_, _, _)
heapify(array, i, cnt) ==
  LET max == Largest(array, i, cnt)
  IN  IF max = i THEN array ELSE heapify(do_swap(array, i, max), max, cnt)

RECURSIVE BuildHeap(_, _)
BuildHeap(array, i) ==
  IF i = 0 THEN array ELSE BuildHeap(heapify(array, i, Len(array)), i - 1)

RECURSIVE SortHeap(_, _)
SortHeap(array, i) ==
  IF i <= 1 THEN array ELSE SortHeap(heapify(do_swap(array, 1, i), 1, i - 1), i - 1)

sort(array) == SortHeap(BuildHeap(array, Len(array) \div 2), Len(array))

\* binary_search between the positions first and last (exclusive); 0 is null.
RECURSIVE SearchBetween(_, _, _, _)
SearchBetween(key, array, first, last) ==
  LET middle == first + (last - first) \div 2 IN
  IF first >= last THEN 0
  ELSE IF key < array[middle] THEN SearchBetween(key, array, first, middle)
  ELSE IF key > array[middle] THEN SearchBetween(key, array, middle + 1, last)
  ELSE middle

binary_search(key, array) == SearchBetween(key, array, 1, Len(array) + 1)

(***************************************************************************)
(* atoi.  A character is a string of length one.                           *)
(***************************************************************************)
\* An integer reduced to two's complement of the given width.
Wrap(n, bits) == ((n + 2^(bits - 1)) % 2^bits) - 2^(bits - 1)

Decimal == <<"0", "1", "2", "3", "4", "5", "6", "7", "8", "9">>
isdigit(c) == \E i \in 1 .. 10 : Decimal[i] = c
DigitValue(c) == (CHOOSE i \in 1 .. 10 : Decimal[i] = c) - 1

RECURSIVE Digits(_, _)
Digits(s, value) ==
  IF s = <<>> \/ ~isdigit(Head(s)) THEN value
  ELSE Digits(Tail(s), Wrap(value * 10 - DigitValue(Head(s)), IntBits))

RECURSIVE SkipBlanks(_)
SkipBlanks(s) == IF s # <<>> /\ Head(s) = " " THEN SkipBlanks(Tail(s)) ELSE s

\* Digits accumulate as a negative number, whose range is the larger one.
atoi(s) ==
  LET t == SkipBlanks(s)
      signed == t # <<>> /\ Head(t) \in {"+", "-"}
      value == Digits(IF signed THEN Tail(t) ELSE t, 0)
  IN  IF signed /\ Head(t) = "-" THEN value ELSE Wrap(-value, IntBits)

(***************************************************************************)
(* Division of double words.                                               *)
(***************************************************************************)
Word == 2^W
DoubleWord == Word * Word
DivideError == -1

\* The instruction traps if the quotient does not fit in a word.
divl(n, d) == IF d = 0 \/ n \div d >= Word THEN DivideError ELSE n \div d

\* nlz by halves: is the upper half of the k highest bits zero?
RECURSIVE nlz(_, _)
nlz(x, k) ==
  IF k = 0 THEN 0
  ELSE IF x < 2^(W - k) THEN k + nlz((x * 2^k) % Word, k \div 2) ELSE nlz(x, k \div 2)

\* Mutation: the estimate is not corrected.
Corrected_Not(n, d, q) == q

\* The estimate of the quotient may be one too large.
Corrected(n, d, q) == IF (n - (q - 1) * d) % DoubleWord < d THEN q - 1 ELSE q

udiv64(n, d) ==
  LET n1 == n \div Word
      short == divl(Word * (n1 % d) + (n % Word), d)
      s == nlz(d \div Word, W \div 2)
      long == divl(n \div 2, ((d * 2^s) % DoubleWord) \div Word)
  IN  IF d < Word
      THEN IF short = DivideError THEN DivideError ELSE short + Word * (n1 \div d)
      ELSE IF n < d THEN 0
      ELSE IF long = DivideError THEN DivideError
      ELSE Corrected(n, d, long \div 2^(W - 1 - s))

\* umod64 returns a single word.
umod64(n, d) == ((n - d * udiv64(n, d)) % DoubleWord) % Word

Abs(n) == IF n >= 0 THEN n ELSE -n
sdiv64(n, d) ==
  LET q_abs == udiv64(Abs(n), Abs(d))
  IN  Wrap(IF (n < 0) = (d < 0) THEN q_abs ELSE -q_abs, 2 * W)

smod64(n, d) == Wrap(n - d * sdiv64(n, d), W)
=============================================================================
