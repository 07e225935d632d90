------------------------------- MODULE Strings -------------------------------
(***************************************************************************)
(* The functions of src/lib/string.c.  A memory m is a function from       *)
(* addresses to bytes, a pointer is an address; a function that writes     *)
(* yields the new memory (strlcpy and strlcat also return a length, which  *)
(* is left out).  Loops are recursive, byte by byte and in the order of    *)
(* the code, because source and destination may overlap.                   *)
(***************************************************************************)
EXTENDS Integers, Sequences

NUL == 0
NullPtr == -1

RECURSIVE CopyUp(_, _, _, _)
CopyUp(m, dst, src, size) ==
  IF size = 0 THEN m
  ELSE CopyUp([m EXCEPT ![dst] = m[src]], dst + 1, src + 1, size - 1)

\* dst and src are the ends of the blocks.
RECURSIVE CopyDown(_, _, _, _)
CopyDown(m, dst, src, size) ==
  IF size = 0 THEN m
  ELSE CopyDown([m EXCEPT ![dst - 1] = m[src - 1]], dst - 1, src - 1, size - 1)

memcpy(m, dst, src, size) == CopyUp(m, dst, src, size)

\* Mutation: always upwards.
memmove_Up(m, dst, src, size) ==
  [m |-> CopyUp(m, dst, src, size), result |-> IF dst < src THEN dst + size ELSE dst]

\* What it returns is where its pointer stands at the end.
memmove(m, dst, src, size) ==
  IF dst < src THEN [m |-> CopyUp(m, dst, src, size), result |-> dst + size]
  ELSE [m |-> CopyDown(m, dst + size, src + size, size), result |-> dst]

RECURSIVE memset(_, _, _, _)
memset(m, dst, value, size) ==
  IF size = 0 THEN m ELSE memset([m EXCEPT ![dst] = value], dst + 1, value, size - 1)

RECURSIVE memcmp(_, _, _, _)
memcmp(m, a, b, size) ==
  IF size = 0 THEN 0
  ELSE IF m[a] # m[b] THEN IF m[a] > m[b] THEN 1 ELSE -1
  ELSE memcmp(m, a + 1, b + 1, size - 1)

RECURSIVE strcmp(_, _, _)
strcmp(m, a, b) ==
  IF m[a] # NUL /\ m[a] = m[b] THEN strcmp(m, a + 1, b + 1)
  ELSE IF m[a] < m[b] THEN -1 ELSE IF m[a] > m[b] THEN 1 ELSE 0

RECURSIVE memchr(_, _, _, _)
memchr(m, block, ch, size) ==
  IF size = 0 THEN NullPtr
  ELSE IF m[block] = ch THEN block ELSE memchr(m, block + 1, ch, size - 1)

RECURSIVE strchr(_, _, _)
strchr(m, string, c) ==
  IF m[string] = c THEN string
  ELSE IF m[string] = NUL THEN NullPtr ELSE strchr(m, string + 1, c)

RECURSIVE strlen(_, _)
strlen(m, string) == IF m[string] = NUL THEN 0 ELSE 1 + strlen(m, string + 1)

RECURSIVE strnlen(_, _, _)
strnlen(m, string, maxlen) ==
  IF m[string] = NUL \/ maxlen = 0 THEN 0 ELSE 1 + strnlen(m, string + 1, maxlen - 1)

OneOf(m, set, c) == strchr(m, set, c) # NullPtr

\* The length of the longest prefix of characters that are in set, or not.
RECURSIVE Prefix(_, _, _, _)
Prefix(m, string, set, inside) ==
  IF m[string] = NUL \/ OneOf(m, set, m[string]) # inside THEN 0
  ELSE 1 + Prefix(m, string + 1, set, inside)

strspn(m, string, skip) == Prefix(m, string, skip, TRUE)
strcspn(m, string, stop) == Prefix(m, string, stop, FALSE)

RECURSIVE strpbrk(_, _, _)
strpbrk(m, string, stop) ==
  IF m[string] = NUL THEN NullPtr
  ELSE IF OneOf(m, stop, m[string]) THEN string ELSE strpbrk(m, string + 1, stop)

RECURSIVE LastFrom(_, _, _, _)
LastFrom(m, string, c, p) ==
  IF m[string] = NUL THEN p
  ELSE LastFrom(m, string + 1, c, IF m[string] = c THEN string ELSE p)
strrchr(m, string, c) == LastFrom(m, string, c, NullPtr)

RECURSIVE SearchFrom(_, _, _, _, _)
SearchFrom(m, i, last, needle, needle_len) ==
  IF i > last THEN NullPtr
  ELSE IF memcmp(m, i, needle, needle_len) = 0 THEN i
  ELSE SearchFrom(m, i + 1, last, needle, needle_len)

strstr(m, haystack, needle) ==
  LET last == strlen(m, haystack) - strlen(m, needle)
  IN  IF strlen(m, haystack) >= strlen(m, needle)
      THEN SearchFrom(m, haystack, haystack + last, needle, strlen(m, needle))
      ELSE NullPtr

\* The bytes left in a buffer of the given size, the terminator's excluded.
RoomFor(size, used) == size - used - 1

Least(a, b) == IF a < b THEN a ELSE b

strlcpy(m, dst, src, size) ==
  LET cnt == Least(strlen(m, src), RoomFor(size, 0))
  IN  IF size = 0 THEN m
      ELSE [memcpy(m, dst, src, cnt) EXCEPT ![dst + cnt] = NUL]

strlcat(m, dst, src, size) ==
  LET dst_len == strlen(m, dst)
      cnt == Least(strlen(m, src), RoomFor(size, dst_len))
  IN  IF size = 0 \/ dst_len >= size THEN m
      ELSE [memcpy(m, dst + dst_len, src, cnt) EXCEPT ![dst + dst_len + cnt] = NUL]

\* strtok_r from s, which is its argument or the saved position: the token it
\* returns, the position it saves and the memory it leaves.
RECURSIVE SkipDelimiters(_, _, _)
SkipDelimiters(m, s, delimiters) ==
  IF m[s] # NUL /\ m[s] \in delimiters THEN SkipDelimiters(m, s + 1, delimiters)
  ELSE s

RECURSIVE SkipToken(_, _, _)
SkipToken(m, s, delimiters) ==
  IF m[s] = NUL \/ m[s] \in delimiters THEN s ELSE SkipToken(m, s + 1, delimiters)

strtok_r(m, s, delimiters) ==
  LET start == SkipDelimiters(m, s, delimiters)
      end == SkipToken(m, start, delimiters)
  IN  IF m[start] = NUL THEN [token |-> NullPtr, save_ptr |-> start, m |-> m]
      ELSE [token |-> start, save_ptr |-> IF m[end] = NUL THEN end ELSE end + 1,
            m |-> [m EXCEPT ![end] = NUL]]
=============================================================================
