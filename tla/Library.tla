------------------------------- MODULE Library -------------------------------
(***************************************************************************)
(* Calls of the C library's pure functions and of the ones that prepare a  *)
(* program's memory.  A behaviour is one call: its arguments are chosen,   *)
(* then its result is what the modules Strings, Stdlib, Stdio and Load     *)
(* compute.  The properties compare the results with definitions that do   *)
(* not follow the code.                                                    *)
(***************************************************************************)
EXTENDS Load, Stdio

CONSTANTS
  Blocks,      \* sizes of the memory for memmove
  Texts,       \* strings to search in and to copy
  Sizes,       \* sizes given to strlcpy, strlcat and vsnprintf
  Arrays,      \* arrays to sort
  Lines,       \* command lines
  Headers,     \* program headers
  Formats,     \* conversions with their arguments
  FileLength   \* length of the executable

VARIABLES call, result

libVars == <<call, result>>

Pending == [f |-> "pending"]
Of(f) == call.f = f /\ result # Pending

(***************************************************************************)
(* The memories the calls are made in.                                     *)
(***************************************************************************)
\* A block whose bytes are all different.
Ruler(n) == [i \in 0 .. n - 1 |-> i]

\* Two strings, one behind the other.
SecondAt(s) == Len(s) + 1
Both(s, t) == [i \in 0 .. Len(s) + Len(t) + 1 |-> (s \o <<NUL>> \o t \o <<NUL>>)[i + 1]]

\* A string in a buffer, and behind the buffer the string to be copied.
Filler == 9
Room == 1 + CHOOSE n \in Sizes : \A k \in Sizes : k <= n
InBuffer(s, t) ==
  [i \in 0 .. Room + Len(t) |->
     IF i >= Room THEN (t \o <<NUL>>)[i - Room + 1]
     ELSE IF i < Len(s) THEN s[i + 1] ELSE IF i = Len(s) THEN NUL ELSE Filler]

\* A stack page in a frame that was never used, or was used by a process that
\* has ended: palloc_free_page fills it.
FreedByte == 204
Before(fresh) == [a \in StackPage |-> IF fresh THEN NUL ELSE FreedByte]

(***************************************************************************)
(* The calls.                                                              *)
(***************************************************************************)
Move ==
  /\ call.f = "memmove"
  /\ result' = memmove(Ruler(call.n), call.dst, call.src, call.size)

Search ==
  LET m == Both(call.s, call.t)
      t == SecondAt(call.s) IN
  /\ call.f = "search"
  /\ result' = [strstr |-> strstr(m, 0, t), strcmp |-> strcmp(m, 0, t),
                strspn |-> strspn(m, 0, t), strcspn |-> strcspn(m, 0, t),
                strpbrk |-> strpbrk(m, 0, t), strchr |-> strchr(m, 0, call.ch),
                strrchr |-> strrchr(m, 0, call.ch), strlen |-> strlen(m, 0),
                memchr |-> memchr(m, 0, call.ch, Len(call.s)),
                strnlen |-> strnlen(m, 0, call.ch)]

Copy ==
  LET m == InBuffer(call.s, call.t) IN
  /\ call.f = "copy"
  /\ result' = [strlcpy |-> strlcpy(m, 0, Room, call.size),
                strlcat |-> strlcat(m, 0, Room, call.size)]

Order ==
  /\ call.f = "sort"
  /\ result' = [sorted |-> sort(call.array),
                found |-> [key \in {call.array[i] : i \in DOMAIN call.array}
                                     \cup {call.absent} |->
                             binary_search(key, sort(call.array))]]

Unsigned == 0 .. DoubleWord - 1
Signed == -(DoubleWord \div 2) .. (DoubleWord \div 2) - 1

Divide ==
  /\ call.f = "divide"
  /\ result' = IF call.signed
               THEN [q |-> [n \in Signed |-> sdiv64(n, call.d)],
                     r |-> [n \in Signed |-> smod64(n, call.d)]]
               ELSE [q |-> [n \in Unsigned |-> udiv64(n, call.d)],
                     r |-> [n \in Unsigned |-> umod64(n, call.d)]]

Execute ==
  /\ call.f = "execute"
  /\ result' = setup_stack(ArgPage(call.line), Before(call.fresh))

Segment ==
  /\ call.f = "segment"
  /\ result' = [valid |-> validate_segment(call.ph, FileLength),
                entries |-> IF validate_segment(call.ph, FileLength)
                            THEN load_segment(call.ph) ELSE <<>>]

FormatOf(c) == <<"%">> \o c.flags \o c.width \o c.precision \o c.type \o <<c.conv>>

Format ==
  /\ call.f = "format"
  /\ result' = [size \in Sizes |-> vsnprintf(size, FormatOf(call.c), call.c.args)]

Return ==
  /\ result = Pending
  /\ \/ Move \/ Search \/ Copy \/ Order \/ Divide \/ Execute \/ Segment \/ Format
  /\ UNCHANGED call

-----------------------------------------------------------------------------
Call(c) == call = c /\ result = Pending

LibInit ==
  \/ \E n \in Blocks : \E dst, src, size \in 0 .. n :
       /\ dst + size <= n /\ src + size <= n
       /\ Call([f |-> "memmove", n |-> n, dst |-> dst, src |-> src, size |-> size])
  \/ \E s, t \in Texts, ch \in 0 .. 2 :
       Call([f |-> "search", s |-> s, t |-> t, ch |-> ch])
  \/ \E s, t \in Texts, size \in Sizes :
       Call([f |-> "copy", s |-> s, t |-> t, size |-> size])
  \/ \E array \in Arrays, absent \in 0 .. 3 :
       Call([f |-> "sort", array |-> array, absent |-> absent])
  \/ \E d \in Unsigned \ {0} : Call([f |-> "divide", signed |-> FALSE, d |-> d])
  \/ \E d \in Signed \ {0} : Call([f |-> "divide", signed |-> TRUE, d |-> d])
  \/ \E line \in Lines, fresh \in BOOLEAN :
       Call([f |-> "execute", line |-> line, fresh |-> fresh])
  \/ \E ph \in Headers : Call([f |-> "segment", ph |-> ph])
  \/ \E c \in Formats : Call([f |-> "format", c |-> c])

(***************************************************************************)
(* Properties.                                                             *)
(***************************************************************************)
First(S) == IF S = {} THEN NullPtr ELSE CHOOSE i \in S : \A j \in S : i <= j
Last1(S) == IF S = {} THEN NullPtr ELSE CHOOSE i \in S : \A j \in S : i >= j
Chars(s) == {s[i] : i \in DOMAIN s}

\* A copy upwards returns the end of DST, where the comment says DST.
MovesExactly(c, r) ==
  /\ \A i \in 0 .. c.n - 1 :
       r.m[i] = IF i \in c.dst .. c.dst + c.size - 1 THEN c.src + (i - c.dst) ELSE i
  /\ r.result = IF c.dst < c.src THEN c.dst + c.size ELSE c.dst

\* The sign of the first difference between two sequences.
Compared(s, t) ==
  LET At0(u, i) == IF i \in DOMAIN u THEN u[i] ELSE NUL
      d == First({i \in 1 .. Len(s) + Len(t) : At0(s, i) # At0(t, i)})
  IN  IF d = NullPtr THEN 0 ELSE IF At0(s, d) < At0(t, d) THEN -1 ELSE 1

SearchesExactly(c, r) ==
  LET in == {i \in DOMAIN c.s : c.s[i] \in Chars(c.t)}
      out == DOMAIN c.s \ in
      Place(i) == IF i = NullPtr THEN NullPtr ELSE i - 1
      Length(i) == IF i = NullPtr THEN Len(c.s) ELSE i - 1
      hits == {i \in DOMAIN c.s : c.s[i] = c.ch} IN
  /\ r.strlen = Len(c.s) /\ r.strcmp = Compared(c.s, c.t)
  /\ r.strstr = First({i \in 0 .. Len(c.s) - Len(c.t) :
                         SubSeq(c.s, i + 1, i + Len(c.t)) = c.t})
  /\ r.strpbrk = Place(First(in))
  /\ r.strcspn = Length(First(in)) /\ r.strspn = Length(First(out))
  /\ c.ch # NUL => /\ r.strchr = Place(First(hits)) /\ r.memchr = r.strchr
                   /\ r.strrchr = Place(Last1(hits))
  /\ c.ch = NUL => r.strchr = Len(c.s)
  /\ r.strnlen = Least(Len(c.s), c.ch)

\* The bytes behind the size given are untouched, those before it hold as much
\* of the text as fits and a terminator.
Holds(before, after, text, size) ==
  LET n == Least(Len(text), size - 1) IN
  /\ \A i \in DOMAIN after : i >= size => after[i] = before[i]
  /\ size > 0 => after[n] = NUL /\ \A i \in 1 .. n : after[i - 1] = text[i]

\* strlcat writes nothing, not even the terminator that its comment says is
\* always written, when the string already fills the size.
CopiesExactly(c, r) ==
  LET before == InBuffer(c.s, c.t) IN
  /\ Holds(before, r.strlcpy, c.t, c.size)
  /\ IF Len(c.s) < c.size THEN Holds(before, r.strlcat, c.s \o c.t, c.size)
     ELSE r.strlcat = before

\* What the functions of string.c leave in memory and find: memmove the block,
\* also for blocks that overlap either way, the searches the first or the last
\* place, also of the empty string, strlcpy and strlcat as much as fits at every
\* size of the buffer, beyond which they write nothing.  This is what their
\* comments say, but for the result of memmove and the terminator of strlcat.
StringsExact ==
  /\ Of("memmove") => MovesExactly(call, result)
  /\ Of("search") => SearchesExactly(call, result)
  /\ Of("copy") => CopiesExactly(call, result)

SortsAndFinds ==
  Of("sort") =>
    LET Count(q, v) == Cardinality({i \in DOMAIN q : q[i] = v}) IN
    /\ \A i \in 1 .. Len(call.array) - 1 : result.sorted[i] <= result.sorted[i + 1]
    /\ \A v \in Chars(call.array) : Count(result.sorted, v) = Count(call.array, v)
    /\ \A key \in DOMAIN result.found :
         IF key \in Chars(call.array) THEN result.sorted[result.found[key]] = key
         ELSE result.found[key] = 0

Truncated(n, d) == IF (n < 0) = (d < 0) THEN Abs(n) \div Abs(d)
                   ELSE -(Abs(n) \div Abs(d))

DividesExactly ==
  Of("divide") =>
    \A n \in DOMAIN result.q :
      LET q == Truncated(n, call.d)
          r == n - call.d * q IN
      /\ result.q[n] = IF call.signed THEN Wrap(q, 2 * W) ELSE q
      /\ result.r[n] = IF call.signed THEN Wrap(r, W) ELSE r % Word
      /\ Abs(call.d) <= (IF call.signed THEN Word \div 2 ELSE Word) => result.r[n] = r

\* udiv64 and sdiv64 return the exact quotient of any two double words (the
\* most negative one divided by -1 wraps around) and their divl never traps.
\* umod64 and smod64 return one word: the remainder as long as every remainder
\* by that divisor fits in an unsigned or a signed word, and otherwise its low
\* word read as such, although their comments say the remainder.  sort leaves a
\* permutation of the array in order; binary_search finds a key in it exactly
\* when it is there.
StdlibExact == DividesExactly /\ SortsAndFinds

\* The words of a command line.
Words(line) ==
  LET starts == {i \in DOMAIN line : line[i] # Space /\ (i > 1 => line[i - 1] = Space)}
      End(i) == First({j \in i .. Len(line) + 1 : j > Len(line) \/ line[j] = Space})
      Nth(k) == CHOOSE i \in starts : Cardinality({j \in starts : j <= i}) = k
  IN  [k \in 1 .. Cardinality(starts) |-> SubSeq(line, Nth(k), End(Nth(k)) - 1)]

\* The string at p.
RECURSIVE StringAt(_, _)
StringAt(m, p) == IF m[p] = NUL THEN <<>> ELSE <<m[p]>> \o StringAt(m, p + 1)

RECURSIVE Total(_)
Total(words) == IF words = <<>> THEN 0 ELSE 1 + Len(Head(words)) + Total(Tail(words))

\* A program's main is entered with the words of its command line, in order:
\* argc and argv are where the calling convention wants them, aligned, and every
\* argv[i] points to its string.  argv[argc] is whatever the frame of the stack
\* page held there: setup_stack skips the word for the null entry, and the page
\* is not the "zeroed page" of its comment when the frame was used before.
\* setup_stack refuses exactly the command lines whose text leaves no room for a
\* struct thread, and leaves the stack page exactly when text and pointers do
\* not fit in it.
ArgumentsReachMain ==
  Of("execute") =>
    LET words == Words(call.line)
        text == Total(words)
        need == text + (4 - (text % 4)) + 4 * (Len(words) + 3)
        argc == result.stack[result.esp + 4]
        argv == result.stack[result.esp + 8]
    IN  /\ result.result = IF text > PGSIZE - ThreadSize THEN "refused"
                           ELSE IF need > PGSIZE THEN "fault" ELSE "done"
        /\ result.result = "done" =>
             /\ result.esp % 4 = 0
             /\ argc = Len(words)
             /\ \A i \in DOMAIN words :
                  StringAt(result.stack, result.stack[argv + 4 * (i - 1)]) = words[i]
             /\ result.stack[argv + 4 * argc] = Before(call.fresh)[argv + 4 * argc]

\* A program header that validate_segment accepts is mapped as it says by the
\* entries of load_segment: exactly the pages it touches, all of them user
\* pages and none of them page 0, writable exactly when the header says so, every
\* byte of the file's part at its offset and zeros behind it, also for segments
\* that start and end within a page.
SegmentsExact ==
  Of("segment") /\ result.valid =>
    LET ph == call.ph
        byte == ph.vaddr .. ph.vaddr + ph.memsz - 1
        entry == {result.entries[i] : i \in DOMAIN result.entries}
        In(x, e) == x \in e.vaddr .. e.vaddr + PGSIZE - 1 IN
    /\ Len(result.entries) = Cardinality({x \div PGSIZE : x \in byte})
    /\ \A e \in entry : /\ e.vaddr % PGSIZE = 0 /\ e.ofs % PGSIZE = 0
                         /\ e.vaddr >= PGSIZE /\ e.vaddr + PGSIZE <= PHYS_BASE
                         /\ e.read + e.zero = PGSIZE
                         /\ e.writable <=> "PF_W" \in ph.flags
    /\ \A x \in byte : \E e \in entry :
         /\ In(x, e)
         /\ IF x < ph.vaddr + ph.filesz
            THEN /\ x - e.vaddr < e.read
                 /\ e.ofs + (x - e.vaddr) = ph.offset + (x - ph.vaddr)
            ELSE x - e.vaddr >= e.read

\* What a sequence of digits with separators denotes.
RECURSIVE Denotes(_, _)
Denotes(digits, base) ==
  IF digits = <<>> THEN 0
  ELSE LET d == digits[Len(digits)]
           rest == SubSeq(digits, 1, Len(digits) - 1)
       IN  IF d = "," THEN Denotes(rest, base)
           ELSE Denotes(rest, base) * base
                  + (CHOOSE i \in 1 .. 16 : DigitSet("x")[i] = d) - 1

FlagsOf(c) == {Flags[c.flags[i]] : i \in DOMAIN c.flags}
Star(q) == q # <<>> /\ q[Len(q)] = "*"
IsNumber(c) == c.conv \in {"d", "u", "o", "x"}

\* The field of one integer conversion, in which c asks for at least width
\* characters and precision digits, separators counted as digits.
FieldExact(c, out, width, precision, value) ==
  LET pads == {i \in DOMAIN out : out[i] = " "}
      bare == SelectSeq(out, LAMBDA ch : ch # " ")
      signed == bare # <<>> /\ bare[1] \in {"+", "-"}
      number == IF signed THEN Tail(bare) ELSE bare
      digits == IF Len(number) > 1 /\ number[2] = "x" THEN SubSeq(number, 3, Len(number))
                ELSE number
      sign == IF "SPACE" \in FlagsOf(c) /\ "PLUS" \notin FlagsOf(c)
                 /\ c.conv = "d" /\ value >= 0 THEN 1 ELSE 0 IN
  /\ Denotes(digits, Base[c.conv]) = Abs(value)
  /\ signed /\ bare[1] = "-" <=> value < 0
  /\ Len(out) >= width
  /\ Len(out) > width => Cardinality(pads) = sign
  /\ Len(digits) >= Least(precision, BufSize - 1)
  /\ Len(DigitBuffer(Abs(value), [flags |-> FlagsOf(c), precision |-> precision], c.conv))
       <= BufSize
  /\ \A i \in DOMAIN digits : digits[i] = "," =>
       (Len(digits) - i) % (Group(Base[c.conv]) + 1) = Group(Base[c.conv])

\* The field of a string conversion: the first digits characters, on the left
\* or on the right.
StringFieldExact(c, out, argument) ==
  LET string == TextOf(argument)
      shown == IF c.precision = <<>> THEN Len(string) ELSE Least(c.digits, Len(string))
      left == "MINUS" \in FlagsOf(c) \/ (Star(c.width) /\ c.args[1] < 0)
      from == IF left THEN 0 ELSE Len(out) - shown IN
  /\ Len(out) = Greatest(c.wide, shown)
  /\ \A i \in DOMAIN out :
       out[i] = IF i - from \in 1 .. shown THEN string[i - from] ELSE " "

\* vsnprintf stores as much of the output as fits, and a terminator, and
\* returns the length of the whole output.  An integer conversion produces a
\* numeral of the argument's value as its type reads it, padded exactly to the
\* width, with separators between full groups and as many digits and separators
\* together as the precision asks for, and stays within its buffer: with the
\* flag ' the zeros are fewer than the comment's "enough zeros to match
\* precision".  A string conversion produces the characters the precision
\* allows, on the side the flags say; atoi reads back what "%d" printed.  Left
\* out is a negative width from an argument together with the flag 0, for which
\* format_integer pads twice.
FormatsExact ==
  Of("format") =>
    LET c == call.c
        out == vprintf(FormatOf(c), c.args)
        n == c.args[Len(c.args)]
        value == IF c.conv = "d" THEN SignedArg(n, IF c.type = <<>> THEN "INT" ELSE "CHAR")
                 ELSE UnsignedArg(n, IF c.type = <<>> THEN "INT" ELSE "CHAR") IN
    /\ \A size \in Sizes :
         /\ result[size].length = Len(out)
         /\ Len(result[size].stored) = Least(size, Len(out) + 1)
         /\ size > 0 => result[size].stored[Least(size, Len(out) + 1)] = "NUL"
         /\ \A i \in 1 .. Least(size - 1, Len(out)) : result[size].stored[i] = out[i]
    /\ IsNumber(c) /\ ~(Star(c.width) /\ c.args[1] < 0 /\ "ZERO" \in FlagsOf(c)) =>
         FieldExact(c, out, c.wide, c.digits, value)
    /\ c.conv = "s" => StringFieldExact(c, out, n)
    /\ FormatOf(c) = <<"%", "d">> => atoi(out) = Wrap(n, IntBits)
=============================================================================
