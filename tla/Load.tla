-------------------------------- MODULE Load --------------------------------
(***************************************************************************)
(* How src/userprog/process.c prepares a program's memory: process_execute *)
(* breaks the command line into arguments, setup_stack builds the initial  *)
(* stack from them, validate_segment, load and load_segment turn a program *)
(* header into entries of the supplemental page table.                     *)
(***************************************************************************)
EXTENDS Strings

CONSTANTS
  PGSIZE,          \* bytes in a page: 4096 in the source
  PHYS_BASE,       \* end of user virtual memory
  AddressSpace,    \* number of addresses: 2^32 in the source
  ThreadSize       \* bytes of a struct thread

ASSUME LoadAssumption ==
  /\ PGSIZE \in Nat \ {0} /\ PHYS_BASE \in Nat /\ AddressSpace \in Nat
  /\ PHYS_BASE % PGSIZE = 0 /\ AddressSpace % PGSIZE = 0
  /\ PHYS_BASE < AddressSpace /\ ThreadSize \in 0 .. PGSIZE

Space == 32     \* the character code

(***************************************************************************)
(* process_execute.                                                        *)
(***************************************************************************)
\* The loop over the tokens: each is copied down to where the last one ended.
RECURSIVE Compact(_, _, _)
Compact(m, s, indexer) ==
  LET t == strtok_r(m, s, {Space})
      length == strlen(t.m, t.token)
  IN  IF t.token = NullPtr THEN [m |-> t.m, indexer |-> indexer]
      ELSE Compact(strlcpy(t.m, indexer, t.token, length + 1), t.save_ptr,
                   indexer + length + 1)

ClearRest(m, indexer) == memset(m, indexer, NUL, PGSIZE - indexer)

\* The page of arguments that the new thread is given.  A longer command line
\* is cut off by strlcpy.
ArgPage(line) ==
  LET n == Least(Len(line), PGSIZE - 1)
      copied == [i \in 0 .. PGSIZE - 1 |-> IF i < n THEN line[i + 1] ELSE NUL]
      compact == Compact(copied, 0, 0)
  IN  ClearRest(compact.m, compact.indexer)

(***************************************************************************)
(* setup_stack.  The stack page maps addresses to bytes; the first byte of *)
(* a word that holds a pointer or an integer has that as its value.        *)
(***************************************************************************)
StackPage == PHYS_BASE - PGSIZE .. PHYS_BASE - 1

\* The number of bytes before two consecutive zeros, the first one included.
RECURSIVE MaxIdx(_, _)
MaxIdx(arg_array, idx) ==
  IF idx = PGSIZE THEN idx
  ELSE IF idx > 0 /\ arg_array[idx] = NUL /\ arg_array[idx - 1] = NUL THEN idx
  ELSE MaxIdx(arg_array, idx + 1)

\* Mutation: no padding when the strings end on a word boundary.
Padding_None(max_idx) == (4 - (max_idx % 4)) % 4

\* Bytes of zeros below the strings, 1 to 4: the first one also ends the scan
\* for the first argument.
Padding(max_idx) == 4 - (max_idx % 4)

\* The scan upwards from the last argument: every zero byte precedes a string.
RECURSIVE PlaceArgv(_, _, _, _, _)
PlaceArgv(stack, idx, max_idx, my_cpp, argc) ==
  IF idx > max_idx + 1 THEN [stack |-> stack, my_cpp |-> my_cpp, argc |-> argc]
  ELSE IF stack[PHYS_BASE - idx] # NUL
  THEN PlaceArgv(stack, idx + 1, max_idx, my_cpp, argc)
  ELSE IF my_cpp \notin StackPage
  THEN [stack |-> stack, my_cpp |-> NullPtr, argc |-> argc]
  ELSE PlaceArgv([stack EXCEPT ![my_cpp] = PHYS_BASE - idx + 1], idx + 1, max_idx,
                 my_cpp - 4, argc + 1)

\* The bytes of text setup_stack accepts.
TooLong(idx) == PGSIZE - ThreadSize < idx

\* The result of setup_stack when the stack page could be installed; the page
\* holds what its frame held before.  A store below the page is a page fault,
\* whose handler takes it for stack growth or ends the process.
setup_stack(arg_array, before) ==
  LET max_idx == MaxIdx(arg_array, 0)
      base == PHYS_BASE - max_idx - Padding(max_idx)
      text == [a \in StackPage |->
                 IF a >= PHYS_BASE - max_idx THEN arg_array[a - (PHYS_BASE - max_idx)]
                 ELSE IF a >= base THEN NUL ELSE before[a]]
      argv == PlaceArgv(text, 2, max_idx, base - 8, 0)
      p == argv.my_cpp
  IN  IF TooLong(max_idx) THEN [result |-> "refused"]
      ELSE IF base \notin StackPage \/ p \notin StackPage \/ p - 4 \notin StackPage
      THEN [result |-> "fault"]
      ELSE [result |-> "done", esp |-> p - 8,
            stack |-> [argv.stack EXCEPT ![p] = p + 4, ![p - 4] = argv.argc]]

(***************************************************************************)
(* Segments.                                                               *)
(***************************************************************************)
Offset(a) == a % PGSIZE
RoundUp(a) == ((a + PGSIZE - 1) \div PGSIZE) * PGSIZE
is_user_vaddr(a) == a < PHYS_BASE

\* Mutation: the end of the segment is not tested for wrapping around.
WrapsAround_Not(vaddr, memsz) == FALSE

WrapsAround(vaddr, memsz) == (vaddr + memsz) % AddressSpace < vaddr

validate_segment(ph, file_length) ==
  /\ Offset(ph.offset) = Offset(ph.vaddr)
  /\ ph.offset <= file_length
  /\ ph.memsz >= ph.filesz
  /\ ph.memsz # 0
  /\ is_user_vaddr(ph.vaddr)
  /\ is_user_vaddr((ph.vaddr + ph.memsz) % AddressSpace)
  /\ ~WrapsAround(ph.vaddr, ph.memsz)
  /\ ph.vaddr >= PGSIZE

\* The loop of load_segment.
RECURSIVE Entries(_, _, _, _, _)
Entries(ofs, upage, read_bytes, zero_bytes, writable) ==
  LET page_read_bytes == Least(read_bytes, PGSIZE)
      page_zero_bytes == PGSIZE - page_read_bytes
  IN  IF read_bytes <= 0 /\ zero_bytes <= 0 THEN <<>>
      ELSE <<[vaddr |-> upage, ofs |-> ofs, read |-> page_read_bytes,
              zero |-> page_zero_bytes, writable |-> writable]>>
             \o Entries(ofs + PGSIZE, upage + PGSIZE, read_bytes - page_read_bytes,
                        zero_bytes - page_zero_bytes, writable)

\* load's case PT_LOAD: what the entries are made from.
load_segment(ph) ==
  LET page_offset == Offset(ph.vaddr)
      read_bytes == IF ph.filesz > 0 THEN page_offset + ph.filesz ELSE 0
  IN  Entries(ph.offset - Offset(ph.offset), ph.vaddr - page_offset, read_bytes,
              RoundUp(page_offset + ph.memsz) - read_bytes, "PF_W" \in ph.flags)
=============================================================================
