----------------------------- MODULE MCLibrary -----------------------------
(***************************************************************************)
(* Instances of List, Hash, Library and Memory for TLC.  A behaviour is    *)
(* one of lists, one of a hash table, a call of a library function, or one *)
(* of the memory allocators.                                               *)
(***************************************************************************)
EXTENDS List, Hash, Library, Memory

CONSTANTS e1, e2, e3, e4, e5

VARIABLE part

vars == <<listVars, hashVars, libVars, memoryVars, part>>

\* e1 and e5 have the same key; the hashes of e1 and e3 agree in their lowest
\* bit, those of e1 and e4 in the two lowest.
MCKeyOf == (e1 :> 1) @@ (e2 :> 2) @@ (e3 :> 3) @@ (e4 :> 4) @@ (e5 :> 1)
MCHashOf == (1 :> 1) @@ (2 :> 6) @@ (3 :> 3) @@ (4 :> 5)

Idle == call = Pending /\ result = Pending

UpTo(S, n) == UNION {[1 .. k -> S] : k \in 0 .. n}

MCTexts == UpTo({1, 2}, 3)
MCArrays == UpTo(0 .. 3, 5)

\* Command lines with a word, in two letters.
MCLines == {line \in UpTo({Space, 1, 2}, 8) : \E i \in DOMAIN line : line[i] # Space}

\* Addresses and sizes around the ends of pages.
Edges == {n \in 0 .. AddressSpace - 1 : n % PGSIZE \in {0, 1, PGSIZE - 1}}

MCHeaders == [offset : {n \in Edges : n <= PGSIZE + 1}, vaddr : Edges,
              filesz : {n \in Edges : n <= 2 * PGSIZE + 1}, memsz : Edges,
              flags : {{}, {"PF_W"}}]

\* Conversions: the fields wide and digits repeat what width and precision ask
\* for, with the star's argument where there is one.
Conversion(flags, w, p, type, conv, arg) ==
  [flags |-> flags, width |-> w[1], wide |-> Abs(w[2]), precision |-> p[1],
   digits |-> IF p[2] < 0 THEN 1 ELSE p[2], type |-> type, conv |-> conv,
   args |-> (IF w[1] = <<"*">> THEN <<w[2]>> ELSE <<>>)
              \o (IF p[1] = <<".", "*">> THEN <<p[2]>> ELSE <<>>) \o <<arg>>]

Widths == {<<<<>>, 0>>, <<<<"6">>, 6>>, <<<<"*">>, -6>>}
Precisions ==
  {<<<<>>, -1>>, <<<<".">>, 0>>, <<<<".", "4">>, 4>>, <<<<".", "*">>, 20>>}

MCFormats ==
  {Conversion(flags, w, p, type, conv, n) :
     flags \in {<<>>, <<"-">>, <<"0">>, <<"+">>, <<" ">>, <<"#">>, <<"'">>,
                <<"-", "0">>, <<"+", " ">>, <<"#", "0">>, <<"'", "0">>},
     w \in Widths, p \in Precisions, type \in {<<>>, <<"h", "h">>},
     conv \in {"d", "u", "o", "x"}, n \in {-130, -1, 0, 8, 1234567}}
  \cup
  {Conversion(flags, w, p, <<>>, "s", string) :
     flags \in {<<>>, <<"-">>}, w \in Widths, p \in Precisions,
     string \in {<<>>, <<"a", "b", "c", "d", "e">>, NullString}}

\* Elements differ only by their values, so any order of the values will do.
Init ==
  /\ HashInit /\ ListInit /\ MemoryInit
  /\ \/ /\ part = "list" /\ Idle
        /\ value[e1] <= value[e2] /\ value[e2] <= value[e3] /\ value[e3] <= value[e4]
     \/ /\ value = [e \in Elem |-> 1]
        /\ \/ part \in {"hash", "memory"} /\ Idle
           \/ part = "call" /\ LibInit

Lists == part = "list" /\ ListNext /\ UNCHANGED <<hashVars, libVars, memoryVars, part>>
HashTable == part = "hash" /\ HashSteps /\ UNCHANGED <<listVars, libVars, memoryVars, part>>
Function == part = "call" /\ Return /\ UNCHANGED <<listVars, hashVars, memoryVars, part>>
Allocators ==
  part = "memory" /\ MemoryNext /\ UNCHANGED <<listVars, hashVars, libVars, part>>

\* A behaviour of a function ends when it has returned.
Returned == part = "call" /\ result # Pending /\ UNCHANGED vars

Next == Lists \/ HashTable \/ Function \/ Allocators \/ Returned

Spec == Init /\ [][Next]_vars
=============================================================================
