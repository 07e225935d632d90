------------------------------- MODULE Mutex -------------------------------
(***************************************************************************)
(* What a struct lock promises (the comment above lock_init in             *)
(* src/threads/synch.c): a single thread owns it at a time, and the same   *)
(* thread both acquires and releases it.                                   *)
(***************************************************************************)
CONSTANTS Thread, Lock, NULL

VARIABLES owner, actor   \* the owners, and the thread that takes the steps

Init == owner = [l \in Lock |-> NULL] /\ actor \in Thread

Acquire(l) ==
  /\ owner[l] = NULL
  /\ owner' = [owner EXCEPT ![l] = actor]
  /\ UNCHANGED actor

Release(l) ==
  /\ owner[l] = actor
  /\ owner' = [owner EXCEPT ![l] = NULL]
  /\ UNCHANGED actor

Switch == actor' \in Thread /\ UNCHANGED owner

Next == Switch \/ \E l \in Lock : Acquire(l) \/ Release(l)

Spec == Init /\ [][Next]_<<owner, actor>>
=============================================================================
