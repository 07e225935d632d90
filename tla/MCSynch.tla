------------------------------ MODULE MCSynch ------------------------------
(***************************************************************************)
(* Instances of Synch for TLC.                                             *)
(***************************************************************************)
EXTENDS Synch

CONSTANTS cv, lk

MCLockOf == [c \in Cond |-> lk]
=============================================================================
