-------------------------------- MODULE MCVM --------------------------------
(***************************************************************************)
(* Instances of VM for TLC: a process alone with too few frames or with    *)
(* enough, and two processes that share two frames.                        *)
(***************************************************************************)
EXTENDS VM

CONSTANTS p1, p2, data

MCMachine ==
  [proc : {{p1}}, page : {Page}, frames : {2, 5}, entries : {2}]
    \cup [proc : {{p1, p2}}, page : {{Stack, data}}, frames : {2}, entries : {0}]
=============================================================================
