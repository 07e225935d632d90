------------------------------- MODULE MCDisk -------------------------------
(***************************************************************************)
(* Instances of Disk for TLC: two disks on a channel, sector numbers modulo *)
(* 8, and images that put a partition at every boundary of the first disk. *)
(***************************************************************************)
EXTENDS Disk

CONSTANTS v1, v2

MCCapacity == <<4, 3>>

MCEntry(type, offset, size) == [type |-> type, offset |-> offset, size |-> size]

\* The disks: the given table and the rest of the first, the second without
\* partitions.
MCImage(first) == <<first, [s \in 0 .. 2 |-> v1]>>

Table(entries) == [s \in 0 .. 3 |-> IF s = 0 THEN entries ELSE v1]

\* An extended partition in sector 2 that holds a swap partition in sector 3.
MCExtended ==
  {MCImage([s \in 0 .. 3 |->
     CASE s = 0 -> <<MCEntry("filesys", 1, 1), MCEntry("extended", 2, 2)>>
       [] s = 2 -> <<MCEntry("swap", 1, 1)>>
       [] OTHER -> v1])}

\* A file system and any second partition of the first disk, or one that does
\* not fit, or an extended partition whose table is past the end.
MCImages ==
  {MCImage(Table(<<MCEntry("filesys", 1, 2), MCEntry(type, offset, size)>>)) :
     type \in {"swap", "foreign"}, offset \in {3, 4}, size \in {0, 1, 2, 5}}
    \cup {MCImage(Table(<<MCEntry("extended", 5, 1), MCEntry("swap", 3, 1)>>)),
          MCImage(Table(<<>>)), MCImage([s \in 0 .. 3 |-> v1])}
    \cup MCExtended
=============================================================================
