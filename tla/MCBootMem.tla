----------------------------- MODULE MCBootMem -----------------------------
(* Memory maps for TLC: one or two regions that start and end at bytes on,   *)
(* before and after page boundaries, below, at and above BOOT_MAP_LIM, in    *)
(* ascending order and apart from one another.                               *)
EXTENDS BootMem

CONSTANT RESERVED

MCBytes == {0, 3, 8, 25, 27, 34, 36, 40, 46, 48}

MCEntry(a, b, t) == [type |-> t, addr |-> a, len |-> b - a]

MCOneRegion ==
    {<<MCEntry(x[1], x[2], x[3])>> :
        x \in {y \in MCBytes \X MCBytes \X {FREE, RESERVED} : y[1] < y[2]}}

MCMemMaps ==
    MCOneRegion \cup
    {m \o n : <<m, n>> \in
        {y \in MCOneRegion \X MCOneRegion :
            y[1][1].addr + y[1][1].len <= y[2][1].addr}}
=============================================================================
