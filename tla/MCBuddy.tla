------------------------------ MODULE MCBuddy ------------------------------
(* Small memories for TLC. *)
EXTENDS Buddy

MCSize == [k \in 0 .. BUDDY_MAX_ORDER |-> 2 ^ k]

\* Page 0 (IVT, BIOS data) is never freed, as in page_init().
MCBootAllButZero == [i \in 1 .. NPages - 1 |-> i]

\* Pages 0 and 3 (a kernel page) are reserved: two separate free regions.
MCBootWithHole == <<1, 2, 4, 5, 6, 7>>
=============================================================================
