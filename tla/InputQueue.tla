---------------------------- MODULE InputQueue ----------------------------
(***************************************************************************)
(* What the console promises its readers (kernel/console.c): characters    *)
(* come out in the order they were taken from the devices, none lost and   *)
(* none twice, and "no character" comes out only when none is waiting.     *)
(***************************************************************************)
EXTENDS Sequences

CONSTANTS Chars, NO

VARIABLES queue,   \* characters taken from the devices and not yet read
          c        \* what the last cons_getc() returned

queueVars == <<queue, c>>

QueueInit == queue = <<>> /\ c = NO

Put(x) == queue' = Append(queue, x) /\ UNCHANGED c

Get ==
    IF queue = <<>> THEN c' = NO /\ UNCHANGED queue
    ELSE c' = Head(queue) /\ queue' = Tail(queue)

QueueNext == (\E x \in Chars : Put(x)) \/ Get

QueueSpec == QueueInit /\ [][QueueNext]_queueVars
=============================================================================
