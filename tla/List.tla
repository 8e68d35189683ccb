------------------------------- MODULE List -------------------------------
(***************************************************************************)
(* The doubly linked lists of lib/list.c, pointer by pointer.  A struct    *)
(* list is a cell with a next and a prev; it serves as the head of a list  *)
(* or as the node embedded in a struct page_info.  A list is the ring of   *)
(* cells through its head, and a cell in no list is a ring of its own.     *)
(* The pointers are written one after the other, as the statements of the  *)
(* code are, because the cells they are read from may be the same.         *)
(***************************************************************************)
EXTENDS Naturals, FiniteSets, SequencesExt

CONSTANTS
    Heads,    \* heads of lists, as buddy_free_list[]
    Nodes,    \* cells to be put into lists, as pages[].pp_node
    NULL      \* the null pointer

ASSUME ListAssumption ==
    /\ IsFiniteSet(Nodes)
    /\ Heads \cap Nodes = {}
    /\ NULL \notin Heads \cup Nodes

VARIABLES
    next, prev,   \* the pointers of every cell
    ret           \* result of the last list_pop() or list_pop_tail()

vars == <<next, prev, ret>>

Cells == Heads \cup Nodes

\* list_init() of every cell, by mem_init() and page_init().
Init ==
    /\ next = [c \in Cells |-> c]
    /\ prev = [c \in Cells |-> c]
    /\ ret = NULL

\* What callers must see to: only a cell in no list is inserted, and only next
\* to one that is in a list.
Alone(n) == next[n] = n
InList(c) == c \in Heads \/ ~ Alone(c)

-----------------------------------------------------------------------------
(* Faults a programmer could have made, one per operator: no action uses     *)
(* them, they take the place of the definition their name begins with.       *)

\* after->next written before after->next->prev is.
ListInsertAfterSwapped(after, new) ==
    /\ InList(after) /\ Alone(new)
    /\ LET next1 == [next EXCEPT ![new] = next[after]]
           prev1 == [prev EXCEPT ![new] = after]
           next2 == [next1 EXCEPT ![after] = new]
       IN  /\ next' = next2
           /\ prev' = [prev1 EXCEPT ![next2[after]] = new]
    /\ UNCHANGED ret

\* The node's own pointers left as they were.
UnlinkStale(node) ==
    LET next1 == [next EXCEPT ![prev[node]] = next[node]]
    IN  /\ next' = next1
        /\ prev' = [prev EXCEPT ![next1[node]] = prev[node]]

\* No test for the empty list.
ListPopUnchecked(head) ==
    /\ next' = [next EXCEPT ![prev[prev[head]]] = head, ![prev[head]] = prev[head]]
    /\ prev' = [prev EXCEPT ![head] = prev[prev[head]], ![prev[head]] = prev[head]]
    /\ ret' = prev[head]

-----------------------------------------------------------------------------
(* The operations *)

ListInsertAfter(after, new) ==
    /\ InList(after) /\ Alone(new)
    /\ LET next1 == [next EXCEPT ![new] = next[after]]
           prev1 == [prev EXCEPT ![new] = after]
       IN  /\ prev' = [prev1 EXCEPT ![next1[after]] = new]
           /\ next' = [next1 EXCEPT ![after] = new]
    /\ UNCHANGED ret

ListInsertBefore(before, new) ==
    /\ InList(before) /\ Alone(new)
    /\ LET next1 == [next EXCEPT ![new] = before]
           prev1 == [prev EXCEPT ![new] = prev[before]]
       IN  /\ next' = [next1 EXCEPT ![prev1[before]] = new]
           /\ prev' = [prev1 EXCEPT ![before] = new]
    /\ UNCHANGED ret

\* The two writes past the node, then list_init() of the node.
Unlink(node) ==
    LET next1 == [next EXCEPT ![prev[node]] = next[node]]
        prev1 == [prev EXCEPT ![next1[node]] = prev[node]]
    IN  /\ next' = [next1 EXCEPT ![node] = node]
        /\ prev' = [prev1 EXCEPT ![node] = node]

\* buddy_merge() deletes the page it is called with, which is in no list.
ListDel(node) == Unlink(node) /\ UNCHANGED ret

\* Two faults, as above: list_add_tail() that adds in front, and list_pop_tail()
\* that returns the node at the other end of the one it took.
ListAddTailFirst(head, new) == ListInsertAfter(head, new)
ListPopTailSwapped(head) ==
    IF next[head] = head THEN ret' = NULL /\ UNCHANGED <<next, prev>>
    ELSE Unlink(next[head]) /\ ret' = prev[head]

\* list_add() and list_add_tail() are list_insert_after() and
\* list_insert_before() of the head.
ListAdd(head, new) == ListInsertAfter(head, new)
ListAddTail(head, new) == ListInsertBefore(head, new)

ListPop(head) ==
    IF prev[head] = head THEN ret' = NULL /\ UNCHANGED <<next, prev>>
    ELSE Unlink(prev[head]) /\ ret' = prev[head]

ListPopTail(head) ==
    IF next[head] = head THEN ret' = NULL /\ UNCHANGED <<next, prev>>
    ELSE Unlink(next[head]) /\ ret' = next[head]

Next ==
    \/ \E h \in Heads :
          \/ ListPop(h)
          \/ ListPopTail(h)
          \/ \E n \in Nodes : ListAdd(h, n) \/ ListAddTail(h, n)
    \/ \E n \in Nodes :
          \/ ListDel(n)
          \/ \E c \in Nodes \ {n} :
                ListInsertAfter(c, n) \/ ListInsertBefore(c, n)

Spec == Init /\ [][Next]_vars

-----------------------------------------------------------------------------
(* Properties *)

TypeOK ==
    /\ next \in [Cells -> Cells]
    /\ prev \in [Cells -> Cells]
    /\ ret \in Nodes \cup {NULL}

\* Following next and then prev, or prev and then next, leads back: without
\* it a list read backwards is not the list read forwards.
LinksMatch == \A c \in Cells : prev[next[c]] = c /\ next[prev[c]] = c

\* s is the list of head: its nodes are met, once each, on the way from the
\* head back to it, whichever way one goes.
IsListOf(head, s) ==
    LET ring == <<head>> \o s \o <<head>>
    IN  \A i \in 1 .. Len(s) + 1 :
            next[ring[i]] = ring[i + 1] /\ prev[ring[i + 1]] = ring[i]

Arrangements ==
    {s \in SeqOf(Nodes, Cardinality(Nodes)) : IsInjective(s)}

\* The list as list_foreach() runs through it.
Contents(head) == CHOOSE s \in Arrangements : IsListOf(head, s)

\* Every head has a list, no node is in two of them, and a node in none points
\* to itself: no ring of nodes is ever cut off from its head, and list_del()
\* and list_is_empty() of a page in no list are safe.
EveryCellPlaced ==
    /\ \A h \in Heads : \E s \in Arrangements : IsListOf(h, s)
    /\ \A n \in Nodes :
          \/ Alone(n) /\ \A h \in Heads : n \notin ToSet(Contents(h))
          \/ \E h \in Heads : \A g \in Heads : n \in ToSet(Contents(g)) <=> g = h

\* The pointers implement sequences of nodes.
Seqs == INSTANCE SeqLists WITH lists <- [h \in Heads |-> Contents(h)]
ImplementsSeqLists == Seqs!SeqSpec

\* Moreover each function does what is promised of it, not of another one: after
\* list_add_tail() the node is the last of the list it was added to and all
\* others are as before, list_del() takes no node but its own out, and so on.
AsPromised ==
    /\ \A h \in Heads :
          /\ ListPop(h) => Seqs!Pop(h)
          /\ ListPopTail(h) => Seqs!PopTail(h)
    /\ \A n \in Nodes :
          /\ ListDel(n) => Seqs!Del(n)
          /\ \A h \in Heads :
                /\ ListAdd(h, n) => Seqs!InsertAfter(h, n)
                /\ ListAddTail(h, n) => Seqs!InsertBefore(h, n)
          /\ \A c \in Nodes \ {n} :
                /\ ListInsertAfter(c, n) => Seqs!InsertAfter(c, n)
                /\ ListInsertBefore(c, n) => Seqs!InsertBefore(c, n)

\* Every call does what is promised of it.
EachCallAsPromised == [][AsPromised]_vars
=============================================================================
