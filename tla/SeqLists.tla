----------------------------- MODULE SeqLists -----------------------------
(***************************************************************************)
(* What lib/list.c promises: every list is a sequence of nodes, and a node *)
(* is in one list at most.  A node is inserted before or after a place,    *)
(* which is a node of a list or the list's head; before the head is the    *)
(* end of the list and after the head its beginning.                       *)
(***************************************************************************)
EXTENDS Naturals, SequencesExt

CONSTANTS Heads, Nodes, NULL

VARIABLES lists,   \* the nodes of each list, from head->next on
          ret      \* what the last list_pop() or list_pop_tail() returned

seqVars == <<lists, ret>>

Listed == UNION {ToSet(lists[h]) : h \in Heads}

SeqInit == lists = [h \in Heads |-> <<>>] /\ ret = NULL

\* n becomes the i-th node of list h.
PutAt(h, i, n) ==
    /\ n \in Nodes \ Listed
    /\ i \in 1 .. Len(lists[h]) + 1
    /\ lists' = [lists EXCEPT ![h] = InsertAt(@, i, n)]
    /\ UNCHANGED ret

InsertAfter(c, n) ==
    \E h \in Heads :
        \/ c = h /\ PutAt(h, 1, n)
        \/ \E i \in DOMAIN lists[h] : lists[h][i] = c /\ PutAt(h, i + 1, n)

InsertBefore(c, n) ==
    \E h \in Heads :
        \/ c = h /\ PutAt(h, Len(lists[h]) + 1, n)
        \/ \E i \in DOMAIN lists[h] : lists[h][i] = c /\ PutAt(h, i, n)

\* Deleting a node that is in no list changes nothing.
Del(n) ==
    /\ \/ n \notin Listed /\ UNCHANGED lists
       \/ \E h \in Heads : \E i \in DOMAIN lists[h] :
             lists[h][i] = n /\ lists' = [lists EXCEPT ![h] = RemoveAt(@, i)]
    /\ UNCHANGED ret

\* Despite their names, list_pop() takes the last node, list_pop_tail() the first.
Pop(h) ==
    IF lists[h] = <<>> THEN ret' = NULL /\ UNCHANGED lists
    ELSE /\ ret' = Last(lists[h])
         /\ lists' = [lists EXCEPT ![h] = Front(@)]

PopTail(h) ==
    IF lists[h] = <<>> THEN ret' = NULL /\ UNCHANGED lists
    ELSE /\ ret' = Head(lists[h])
         /\ lists' = [lists EXCEPT ![h] = Tail(@)]

SeqNext ==
    \/ \E n \in Nodes :
          \/ \E c \in Heads \cup Nodes : InsertAfter(c, n) \/ InsertBefore(c, n)
          \/ Del(n)
    \/ \E h \in Heads : Pop(h) \/ PopTail(h)

SeqSpec == SeqInit /\ [][SeqNext]_seqVars
=============================================================================
