---------------------------- MODULE ListProofs ----------------------------
(***************************************************************************)
(* What lib/list.c guarantees, for any number of lists and nodes: of its   *)
(* pointers, and of the sequences they implement.  The inductive invariant *)
(* names the sequences: an assignment of one to each head that the         *)
(* pointers represent.  It is unique, so it is what Contents reads, and a  *)
(* call that writes four pointers inserts into or removes from one of the  *)
(* sequences.                                                              *)
(***************************************************************************)
EXTENDS List, SequenceTheorems, FiniteSetTheorems, WellFoundedInduction, TLAPS

-----------------------------------------------------------------------------
(* The pointers *)

\* The part of the inductive invariant that needs no sequences: pointers point
\* to cells and match.
PointersOK ==
    /\ next \in [Cells -> Cells]
    /\ prev \in [Cells -> Cells]
    /\ LinksMatch

\* Every ring is traversed alike in both directions, so a cell that points to
\* itself one way does so the other way too.
LEMMA AloneBothWays ==
    ASSUME PointersOK, NEW c \in Cells
    PROVE  next[c] = c <=> prev[c] = c
BY DEF PointersOK, LinksMatch

\* Inserting a cell between two neighbours.
LEMMA InsertAfterKeeps ==
    ASSUME PointersOK, NEW c \in Cells, NEW n \in Nodes, c # n,
           ListInsertAfter(c, n)
    PROVE  PointersOK'
<1> DEFINE d == next[c]
<1>1. n \in Cells /\ d \in Cells /\ prev[d] = c /\ d # n
  <2>1. next[n] = n /\ prev[n] = n
    BY AloneBothWays DEF ListInsertAfter, Alone, Cells
  <2> QED BY <2>1 DEF PointersOK, LinksMatch, Cells
<1>2. /\ next' = [next EXCEPT ![n] = d, ![c] = n]
      /\ prev' = [prev EXCEPT ![n] = c, ![d] = n]
  BY <1>1 DEF ListInsertAfter, PointersOK
<1> HIDE DEF d
<1>3. next' \in [Cells -> Cells] /\ prev' \in [Cells -> Cells]
  BY <1>1, <1>2 DEF PointersOK
<1>4. next[n] = n /\ prev[n] = n
  BY AloneBothWays DEF ListInsertAfter, Alone, Cells
<1>5. LinksMatch'
  BY <1>1, <1>2, <1>4 DEF PointersOK, LinksMatch, d
<1> QED BY <1>3, <1>5 DEF PointersOK, Cells

\* The same on the other side.
LEMMA InsertBeforeKeeps ==
    ASSUME PointersOK, NEW c \in Cells, NEW n \in Nodes, c # n,
           ListInsertBefore(c, n)
    PROVE  PointersOK'
<1> DEFINE d == prev[c]
<1>1. n \in Cells /\ d \in Cells /\ next[d] = c /\ d # n
  <2>1. next[n] = n /\ prev[n] = n
    BY AloneBothWays DEF ListInsertBefore, Alone, Cells
  <2> QED BY <2>1 DEF PointersOK, LinksMatch, Cells
<1>2. /\ next' = [next EXCEPT ![n] = c, ![d] = n]
      /\ prev' = [prev EXCEPT ![n] = d, ![c] = n]
  BY <1>1 DEF ListInsertBefore, PointersOK
<1> HIDE DEF d
<1>3. next' \in [Cells -> Cells] /\ prev' \in [Cells -> Cells]
  BY <1>1, <1>2 DEF PointersOK
<1>4. next[n] = n /\ prev[n] = n
  BY AloneBothWays DEF ListInsertBefore, Alone, Cells
<1>5. LinksMatch'
  BY <1>1, <1>2, <1>4 DEF PointersOK, LinksMatch, d
<1> QED BY <1>3, <1>5 DEF PointersOK, Cells

\* Taking a cell out, even one that is alone.
LEMMA UnlinkKeeps ==
    ASSUME PointersOK, NEW n \in Cells, Unlink(n)
    PROVE  PointersOK'
<1> DEFINE a == prev[n]
           b == next[n]
<1>1. a \in Cells /\ b \in Cells /\ next[a] = n /\ prev[b] = n
  BY DEF PointersOK, LinksMatch
<1>2. CASE a = n
  <2>1. b = n BY <1>2, AloneBothWays
  <2>2. next' = next /\ prev' = prev
    BY <1>2, <2>1 DEF Unlink, PointersOK
  <2> QED BY <2>2 DEF PointersOK, LinksMatch
<1>3. CASE a # n
  <2>1. /\ next' = [next EXCEPT ![a] = b, ![n] = n]
        /\ prev' = [prev EXCEPT ![b] = a, ![n] = n]
    BY <1>1, <1>3 DEF Unlink, PointersOK
  <2>2. b # n BY <1>3, AloneBothWays
  <2> HIDE DEF a, b
  <2>3. next' \in [Cells -> Cells] /\ prev' \in [Cells -> Cells]
    BY <1>1, <2>1 DEF PointersOK
  <2>4. LinksMatch'
    BY <1>1, <1>3, <2>1, <2>2 DEF PointersOK, LinksMatch, a, b
  <2> QED BY <2>3, <2>4 DEF PointersOK
<1> QED BY <1>2, <1>3

\* Every operation keeps the pointers as they should be.
LEMMA NextKeeps == ASSUME PointersOK, [Next]_vars PROVE PointersOK'
<1>1. ASSUME UNCHANGED <<next, prev>> PROVE PointersOK'
  BY <1>1 DEF PointersOK, LinksMatch, Cells
<1>2. ASSUME NEW h \in Heads, ListPop(h) \/ ListPopTail(h) PROVE PointersOK'
  <2>1. h \in Cells /\ prev[h] \in Cells /\ next[h] \in Cells
    BY DEF PointersOK, Cells
  <2>2. CASE Unlink(prev[h])
    <3>1. PICK n \in Cells : n = prev[h] BY <2>1
    <3>2. Unlink(n) BY <2>2, <3>1 DEF Unlink
    <3> QED BY <3>2, UnlinkKeeps
  <2>3. CASE Unlink(next[h])
    <3>1. PICK n \in Cells : n = next[h] BY <2>1
    <3>2. Unlink(n) BY <2>3, <3>1 DEF Unlink
    <3> QED BY <3>2, UnlinkKeeps
  <2> QED BY <1>1, <1>2, <2>2, <2>3 DEF ListPop, ListPopTail
<1>3. ASSUME NEW c \in Cells, NEW n \in Nodes, c # n,
             ListInsertAfter(c, n) \/ ListInsertBefore(c, n)
      PROVE  PointersOK'
  BY <1>3, InsertAfterKeeps, InsertBeforeKeeps
<1>4. ASSUME NEW h \in Heads, NEW n \in Nodes, ListAdd(h, n) \/ ListAddTail(h, n)
      PROVE  PointersOK'
  <2>1. h \in Cells /\ h # n BY ListAssumption DEF Cells
  <2> QED BY <1>4, <2>1, <1>3 DEF ListAdd, ListAddTail
<1>5. ASSUME NEW n \in Nodes, ListDel(n) PROVE PointersOK'
  <2>1. n \in Cells BY DEF Cells
  <2> QED BY <1>5, <2>1, UnlinkKeeps DEF ListDel
<1>6. ASSUME NEW n \in Nodes, NEW c \in Nodes \ {n},
             ListInsertAfter(c, n) \/ ListInsertBefore(c, n)
      PROVE  PointersOK'
  <2>1. c \in Cells /\ c # n BY DEF Cells
  <2> QED BY <1>6, <2>1, <1>3
<1>7. CASE Next BY <1>7, <1>2, <1>4, <1>5, <1>6 DEF Next
<1>8. CASE UNCHANGED vars BY <1>8, <1>1 DEF vars
<1> QED BY <1>7, <1>8

\* A list read backwards is the list read forwards, after any sequence of legal
\* calls: list_pop() and list_pop_tail(), which read prev and next, and the
\* deletions in buddy_merge() work on the same list.
THEOREM LinksAlwaysMatch == Spec => []LinksMatch
<1>1. Init => PointersOK BY DEF Init, PointersOK, LinksMatch
<1>2. PointersOK /\ [Next]_vars => PointersOK' BY NextKeeps
<1>3. PointersOK => LinksMatch BY DEF PointersOK
<1> QED BY <1>1, <1>2, <1>3, PTL DEF Spec

-----------------------------------------------------------------------------
(* Rings *)

\* The k-th cell of the ring through head h: h itself, the nodes of s, and h.
At(h, s, k) == IF k \in DOMAIN s THEN s[k] ELSE h

\* The pointers nx and pv link the cells of the ring.
Linked(nx, pv, h, s) ==
    \A k \in 0 .. Len(s) :
        nx[At(h, s, k)] = At(h, s, k + 1) /\ pv[At(h, s, k + 1)] = At(h, s, k)

\* The pointers are those of the lists L: the lists share no node, and a node in
\* none points to itself.
Represents(nx, pv, L) ==
    /\ L \in [Heads -> Arrangements]
    /\ \A h \in Heads : Linked(nx, pv, h, L[h])
    /\ \A h, g \in Heads : ToSet(L[h]) \cap ToSet(L[g]) # {} => h = g
    /\ \A n \in Nodes : (\A h \in Heads : n \notin ToSet(L[h])) => nx[n] = n

\* The inductive invariant.
ListInv ==
    /\ PointersOK
    /\ ret \in Nodes \cup {NULL}
    /\ \E L \in [Heads -> Arrangements] : Represents(next, prev, L)

LEMMA ArrangementFacts ==
    ASSUME NEW s \in Arrangements
    PROVE  /\ s \in Seq(Nodes) /\ Len(s) \in Nat /\ DOMAIN s = 1 .. Len(s)
           /\ IsInjective(s)
           /\ \A k \in 1 .. Len(s) : s[k] \in Nodes
<1>1. /\ s \in UNION {[1 .. m -> Nodes] : m \in 0 .. Cardinality(Nodes)}
      /\ IsInjective(s)
  BY DEF Arrangements, SeqOf
<1>2. Cardinality(Nodes) \in Nat
  BY ListAssumption, FS_CardinalityType
<1>3. PICK m \in 0 .. Cardinality(Nodes) : s \in [1 .. m -> Nodes]
  BY <1>1
<1>4. s \in Seq(Nodes)
  BY <1>2, <1>3
<1> QED
  BY <1>1, <1>4, LenProperties, ElementOfSeq

LEMMA IsArrangement ==
    ASSUME NEW s \in Seq(Nodes), IsInjective(s)
    PROVE  s \in Arrangements
<1>1. Len(s) \in Nat /\ s \in [1 .. Len(s) -> Nodes] /\ DOMAIN s = 1 .. Len(s)
  BY LenProperties
<1>2. s \in Injection(1 .. Len(s), Nodes)
  BY <1>1 DEF Injection, IsInjective
<1>3. Cardinality(1 .. Len(s)) <= Cardinality(Nodes)
  BY <1>2, ListAssumption, FS_Injection
<1>4. Cardinality(1 .. Len(s)) = Len(s)
  BY <1>1, FS_Interval
<1>5. Cardinality(Nodes) \in Nat
  BY ListAssumption, FS_CardinalityType
<1>6. Len(s) \in 0 .. Cardinality(Nodes)
  BY <1>1, <1>3, <1>4, <1>5
<1>7. s \in UNION {[1 .. m -> Nodes] : m \in 0 .. Cardinality(Nodes)}
  BY <1>1, <1>6
<1> QED
  BY <1>7 DEF Arrangements, SeqOf

LEMMA AtFacts ==
    ASSUME NEW h \in Heads, NEW s \in Arrangements
    PROVE  /\ At(h, s, 0) = h /\ At(h, s, Len(s) + 1) = h
           /\ \A k \in 1 .. Len(s) : At(h, s, k) = s[k] /\ At(h, s, k) \in Nodes
           /\ \A k : At(h, s, k) \in ToSet(s) \cup {h}
           /\ \A k : At(h, s, k) \in Cells
           /\ \A j, k \in 0 .. Len(s) : At(h, s, j) = At(h, s, k) => j = k
           /\ \A j, k \in 1 .. Len(s) + 1 : At(h, s, j) = At(h, s, k) => j = k
<1>1. /\ Len(s) \in Nat /\ DOMAIN s = 1 .. Len(s) /\ IsInjective(s)
      /\ \A k \in 1 .. Len(s) : s[k] \in Nodes
  BY ArrangementFacts
<1>2. h \notin Nodes
  BY ListAssumption
<1>3. At(h, s, 0) = h /\ At(h, s, Len(s) + 1) = h
  BY <1>1 DEF At
<1>4. \A k \in 1 .. Len(s) : At(h, s, k) = s[k] /\ At(h, s, k) \in Nodes
  BY <1>1 DEF At
<1>5. \A k : At(h, s, k) \in ToSet(s) \cup {h} /\ At(h, s, k) \in Cells
  BY <1>1 DEF At, ToSet, Cells
<1>6. \A j, k \in 1 .. Len(s) : At(h, s, j) = At(h, s, k) => j = k
  BY <1>1, <1>4 DEF IsInjective
<1>7. \A j, k \in 0 .. Len(s) : At(h, s, j) = At(h, s, k) => j = k
  <2>1. \A k \in 0 .. Len(s) : k = 0 \/ k \in 1 .. Len(s)
    BY <1>1
  <2> QED
    BY <1>2, <1>3, <1>4, <1>6, <2>1
<1>8. \A j, k \in 1 .. Len(s) + 1 : At(h, s, j) = At(h, s, k) => j = k
  <2>1. \A k \in 1 .. Len(s) + 1 : k = Len(s) + 1 \/ k \in 1 .. Len(s)
    BY <1>1
  <2> QED
    BY <1>2, <1>3, <1>4, <1>6, <2>1
<1> QED
  BY <1>3, <1>4, <1>5, <1>7, <1>8

\* IsListOf, which is written with the ring as one sequence, says the same.
LEMMA IsListOfLinked ==
    ASSUME NEW h \in Heads, NEW s \in Arrangements
    PROVE  /\ IsListOf(h, s) <=> Linked(next, prev, h, s)
           /\ IsListOf(h, s)' <=> Linked(next', prev', h, s)
<1> DEFINE ring == <<h>> \o s \o <<h>>
<1>1. Len(s) \in Nat /\ DOMAIN s = 1 .. Len(s) /\ s \in Seq(Cells)
  BY ArrangementFacts, SeqMonotonic DEF Cells
<1>2. ASSUME NEW k \in 0 .. Len(s) + 1
      PROVE  ring[k + 1] = At(h, s, k)
  <2>1. <<h>> \in Seq(Cells) /\ Len(<<h>>) = 1 /\ <<h>>[1] = h
    BY DEF Cells
  <2> DEFINE half == <<h>> \o s
  <2>2. /\ half \in Seq(Cells) /\ Len(half) = 1 + Len(s)
        /\ \A j \in 1 .. 1 + Len(s) : half[j] = IF j <= 1 THEN h ELSE s[j - 1]
    BY <1>1, <2>1, ConcatProperties
  <2> HIDE DEF half
  <2>3. \A j \in 1 .. Len(s) + 2 :
            (half \o <<h>>)[j] = IF j <= 1 + Len(s) THEN half[j] ELSE <<h>>[j - (1 + Len(s))]
    BY <1>1, <2>1, <2>2, ConcatProperties
  <2>4. k + 1 \in 1 .. Len(s) + 2
    BY <1>1
  <2>5. CASE k = Len(s) + 1
    BY <1>1, <2>1, <2>3, <2>4, <2>5 DEF half, At
  <2>6. CASE k \in 1 .. Len(s)
    BY <1>1, <2>2, <2>3, <2>4, <2>6 DEF half, At
  <2>7. CASE k = 0
    BY <1>1, <2>2, <2>3, <2>4, <2>7 DEF half, At
  <2> QED
    BY <1>1, <2>5, <2>6, <2>7
<1> HIDE DEF ring
<1>3. \A i \in 1 .. Len(s) + 1 : /\ i - 1 \in 0 .. Len(s)
                                 /\ ring[i] = At(h, s, i - 1)
                                 /\ ring[i + 1] = At(h, s, (i - 1) + 1)
  <2> SUFFICES ASSUME NEW i \in 1 .. Len(s) + 1
               PROVE  /\ i - 1 \in 0 .. Len(s)
                      /\ ring[i] = At(h, s, i - 1) /\ ring[i + 1] = At(h, s, (i - 1) + 1)
    OBVIOUS
  <2>1. /\ i \in Nat /\ i - 1 \in 0 .. Len(s) /\ i - 1 \in 0 .. Len(s) + 1
        /\ i \in 0 .. Len(s) + 1 /\ (i - 1) + 1 = i
    BY <1>1
  <2> QED
    BY <1>2, <2>1
<1>4. \A k \in 0 .. Len(s) : k + 1 \in 1 .. Len(s) + 1 /\ (k + 1) - 1 = k
  BY <1>1
<1>5. ASSUME NEW nx, NEW pv
      PROVE  (\A i \in 1 .. Len(s) + 1 :
                 nx[ring[i]] = ring[i + 1] /\ pv[ring[i + 1]] = ring[i])
                 <=> Linked(nx, pv, h, s)
  <2>1. ASSUME Linked(nx, pv, h, s), NEW i \in 1 .. Len(s) + 1
        PROVE  nx[ring[i]] = ring[i + 1] /\ pv[ring[i + 1]] = ring[i]
    BY <1>3, <2>1 DEF Linked
  <2>2. ASSUME NEW k \in 0 .. Len(s),
               \A i \in 1 .. Len(s) + 1 :
                   nx[ring[i]] = ring[i + 1] /\ pv[ring[i + 1]] = ring[i]
        PROVE  nx[At(h, s, k)] = At(h, s, k + 1) /\ pv[At(h, s, k + 1)] = At(h, s, k)
    <3>1. k + 1 \in 1 .. Len(s) + 1 /\ (k + 1) - 1 = k
      BY <1>4
    <3>2. ring[k + 1] = At(h, s, k) /\ ring[(k + 1) + 1] = At(h, s, k + 1)
      BY <1>3, <3>1
    <3>3. /\ nx[ring[k + 1]] = ring[(k + 1) + 1]
          /\ pv[ring[(k + 1) + 1]] = ring[k + 1]
      BY <2>2, <3>1
    <3> QED
      BY <3>2, <3>3
  <2> QED
    BY <2>1, <2>2 DEF Linked
<1>6. IsListOf(h, s) <=> \A i \in 1 .. Len(s) + 1 :
          next[ring[i]] = ring[i + 1] /\ prev[ring[i + 1]] = ring[i]
  BY DEF IsListOf, ring
<1>7. IsListOf(h, s)' <=> \A i \in 1 .. Len(s) + 1 :
          next'[ring[i]] = ring[i + 1] /\ prev'[ring[i + 1]] = ring[i]
  BY DEF IsListOf, ring
<1> QED
  BY <1>5, <1>6, <1>7
-----------------------------------------------------------------------------
(* The sequences are what the pointers say *)

\* Two rings through a head agree as far as both go: at the first cell in which
\* they did not, the cell before would point to both.
LEMMA SameCells ==
    ASSUME NEW nx, NEW pv, NEW h \in Heads, NEW s \in Arrangements, NEW t \in Arrangements,
           Linked(nx, pv, h, s), Linked(nx, pv, h, t), Len(s) <= Len(t)
    PROVE  s = t
<1>1. /\ Len(s) \in Nat /\ s \in Seq(Nodes) /\ Len(t) \in Nat /\ t \in Seq(Nodes)
      /\ \A k \in 1 .. Len(t) : t[k] \in Nodes
  BY ArrangementFacts
<1>2. \A k \in 0 .. Len(s) + 1 : At(h, s, k) = At(h, t, k)
  <2> DEFINE T == {k \in 0 .. Len(s) + 1 : At(h, s, k) # At(h, t, k)}
  <2>1. SUFFICES ASSUME T # {}
                 PROVE  FALSE
    OBVIOUS
  <2>2. T \subseteq Nat
    BY <1>1
  <2>3. PICK k \in T : \A j \in T : ~ (<<j, k>> \in OpToRel(<, Nat))
    <3> HIDE DEF T
    <3> QED
      BY <2>1, <2>2, NatLessThanWellFounded, WFMin
  <2>4. \A j \in T : ~ (j < k)
    BY <2>2, <2>3 DEF OpToRel
  <2>5. k # 0
    BY AtFacts
  <2>6. /\ k \in Nat /\ k - 1 \in 0 .. Len(s) /\ k - 1 \in 0 .. Len(t)
        /\ (k - 1) + 1 = k /\ k - 1 < k
    BY <1>1, <2>5
  <2>7. At(h, s, k - 1) = At(h, t, k - 1)
    BY <1>1, <2>4, <2>6
  <2>8. nx[At(h, s, k - 1)] = At(h, s, (k - 1) + 1)
    BY <2>6 DEF Linked
  <2>9. nx[At(h, t, k - 1)] = At(h, t, (k - 1) + 1)
    BY <2>6 DEF Linked
  <2> QED
    BY <2>6, <2>7, <2>8, <2>9
<1>3. Len(s) = Len(t)
  <2>1. SUFFICES ASSUME Len(s) < Len(t)
                 PROVE  FALSE
    BY <1>1
  <2>2. Len(s) + 1 \in 1 .. Len(t) /\ Len(s) + 1 \in 0 .. Len(s) + 1
    BY <1>1, <2>1
  <2>3. At(h, s, Len(s) + 1) = h /\ At(h, t, Len(s) + 1) \in Nodes
    BY <2>2, AtFacts
  <2> QED
    BY <1>2, <2>2, <2>3, ListAssumption
<1>4. \A k \in 1 .. Len(s) : s[k] = t[k]
  <2> SUFFICES ASSUME NEW k \in 1 .. Len(s)
               PROVE  s[k] = t[k]
    OBVIOUS
  <2>1. k \in 0 .. Len(s) + 1 /\ k \in 1 .. Len(t)
    BY <1>1, <1>3
  <2> QED
    BY <1>2, <2>1, AtFacts
<1> QED
  BY <1>1, <1>3, <1>4, SeqEqual

LEMMA OneSequence ==
    ASSUME NEW nx, NEW pv, NEW h \in Heads, NEW s \in Arrangements, NEW t \in Arrangements,
           Linked(nx, pv, h, s), Linked(nx, pv, h, t)
    PROVE  s = t
<1>1. Len(s) \in Nat /\ Len(t) \in Nat
  BY ArrangementFacts
<1>2. CASE Len(s) <= Len(t)
  BY <1>2, SameCells
<1>3. CASE Len(t) <= Len(s)
  BY <1>3, SameCells
<1> QED
  BY <1>1, <1>2, <1>3

LEMMA ContentsAre ==
    ASSUME NEW L, Represents(next, prev, L)
    PROVE  /\ \A h \in Heads : Contents(h) = L[h]
           /\ [h \in Heads |-> Contents(h)] = L
<1>1. ASSUME NEW h \in Heads
      PROVE  Contents(h) = L[h]
  <2>1. L[h] \in Arrangements /\ Linked(next, prev, h, L[h])
    BY DEF Represents
  <2>2. \A s \in Arrangements : IsListOf(h, s) <=> s = L[h]
    BY <2>1, IsListOfLinked, OneSequence
  <2> QED
    BY <2>1, <2>2 DEF Contents
<1> QED
  BY <1>1 DEF Represents

LEMMA ContentsWillBe ==
    ASSUME NEW L, Represents(next', prev', L)
    PROVE  [h \in Heads |-> Contents(h)]' = L
<1>1. ASSUME NEW h \in Heads
      PROVE  Contents(h)' = L[h]
  <2>1. L[h] \in Arrangements /\ Linked(next', prev', h, L[h])
    BY DEF Represents
  <2>2. \A s \in Arrangements : IsListOf(h, s)' <=> s = L[h]
    BY <2>1, IsListOfLinked, OneSequence
  <2>3. Contents(h)' = CHOOSE s \in Arrangements : IsListOf(h, s)'
    BY DEF Contents
  <2> QED
    BY <2>1, <2>2, <2>3
<1> QED
  BY <1>1 DEF Represents

-----------------------------------------------------------------------------
(* Inserting *)

LEMMA Inserted ==
    ASSUME NEW s \in Arrangements, NEW i \in 1 .. Len(s) + 1,
           NEW n \in Nodes, n \notin ToSet(s)
    PROVE  LET t == InsertAt(s, i, n)
           IN  /\ t \in Arrangements /\ Len(t) = Len(s) + 1
               /\ ToSet(t) = ToSet(s) \cup {n}
               /\ \A h : \A k \in 0 .. Len(s) + 2 :
                      At(h, t, k) = IF k < i THEN At(h, s, k)
                                    ELSE IF k = i THEN n ELSE At(h, s, k - 1)
<1> DEFINE t == InsertAt(s, i, n)
           a == SubSeq(s, 1, i - 1)
           b == SubSeq(s, i, Len(s))
<1>1. /\ s \in Seq(Nodes) /\ Len(s) \in Nat /\ DOMAIN s = 1 .. Len(s)
      /\ IsInjective(s) /\ i \in Nat /\ i >= 1 /\ i <= Len(s) + 1
      /\ \A k \in 1 .. Len(s) : s[k] \in Nodes
  BY ArrangementFacts
<1>2. /\ a \in Seq(Nodes) /\ Len(a) = i - 1
      /\ \A k \in 1 .. i - 1 : a[k] = s[k]
  <2>1. \A k \in 1 .. i - 1 : s[k] \in Nodes
    BY <1>1
  <2>2. i - 1 \in Int /\ 1 \in Int
    BY <1>1
  <2> QED
    BY <1>1, <2>1, <2>2, SubSeqProperties
<1>3. /\ b \in Seq(Nodes) /\ Len(b) = Len(s) - i + 1
      /\ \A k \in 1 .. Len(s) - i + 1 : b[k] = s[i + k - 1]
  <2>1. \A k \in i .. Len(s) : s[k] \in Nodes
    BY <1>1
  <2> QED
    BY <1>1, <2>1, SubSeqProperties
<1>4. t = a \o <<n>> \o b
  BY DEF InsertAt
<1> HIDE DEF a, b, t
<1>5. <<n>> \in Seq(Nodes) /\ Len(<<n>>) = 1 /\ <<n>>[1] = n
  OBVIOUS
<1>6. /\ a \o <<n>> \in Seq(Nodes) /\ Len(a \o <<n>>) = i
      /\ \A k \in 1 .. i : (a \o <<n>>)[k] = IF k <= i - 1 THEN s[k] ELSE n
  <2>1. /\ a \o <<n>> \in Seq(Nodes) /\ Len(a \o <<n>>) = Len(a) + Len(<<n>>)
        /\ \A k \in 1 .. Len(a) + Len(<<n>>) : (a \o <<n>>)[k] =
               IF k <= Len(a) THEN a[k] ELSE <<n>>[k - Len(a)]
    BY <1>2, <1>5, ConcatProperties
  <2> QED
    BY <1>1, <1>2, <1>5, <2>1
<1> DEFINE c == a \o <<n>>
<1> HIDE DEF c
<1>7. /\ t \in Seq(Nodes) /\ Len(t) = Len(s) + 1
      /\ \A k \in 1 .. Len(s) + 1 :
             t[k] = IF k < i THEN s[k] ELSE IF k = i THEN n ELSE s[k - 1]
  <2>0. t = c \o b /\ c \in Seq(Nodes) /\ Len(c) = i
    BY <1>4, <1>6 DEF c
  <2>1. /\ t \in Seq(Nodes) /\ Len(t) = Len(c) + Len(b)
        /\ \A k \in 1 .. Len(c) + Len(b) : t[k] =
               IF k <= Len(c) THEN c[k] ELSE b[k - Len(c)]
    BY <1>3, <2>0, ConcatProperties
  <2>2. Len(t) = Len(s) + 1
    BY <1>1, <1>3, <2>0, <2>1
  <2>3. ASSUME NEW k \in 1 .. Len(s) + 1
        PROVE  t[k] = IF k < i THEN s[k] ELSE IF k = i THEN n ELSE s[k - 1]
    <3>1. CASE k <= i
      BY <1>1, <1>3, <1>6, <2>0, <2>1, <3>1 DEF c
    <3>2. CASE k > i
      <4>1. k - i \in 1 .. Len(s) - i + 1 /\ i + (k - i) - 1 = k - 1
        BY <1>1, <3>2
      <4>2. t[k] = b[k - i]
        BY <1>1, <1>3, <2>0, <2>1, <3>2
      <4> QED
        BY <1>1, <1>3, <3>2, <4>1, <4>2
    <3> QED
      BY <1>1, <3>1, <3>2
  <2> QED
    BY <2>1, <2>2, <2>3
<1>8. DOMAIN t = 1 .. Len(s) + 1
  BY <1>7, LenProperties
<1>9. ToSet(t) = ToSet(s) \cup {n}
  <2>1. ASSUME NEW k \in 1 .. Len(s) + 1
        PROVE  t[k] \in ToSet(s) \cup {n}
    <3>1. k < i => k \in DOMAIN s
      BY <1>1
    <3>2. k > i => k - 1 \in DOMAIN s
      BY <1>1
    <3>3. \A j \in DOMAIN s : s[j] \in ToSet(s)
      BY DEF ToSet
    <3>4. t[k] = IF k < i THEN s[k] ELSE IF k = i THEN n ELSE s[k - 1]
      BY <1>7
    <3> QED
      BY <1>1, <3>1, <3>2, <3>3, <3>4
  <2>2. ASSUME NEW k \in 1 .. Len(s)
        PROVE  s[k] \in ToSet(t)
    <3>1. CASE k < i
      BY <1>1, <1>7, <1>8, <3>1 DEF ToSet
    <3>2. CASE k >= i
      <4>1. k + 1 \in 1 .. Len(s) + 1 /\ (k + 1) - 1 = k /\ k + 1 > i
        BY <1>1, <3>2
      <4>2. t[k + 1] = s[k]
        BY <1>1, <1>7, <4>1
      <4> QED
        BY <1>8, <4>1, <4>2 DEF ToSet
    <3> QED
      BY <1>1, <3>1, <3>2
  <2>3. n \in ToSet(t)
    BY <1>1, <1>7, <1>8 DEF ToSet
  <2> QED
    BY <1>1, <1>8, <2>1, <2>2, <2>3 DEF ToSet
<1>10. IsInjective(t)
  <2> SUFFICES ASSUME NEW j \in 1 .. Len(s) + 1, NEW k \in 1 .. Len(s) + 1, t[j] = t[k]
               PROVE  j = k
    BY <1>8 DEF IsInjective
  <2>1. \A l \in 1 .. Len(s) : s[l] # n
    BY <1>1 DEF ToSet
  <2>2. \A l, m \in 1 .. Len(s) : s[l] = s[m] => l = m
    BY <1>1 DEF IsInjective
  <2>3. \A l \in 1 .. Len(s) + 1 :
            (l < i => l \in 1 .. Len(s)) /\ (l > i => l - 1 \in 1 .. Len(s))
    BY <1>1
  <2> QED
    BY <1>1, <1>7, <2>1, <2>2, <2>3
<1>11. ASSUME NEW h, NEW k \in 0 .. Len(s) + 2
       PROVE  At(h, t, k) = IF k < i THEN At(h, s, k)
                            ELSE IF k = i THEN n ELSE At(h, s, k - 1)
  BY <1>1, <1>7, <1>8 DEF At
<1> QED
  BY <1>7, <1>9, <1>10, <1>11, IsArrangement DEF t

\* Four pointers put a node between two cells of a list.
LEMMA InsertRepresents ==
    ASSUME NEW nx \in [Cells -> Cells], NEW pv \in [Cells -> Cells],
           NEW L, Represents(nx, pv, L),
           NEW h \in Heads, NEW i \in 1 .. Len(L[h]) + 1, NEW n \in Nodes,
           \A g \in Heads : n \notin ToSet(L[g]),
           NEW c, c = At(h, L[h], i - 1), NEW d, d = At(h, L[h], i)
    PROVE  Represents([nx EXCEPT ![n] = d, ![c] = n], [pv EXCEPT ![n] = c, ![d] = n],
                      [L EXCEPT ![h] = InsertAt(L[h], i, n)])
<1> DEFINE nx2 == [nx EXCEPT ![n] = d, ![c] = n]
           pv2 == [pv EXCEPT ![n] = c, ![d] = n]
           s == L[h]
           t == InsertAt(s, i, n)
           M == [L EXCEPT ![h] = t]
<1>1. L \in [Heads -> Arrangements] /\ s \in Arrangements /\ Linked(nx, pv, h, s)
  BY DEF Represents
<1>2. /\ Len(s) \in Nat /\ i \in Nat /\ i >= 1 /\ i <= Len(s) + 1
      /\ i - 1 \in 0 .. Len(s) /\ i \in 1 .. Len(s) + 1
  BY <1>1, ArrangementFacts
<1>3. /\ t \in Arrangements /\ Len(t) = Len(s) + 1 /\ ToSet(t) = ToSet(s) \cup {n}
      /\ \A k \in 0 .. Len(s) + 2 :
             At(h, t, k) = IF k < i THEN At(h, s, k)
                           ELSE IF k = i THEN n ELSE At(h, s, k - 1)
  BY <1>1, Inserted
<1>4. /\ c \in ToSet(s) \cup {h} /\ d \in ToSet(s) \cup {h} /\ c \in Cells /\ d \in Cells
      /\ \A k : At(h, s, k) \in ToSet(s) \cup {h}
      /\ \A j, k \in 0 .. Len(s) : At(h, s, j) = At(h, s, k) => j = k
      /\ \A j, k \in 1 .. Len(s) + 1 : At(h, s, j) = At(h, s, k) => j = k
  BY <1>1, AtFacts
<1>5. n \in Cells /\ n \notin Heads /\ n # c /\ n # d /\ n \notin ToSet(s)
  BY <1>4, ListAssumption DEF Cells
<1> HIDE DEF t
<1>6. M \in [Heads -> Arrangements] /\ M[h] = t /\ \A g \in Heads \ {h} : M[g] = L[g]
  BY <1>1, <1>3
<1>7. /\ nx2[n] = d /\ nx2[c] = n /\ \A x \in Cells \ {n, c} : nx2[x] = nx[x]
      /\ pv2[n] = c /\ pv2[d] = n /\ \A x \in Cells \ {n, d} : pv2[x] = pv[x]
  BY <1>4, <1>5
<1> HIDE DEF nx2, pv2, M
<1>8. Linked(nx2, pv2, h, t)
  <2> SUFFICES ASSUME NEW k \in 0 .. Len(s) + 1
               PROVE  /\ nx2[At(h, t, k)] = At(h, t, k + 1)
                      /\ pv2[At(h, t, k + 1)] = At(h, t, k)
    BY <1>3 DEF Linked
  <2>1. k \in Nat /\ k \in 0 .. Len(s) + 2 /\ k + 1 \in 0 .. Len(s) + 2
    BY <1>2
  <2>2. CASE k < i - 1
    <3>1. At(h, t, k) = At(h, s, k) /\ At(h, t, k + 1) = At(h, s, k + 1)
      BY <1>2, <1>3, <2>1, <2>2
    <3>2. k \in 0 .. Len(s) /\ k + 1 \in 1 .. Len(s) + 1 /\ k # i - 1 /\ k + 1 # i
      BY <1>2, <2>1, <2>2
    <3>3. At(h, s, k) # c /\ At(h, s, k + 1) # d
      BY <1>2, <1>4, <3>2
    <3>4. At(h, s, k) \in Cells \ {n, c} /\ At(h, s, k + 1) \in Cells \ {n, d}
      BY <1>1, <1>4, <1>5, <3>3, AtFacts
    <3>5. nx[At(h, s, k)] = At(h, s, k + 1) /\ pv[At(h, s, k + 1)] = At(h, s, k)
      BY <1>1, <3>2 DEF Linked
    <3> QED
      BY <1>7, <3>1, <3>4, <3>5
  <2>3. CASE k = i - 1
    <3>1. At(h, t, k) = c /\ At(h, t, k + 1) = n
      BY <1>2, <1>3, <2>1, <2>3
    <3> QED
      BY <1>7, <3>1
  <2>4. CASE k = i
    <3>1. At(h, t, k) = n /\ At(h, t, k + 1) = d
      BY <1>2, <1>3, <2>1, <2>4
    <3> QED
      BY <1>7, <3>1
  <2>5. CASE k > i
    <3>1. At(h, t, k) = At(h, s, k - 1) /\ At(h, t, k + 1) = At(h, s, (k - 1) + 1)
      BY <1>2, <1>3, <2>1, <2>5
    <3>2. /\ k - 1 \in 0 .. Len(s) /\ (k - 1) + 1 \in 1 .. Len(s) + 1
          /\ k - 1 # i - 1 /\ (k - 1) + 1 # i
      BY <1>2, <2>1, <2>5
    <3>3. At(h, s, k - 1) # c /\ At(h, s, (k - 1) + 1) # d
      BY <1>2, <1>4, <3>2
    <3>4. At(h, s, k - 1) \in Cells \ {n, c} /\ At(h, s, (k - 1) + 1) \in Cells \ {n, d}
      BY <1>1, <1>4, <1>5, <3>3, AtFacts
    <3>5. /\ nx[At(h, s, k - 1)] = At(h, s, (k - 1) + 1)
          /\ pv[At(h, s, (k - 1) + 1)] = At(h, s, k - 1)
      BY <1>1, <3>2 DEF Linked
    <3> QED
      BY <1>7, <3>1, <3>4, <3>5
  <2> QED
    BY <1>2, <2>1, <2>2, <2>3, <2>4, <2>5
<1>9. ASSUME NEW g \in Heads, g # h
      PROVE  Linked(nx2, pv2, g, L[g])
  <2>1. L[g] \in Arrangements /\ Linked(nx, pv, g, L[g])
        /\ ToSet(L[g]) \cap ToSet(s) = {} /\ n \notin ToSet(L[g])
    BY <1>9 DEF Represents
  <2>2. \A k : At(g, L[g], k) \in ToSet(L[g]) \cup {g} /\ At(g, L[g], k) \in Cells
    BY <2>1, AtFacts
  <2>3. g \notin ToSet(s) \cup {h} /\ h \notin ToSet(L[g])
    <3>1. ToSet(s) \subseteq Nodes /\ ToSet(L[g]) \subseteq Nodes
      BY <1>1, <2>1, ArrangementFacts DEF ToSet
    <3> QED
      BY <1>9, <3>1, ListAssumption
  <2>4. \A k : At(g, L[g], k) \in Cells \ {n, c, d}
    BY <1>4, <1>5, <2>1, <2>2, <2>3
  <2> QED
    BY <1>7, <2>1, <2>4 DEF Linked
<1>10. \A g \in Heads : Linked(nx2, pv2, g, M[g])
  BY <1>6, <1>8, <1>9
<1>11. ASSUME NEW f \in Heads, NEW g \in Heads, ToSet(M[f]) \cap ToSet(M[g]) # {}
       PROVE  f = g
  BY <1>3, <1>6, <1>11 DEF Represents
<1>12. ASSUME NEW x \in Nodes, \A g \in Heads : x \notin ToSet(M[g])
       PROVE  nx2[x] = x
  <2>1. \A g \in Heads : x \notin ToSet(L[g])
    BY <1>3, <1>6, <1>12
  <2>2. x # n
    BY <1>3, <1>6, <1>12
  <2>3. x # c /\ x \in Cells
    BY <1>4, <2>1, ListAssumption DEF Cells
  <2> QED
    BY <1>7, <2>1, <2>2, <2>3 DEF Represents
<1> QED
  BY <1>6, <1>10, <1>11, <1>12 DEF Represents, nx2, pv2, M, t
-----------------------------------------------------------------------------
(* Removing *)

LEMMA Removed ==
    ASSUME NEW s \in Arrangements, NEW i \in 1 .. Len(s)
    PROVE  LET t == RemoveAt(s, i)
           IN  /\ t \in Arrangements /\ Len(t) = Len(s) - 1
               /\ ToSet(t) = ToSet(s) \ {s[i]}
               /\ \A k \in 1 .. Len(s) - 1 : t[k] = IF k < i THEN s[k] ELSE s[k + 1]
               /\ \A h : \A k \in 0 .. Len(s) :
                      At(h, t, k) = IF k < i THEN At(h, s, k) ELSE At(h, s, k + 1)
<1> DEFINE t == RemoveAt(s, i)
           a == SubSeq(s, 1, i - 1)
           b == SubSeq(s, i + 1, Len(s))
<1>1. /\ s \in Seq(Nodes) /\ Len(s) \in Nat /\ DOMAIN s = 1 .. Len(s)
      /\ IsInjective(s) /\ i \in Nat /\ i >= 1 /\ i <= Len(s)
      /\ \A k \in 1 .. Len(s) : s[k] \in Nodes
  BY ArrangementFacts
<1>2. /\ a \in Seq(Nodes) /\ Len(a) = i - 1
      /\ \A k \in 1 .. i - 1 : a[k] = s[k]
  <2>1. \A k \in 1 .. i - 1 : s[k] \in Nodes
    BY <1>1
  <2>2. i - 1 \in Int /\ 1 \in Int
    BY <1>1
  <2> QED
    BY <1>1, <2>1, <2>2, SubSeqProperties
<1>3. /\ b \in Seq(Nodes) /\ Len(b) = Len(s) - i
      /\ \A k \in 1 .. Len(s) - i : b[k] = s[i + k]
  <2>1. \A k \in i + 1 .. Len(s) : s[k] \in Nodes
    BY <1>1
  <2>2. /\ b \in Seq(Nodes)
        /\ Len(b) = IF i + 1 <= Len(s) THEN Len(s) - (i + 1) + 1 ELSE 0
        /\ \A k \in 1 .. Len(s) - (i + 1) + 1 : b[k] = s[(i + 1) + k - 1]
    BY <1>1, <2>1, SubSeqProperties
  <2>3. Len(b) = Len(s) - i
    <3>1. Len(s) \in Nat /\ i \in Nat /\ i <= Len(s)
      BY <1>1
    <3>2. PICK l : l = Len(b)
      OBVIOUS
    <3>3. l = IF i + 1 <= Len(s) THEN Len(s) - (i + 1) + 1 ELSE 0
      BY <2>2, <3>2
    <3>4. l = Len(s) - i
      BY <3>1, <3>3
    <3> QED
      BY <3>2, <3>4
  <2>4. ASSUME NEW k \in 1 .. Len(s) - i
        PROVE  b[k] = s[i + k]
    <3>1. k \in 1 .. Len(s) - (i + 1) + 1 /\ (i + 1) + k - 1 = i + k
      BY <1>1
    <3> QED
      BY <2>2, <3>1
  <2> QED
    BY <2>2, <2>3, <2>4
<1>4. t = a \o b
  BY DEF RemoveAt
<1> HIDE DEF a, b, t
<1>5. /\ t \in Seq(Nodes) /\ Len(t) = Len(s) - 1
      /\ \A k \in 1 .. Len(s) - 1 : t[k] = IF k < i THEN s[k] ELSE s[k + 1]
  <2>1. /\ t \in Seq(Nodes) /\ Len(t) = Len(a) + Len(b)
        /\ \A k \in 1 .. Len(a) + Len(b) :
               t[k] = IF k <= Len(a) THEN a[k] ELSE b[k - Len(a)]
    BY <1>2, <1>3, <1>4, ConcatProperties
  <2>2. Len(t) = Len(s) - 1
    BY <1>1, <1>2, <1>3, <2>1
  <2>3. ASSUME NEW k \in 1 .. Len(s) - 1
        PROVE  t[k] = IF k < i THEN s[k] ELSE s[k + 1]
    <3>1. CASE k < i
      <4>1. k \in 1 .. i - 1 /\ k \in 1 .. Len(a) + Len(b) /\ k <= Len(a)
        BY <1>1, <1>2, <1>3, <3>1
      <4> QED
        BY <1>2, <2>1, <3>1, <4>1
    <3>2. CASE k >= i
      <4>1. k - (i - 1) \in 1 .. Len(s) - i /\ i + (k - (i - 1)) = k + 1
        BY <1>1, <3>2
      <4>2. t[k] = b[k - (i - 1)]
        <5>1. Len(a) = i - 1 /\ Len(a) + Len(b) = Len(s) - 1
          BY <1>1, <1>2, <1>3
        <5>2. k \in 1 .. Len(a) + Len(b) /\ ~ (k <= Len(a))
          BY <1>1, <3>2, <5>1
        <5> QED
          BY <2>1, <5>1, <5>2
      <4> QED
        BY <1>1, <1>3, <3>2, <4>1, <4>2
    <3> QED
      BY <1>1, <3>1, <3>2
  <2> QED
    BY <2>1, <2>2, <2>3
<1>6. DOMAIN t = 1 .. Len(s) - 1
  BY <1>5, LenProperties
<1>7. ToSet(t) = ToSet(s) \ {s[i]}
  <2>1. ASSUME NEW k \in 1 .. Len(s) - 1
        PROVE  t[k] \in ToSet(s) \ {s[i]}
    <3>1. \A j \in 1 .. Len(s) : s[j] \in ToSet(s) /\ (s[j] = s[i] => j = i)
      BY <1>1 DEF ToSet, IsInjective
    <3>2. t[k] = IF k < i THEN s[k] ELSE s[k + 1]
      BY <1>5
    <3>3. k \in 1 .. Len(s) /\ k + 1 \in 1 .. Len(s) /\ (k >= i => k + 1 # i)
      BY <1>1
    <3> QED
      BY <1>1, <3>1, <3>2, <3>3
  <2>2. ASSUME NEW k \in 1 .. Len(s), k # i
        PROVE  s[k] \in ToSet(t)
    <3>1. CASE k < i
      <4>1. k \in 1 .. Len(s) - 1
        BY <1>1, <3>1
      <4> QED
        BY <1>5, <1>6, <3>1, <4>1 DEF ToSet
    <3>2. CASE k > i
      <4>1. k - 1 \in 1 .. Len(s) - 1 /\ (k - 1) + 1 = k /\ ~ (k - 1 < i)
        BY <1>1, <3>2
      <4>2. t[k - 1] = s[k]
        BY <1>5, <4>1
      <4> QED
        BY <1>6, <4>1, <4>2 DEF ToSet
    <3> QED
      BY <1>1, <2>2, <3>1, <3>2
  <2> QED
    BY <1>1, <1>6, <2>1, <2>2 DEF ToSet
<1>8. IsInjective(t)
  <2> SUFFICES ASSUME NEW j \in 1 .. Len(s) - 1, NEW k \in 1 .. Len(s) - 1, t[j] = t[k]
               PROVE  j = k
    BY <1>6 DEF IsInjective
  <2>1. \A l, m \in 1 .. Len(s) : s[l] = s[m] => l = m
    BY <1>1 DEF IsInjective
  <2>2. \A l \in 1 .. Len(s) - 1 : l \in 1 .. Len(s) /\ l + 1 \in 1 .. Len(s)
    BY <1>1
  <2> QED
    BY <1>1, <1>5, <2>1, <2>2
<1>9. ASSUME NEW h, NEW k \in 0 .. Len(s)
      PROVE  At(h, t, k) = IF k < i THEN At(h, s, k) ELSE At(h, s, k + 1)
  <2>1. Len(s) \in Nat /\ i \in Nat /\ 1 <= i /\ i <= Len(s)
    BY <1>1
  <2>2. k = 0 \/ k \in 1 .. Len(s) - 1 \/ k = Len(s)
    BY <2>1
  <2>3. CASE k = 0
    <3>1. 0 \notin DOMAIN t /\ 0 \notin DOMAIN s /\ 0 < i
      BY <1>1, <1>6, <2>1
    <3> QED
      BY <2>3, <3>1 DEF At
  <2>4. CASE k \in 1 .. Len(s) - 1
    <3>1. k \in DOMAIN t /\ k \in DOMAIN s /\ k + 1 \in DOMAIN s
      BY <1>1, <1>6, <2>1, <2>4
    <3> QED
      BY <1>5, <2>4, <3>1 DEF At
  <2>5. CASE k = Len(s)
    <3>1. k \notin DOMAIN t /\ k + 1 \notin DOMAIN s /\ ~ (k < i)
      BY <1>1, <1>6, <2>1, <2>5
    <3> QED
      BY <3>1 DEF At
  <2> QED
    BY <2>2, <2>3, <2>4, <2>5
<1> QED
  BY <1>5, <1>7, <1>8, <1>9, IsArrangement DEF t

\* Four pointers take a node out from between two cells of a list.
LEMMA RemoveRepresents ==
    ASSUME NEW nx \in [Cells -> Cells], NEW pv \in [Cells -> Cells],
           NEW L, Represents(nx, pv, L),
           NEW h \in Heads, NEW i \in 1 .. Len(L[h]),
           NEW n, n = L[h][i],
           NEW a, a = At(h, L[h], i - 1), NEW b, b = At(h, L[h], i + 1)
    PROVE  Represents([nx EXCEPT ![a] = b, ![n] = n], [pv EXCEPT ![b] = a, ![n] = n],
                      [L EXCEPT ![h] = RemoveAt(L[h], i)])
<1> DEFINE nx2 == [nx EXCEPT ![a] = b, ![n] = n]
           pv2 == [pv EXCEPT ![b] = a, ![n] = n]
           s == L[h]
           t == RemoveAt(s, i)
           M == [L EXCEPT ![h] = t]
<1>1. L \in [Heads -> Arrangements] /\ s \in Arrangements /\ Linked(nx, pv, h, s)
  BY DEF Represents
<1>2. /\ Len(s) \in Nat /\ i \in Nat /\ i >= 1 /\ i <= Len(s)
      /\ i - 1 \in 0 .. Len(s) /\ i \in 0 .. Len(s)
      /\ i + 1 \in 1 .. Len(s) + 1 /\ i \in 1 .. Len(s) + 1
  BY <1>1, ArrangementFacts
<1>3. /\ t \in Arrangements /\ Len(t) = Len(s) - 1 /\ ToSet(t) = ToSet(s) \ {n}
      /\ \A k \in 0 .. Len(s) :
             At(h, t, k) = IF k < i THEN At(h, s, k) ELSE At(h, s, k + 1)
  BY <1>1, Removed
<1>4. /\ a \in ToSet(s) \cup {h} /\ b \in ToSet(s) \cup {h} /\ a \in Cells /\ b \in Cells
      /\ n = At(h, s, i) /\ n \in Nodes
      /\ \A k : At(h, s, k) \in ToSet(s) \cup {h} /\ At(h, s, k) \in Cells
      /\ \A j, k \in 0 .. Len(s) : At(h, s, j) = At(h, s, k) => j = k
      /\ \A j, k \in 1 .. Len(s) + 1 : At(h, s, j) = At(h, s, k) => j = k
  BY <1>1, AtFacts
<1>5. n \in Cells /\ n \notin Heads /\ n # a /\ n # b /\ n \in ToSet(s)
  <2>1. n # a
    BY <1>2, <1>4
  <2>2. n # b
    BY <1>2, <1>4
  <2>3. n \in ToSet(s)
    BY <1>1, <1>2, ArrangementFacts DEF ToSet
  <2> QED
    BY <1>4, <2>1, <2>2, <2>3, ListAssumption DEF Cells
<1> HIDE DEF t
<1>6. M \in [Heads -> Arrangements] /\ M[h] = t /\ \A g \in Heads \ {h} : M[g] = L[g]
  BY <1>1, <1>3
<1>7. /\ nx2[n] = n /\ nx2[a] = b /\ \A x \in Cells \ {n, a} : nx2[x] = nx[x]
      /\ pv2[n] = n /\ pv2[b] = a /\ \A x \in Cells \ {n, b} : pv2[x] = pv[x]
  BY <1>4, <1>5
<1> HIDE DEF nx2, pv2, M
<1>8. Linked(nx2, pv2, h, t)
  <2> SUFFICES ASSUME NEW k \in 0 .. Len(s) - 1
               PROVE  /\ nx2[At(h, t, k)] = At(h, t, k + 1)
                      /\ pv2[At(h, t, k + 1)] = At(h, t, k)
    BY <1>3 DEF Linked
  <2>1. k \in Nat /\ k \in 0 .. Len(s) /\ k + 1 \in 0 .. Len(s)
    BY <1>2
  <2>2. CASE k < i - 1
    <3>1. At(h, t, k) = At(h, s, k) /\ At(h, t, k + 1) = At(h, s, k + 1)
      BY <1>2, <1>3, <2>1, <2>2
    <3>2. /\ k \in 0 .. Len(s) /\ k # i /\ k # i - 1
          /\ k + 1 \in 1 .. Len(s) + 1 /\ k + 1 # i /\ k + 1 # i + 1
      BY <1>2, <2>1, <2>2
    <3>3. At(h, s, k) \in Cells \ {n, a}
      BY <1>2, <1>4, <3>2
    <3>4. At(h, s, k + 1) \in Cells \ {n, b}
      BY <1>2, <1>4, <3>2
    <3>5. nx[At(h, s, k)] = At(h, s, k + 1) /\ pv[At(h, s, k + 1)] = At(h, s, k)
      BY <1>1, <3>2 DEF Linked
    <3> QED
      BY <1>7, <3>1, <3>3, <3>4, <3>5
  <2>3. CASE k = i - 1
    <3>1. At(h, t, k) = a /\ At(h, t, k + 1) = b
      <4>1. At(h, t, k) = At(h, s, k)
        BY <1>2, <1>3, <2>1, <2>3
      <4>2. At(h, t, k + 1) = At(h, s, (k + 1) + 1)
        BY <1>2, <1>3, <2>1, <2>3
      <4>3. (k + 1) + 1 = i + 1
        BY <1>2, <2>3
      <4> QED
        BY <2>3, <4>1, <4>2, <4>3
    <3> QED
      BY <1>7, <3>1
  <2>4. CASE k >= i
    <3>1. At(h, t, k) = At(h, s, k + 1) /\ At(h, t, k + 1) = At(h, s, (k + 1) + 1)
      BY <1>2, <1>3, <2>1, <2>4
    <3>2. /\ k + 1 \in 0 .. Len(s) /\ k + 1 # i /\ k + 1 # i - 1
          /\ (k + 1) + 1 \in 1 .. Len(s) + 1 /\ (k + 1) + 1 # i /\ (k + 1) + 1 # i + 1
      <4>1. k \in Int /\ k <= Len(s) - 1 /\ i <= k /\ 1 <= i /\ Len(s) \in Nat /\ i \in Nat
        BY <1>2, <2>1, <2>4
      <4> HIDE DEF s
      <4> QED
        BY <4>1
    <3>3. At(h, s, k + 1) \in Cells \ {n, a}
      BY <1>2, <1>4, <3>2
    <3>4. At(h, s, (k + 1) + 1) \in Cells \ {n, b}
      BY <1>2, <1>4, <3>2
    <3>5. /\ nx[At(h, s, k + 1)] = At(h, s, (k + 1) + 1)
          /\ pv[At(h, s, (k + 1) + 1)] = At(h, s, k + 1)
      BY <1>1, <3>2 DEF Linked
    <3> QED
      BY <1>7, <3>1, <3>3, <3>4, <3>5
  <2> QED
    BY <1>2, <2>1, <2>2, <2>3, <2>4
<1>9. ASSUME NEW g \in Heads, g # h
      PROVE  Linked(nx2, pv2, g, L[g])
  <2>1. L[g] \in Arrangements /\ Linked(nx, pv, g, L[g])
        /\ ToSet(L[g]) \cap ToSet(s) = {}
    BY <1>9 DEF Represents
  <2>2. \A k : At(g, L[g], k) \in ToSet(L[g]) \cup {g} /\ At(g, L[g], k) \in Cells
    BY <2>1, AtFacts
  <2>3. g \notin ToSet(s) \cup {h} /\ h \notin ToSet(L[g])
    <3>1. ToSet(s) \subseteq Nodes /\ ToSet(L[g]) \subseteq Nodes
      BY <1>1, <2>1, ArrangementFacts DEF ToSet
    <3> QED
      BY <1>9, <3>1, ListAssumption
  <2>4. \A k : At(g, L[g], k) \in Cells \ {n, a, b}
    BY <1>4, <1>5, <2>1, <2>2, <2>3
  <2> QED
    BY <1>7, <2>1, <2>4 DEF Linked
<1>10. \A g \in Heads : Linked(nx2, pv2, g, M[g])
  BY <1>6, <1>8, <1>9
<1>11. ASSUME NEW f \in Heads, NEW g \in Heads, ToSet(M[f]) \cap ToSet(M[g]) # {}
       PROVE  f = g
  BY <1>3, <1>6, <1>11 DEF Represents
<1>12. ASSUME NEW x \in Nodes, \A g \in Heads : x \notin ToSet(M[g])
       PROVE  nx2[x] = x
  <2>1. CASE x = n
    BY <1>7, <2>1
  <2>2. CASE x # n
    <3>1. \A g \in Heads : x \notin ToSet(L[g])
      BY <1>3, <1>6, <1>12, <2>2
    <3>2. x # a /\ x \in Cells
      BY <1>4, <3>1, ListAssumption DEF Cells
    <3> QED
      BY <1>7, <2>2, <3>1, <3>2 DEF Represents
  <2> QED
    BY <2>1, <2>2
<1> QED
  BY <1>6, <1>10, <1>11, <1>12 DEF Represents, nx2, pv2, M, t
-----------------------------------------------------------------------------
(* Where a cell is *)

\* A node of a list does not point to itself, and only such a node does not.
LEMMA InListIsListed ==
    ASSUME NEW L, Represents(next, prev, L), NEW n \in Nodes
    PROVE  Alone(n) <=> \A h \in Heads : n \notin ToSet(L[h])
<1>1. ASSUME NEW h \in Heads, n \in ToSet(L[h])
      PROVE  next[n] # n
  <2>1. L[h] \in Arrangements /\ Linked(next, prev, h, L[h])
    BY DEF Represents
  <2>2. PICK k \in 1 .. Len(L[h]) : n = L[h][k]
    BY <1>1, <2>1, ArrangementFacts DEF ToSet
  <2>3. Len(L[h]) \in Nat
    BY <2>1, ArrangementFacts
  <2>4. k \in 0 .. Len(L[h]) /\ k \in 1 .. Len(L[h]) + 1 /\ k + 1 \in 1 .. Len(L[h]) + 1 /\ k + 1 # k
    BY <2>3
  <2>5. n = At(h, L[h], k) /\ next[n] = At(h, L[h], k + 1)
    BY <2>1, <2>2, <2>4, AtFacts DEF Linked
  <2>6. At(h, L[h], k + 1) # At(h, L[h], k)
    BY <2>1, <2>4, AtFacts
  <2> QED
    BY <2>5, <2>6
<1> QED
  BY <1>1 DEF Alone, Represents

\* The list and the place of a node that is in one.
LEMMA Place ==
    ASSUME NEW L, Represents(next, prev, L), NEW h \in Heads, NEW k \in 1 .. Len(L[h])
    PROVE  /\ L[h][k] = At(h, L[h], k)
           /\ next[L[h][k]] = At(h, L[h], k + 1) /\ prev[L[h][k]] = At(h, L[h], k - 1)
           /\ k \in DOMAIN L[h]
<1>1. L[h] \in Arrangements /\ Linked(next, prev, h, L[h])
  BY DEF Represents
<1>2. Len(L[h]) \in Nat /\ k \in DOMAIN L[h]
  BY <1>1, ArrangementFacts
<1>3. k \in 0 .. Len(L[h]) /\ k - 1 \in 0 .. Len(L[h]) /\ (k - 1) + 1 = k
  BY <1>2
<1>4. L[h][k] = At(h, L[h], k)
  BY <1>1, AtFacts
<1>5. next[At(h, L[h], k)] = At(h, L[h], k + 1)
  BY <1>1, <1>3 DEF Linked
<1>6. prev[At(h, L[h], (k - 1) + 1)] = At(h, L[h], k - 1)
  BY <1>1, <1>3 DEF Linked
<1> QED
  BY <1>2, <1>3, <1>4, <1>5, <1>6

LEMMA Ends ==
    ASSUME NEW L, Represents(next, prev, L), NEW h \in Heads
    PROVE  /\ next[h] = At(h, L[h], 1) /\ prev[h] = At(h, L[h], Len(L[h]))
           /\ Len(L[h]) \in Nat
<1>1. L[h] \in Arrangements /\ Linked(next, prev, h, L[h])
  BY DEF Represents
<1>2. Len(L[h]) \in Nat
  BY <1>1, ArrangementFacts
<1>3. 0 \in 0 .. Len(L[h]) /\ Len(L[h]) \in 0 .. Len(L[h]) /\ 0 + 1 = 1
  BY <1>2
<1>4. At(h, L[h], 0) = h /\ At(h, L[h], Len(L[h]) + 1) = h
  BY <1>1, AtFacts
<1> QED
  BY <1>1, <1>2, <1>3, <1>4 DEF Linked

-----------------------------------------------------------------------------
(* The calls *)

\* SeqLists uses the same operators on sequences.
LEMMA SameOperators ==
    /\ \A s : /\ Seqs!ToSet(s) = ToSet(s)
              /\ Seqs!Front(s) = Front(s) /\ Seqs!Last(s) = Last(s)
    /\ \A s, i : Seqs!RemoveAt(s, i) = RemoveAt(s, i)
    /\ \A s, i, e : Seqs!InsertAt(s, i, e) = InsertAt(s, i, e)
BY DEF Seqs!ToSet, ToSet, Seqs!Front, Front, Seqs!Last, Last, Seqs!RemoveAt, RemoveAt,
       Seqs!InsertAt, InsertAt

LEMMA ListedNodes ==
    ASSUME NEW L, [g \in Heads |-> Contents(g)] = L
    PROVE  \A n : n \in Seqs!Listed <=> \E g \in Heads : n \in ToSet(L[g])
<1>1. Seqs!Listed = UNION {Seqs!ToSet(L[g]) : g \in Heads}
  BY DEF Seqs!Listed
<1>2. \A g \in Heads : Seqs!ToSet(L[g]) = ToSet(L[g])
  BY SameOperators
<1> QED
  BY <1>1, <1>2

\* A place between two cells, and a node in no list, fit SeqLists' insertion.
LEMMA PutStep ==
    ASSUME PointersOK, NEW L, Represents(next, prev, L), ret' = ret,
           NEW h \in Heads, NEW i \in 1 .. Len(L[h]) + 1, NEW n \in Nodes, Alone(n),
           next' = [next EXCEPT ![n] = At(h, L[h], i), ![At(h, L[h], i - 1)] = n],
           prev' = [prev EXCEPT ![n] = At(h, L[h], i - 1), ![At(h, L[h], i)] = n]
    PROVE  /\ Seqs!PutAt(h, i, n)
           /\ \E M \in [Heads -> Arrangements] : Represents(next', prev', M)
<1> DEFINE M == [L EXCEPT ![h] = InsertAt(L[h], i, n)]
<1>1. \A g \in Heads : n \notin ToSet(L[g])
  BY InListIsListed
<1>2. Represents(next', prev', M)
  <2>1. PICK c, d : c = At(h, L[h], i - 1) /\ d = At(h, L[h], i)
    OBVIOUS
  <2> QED
    BY <1>1, <2>1, InsertRepresents DEF PointersOK
<1>3. [g \in Heads |-> Contents(g)] = L
  BY ContentsAre
<1>4. [g \in Heads |-> Contents(g)]' = M
  BY <1>2, ContentsWillBe
<1>5. n \in Nodes \ Seqs!Listed
  BY <1>1, <1>3, ListedNodes
<1>6. Seqs!PutAt(h, i, n)
  <2>1. M = [L EXCEPT ![h] = Seqs!InsertAt(L[h], i, n)]
    BY SameOperators
  <2> QED
    BY <1>3, <1>4, <1>5, <2>1 DEF Seqs!PutAt
<1> QED
  BY <1>2, <1>6 DEF Represents

LEMMA InsertAfterStep ==
    ASSUME ListInv, NEW c \in Cells, NEW n \in Nodes, c # n, ListInsertAfter(c, n)
    PROVE  ListInv' /\ Seqs!InsertAfter(c, n)
<1>1. PICK L \in [Heads -> Arrangements] : Represents(next, prev, L)
  BY DEF ListInv
<1>2. PointersOK /\ PointersOK' /\ Alone(n) /\ ret' = ret
  BY InsertAfterKeeps DEF ListInv, ListInsertAfter
<1> DEFINE d == next[c]
<1>3. n \in Cells /\ d \in Cells /\ d # n
  <2>1. next[n] = n /\ prev[n] = n
    BY <1>2, AloneBothWays DEF Alone, Cells
  <2> QED
    BY <1>2, <2>1 DEF PointersOK, LinksMatch, Cells
<1>4. /\ next' = [next EXCEPT ![n] = d, ![c] = n]
      /\ prev' = [prev EXCEPT ![n] = c, ![d] = n]
  BY <1>2, <1>3 DEF ListInsertAfter, PointersOK
<1>5. ASSUME NEW h \in Heads, NEW i \in 1 .. Len(L[h]) + 1,
             c = At(h, L[h], i - 1), d = At(h, L[h], i)
      PROVE  /\ Seqs!PutAt(h, i, n)
             /\ \E M \in [Heads -> Arrangements] : Represents(next', prev', M)
  BY <1>1, <1>2, <1>4, <1>5, PutStep
<1>6. [g \in Heads |-> Contents(g)] = L
  BY <1>1, ContentsAre
<1>7. CASE c \in Heads
  <2>1. 1 \in 1 .. Len(L[c]) + 1 /\ 1 - 1 = 0 /\ d = At(c, L[c], 1)
    BY <1>1, <1>7, Ends
  <2>2. c = At(c, L[c], 1 - 1)
    BY <1>7, <2>1, AtFacts
  <2>3. /\ Seqs!PutAt(c, 1, n)
        /\ \E M \in [Heads -> Arrangements] : Represents(next', prev', M)
    BY <1>5, <1>7, <2>1, <2>2
  <2> QED
    BY <1>2, <1>7, <2>3 DEF Seqs!InsertAfter, ListInv
<1>8. CASE c \notin Heads
  <2>1. c \in Nodes /\ ~ Alone(c)
    BY <1>8 DEF ListInsertAfter, InList, Cells
  <2>2. PICK h \in Heads : c \in ToSet(L[h])
    BY <1>1, <2>1, InListIsListed
  <2>3. PICK k \in 1 .. Len(L[h]) : c = L[h][k]
    BY <2>2, ArrangementFacts DEF ToSet
  <2>4. /\ k + 1 \in 1 .. Len(L[h]) + 1 /\ (k + 1) - 1 = k
        /\ c = At(h, L[h], k) /\ d = At(h, L[h], k + 1) /\ k \in DOMAIN L[h]
    BY <1>1, <2>3, Place, Ends
  <2>5. /\ Seqs!PutAt(h, k + 1, n)
        /\ \E M \in [Heads -> Arrangements] : Represents(next', prev', M)
    BY <1>5, <2>4
  <2>6. \E j \in DOMAIN L[h] : L[h][j] = c /\ Seqs!PutAt(h, j + 1, n)
    BY <2>3, <2>4, <2>5
  <2> QED
    BY <1>2, <1>6, <2>5, <2>6 DEF Seqs!InsertAfter, ListInv
<1> QED
  BY <1>7, <1>8

LEMMA InsertBeforeStep ==
    ASSUME ListInv, NEW c \in Cells, NEW n \in Nodes, c # n, ListInsertBefore(c, n)
    PROVE  ListInv' /\ Seqs!InsertBefore(c, n)
<1>1. PICK L \in [Heads -> Arrangements] : Represents(next, prev, L)
  BY DEF ListInv
<1>2. PointersOK /\ PointersOK' /\ Alone(n) /\ ret' = ret
  BY InsertBeforeKeeps DEF ListInv, ListInsertBefore
<1> DEFINE d == prev[c]
<1>3. n \in Cells /\ d \in Cells /\ d # n
  <2>1. next[n] = n /\ prev[n] = n
    BY <1>2, AloneBothWays DEF Alone, Cells
  <2> QED
    BY <1>2, <2>1 DEF PointersOK, LinksMatch, Cells
<1>4. /\ next' = [next EXCEPT ![n] = c, ![d] = n]
      /\ prev' = [prev EXCEPT ![n] = d, ![c] = n]
  BY <1>2, <1>3 DEF ListInsertBefore, PointersOK
<1>5. ASSUME NEW h \in Heads, NEW i \in 1 .. Len(L[h]) + 1,
             d = At(h, L[h], i - 1), c = At(h, L[h], i)
      PROVE  /\ Seqs!PutAt(h, i, n)
             /\ \E M \in [Heads -> Arrangements] : Represents(next', prev', M)
  BY <1>1, <1>2, <1>4, <1>5, PutStep
<1>6. [g \in Heads |-> Contents(g)] = L
  BY <1>1, ContentsAre
<1>7. CASE c \in Heads
  <2>1. /\ Len(L[c]) + 1 \in 1 .. Len(L[c]) + 1 /\ (Len(L[c]) + 1) - 1 = Len(L[c])
        /\ d = At(c, L[c], Len(L[c]))
    BY <1>1, <1>7, Ends
  <2>2. c = At(c, L[c], Len(L[c]) + 1)
    BY <1>7, AtFacts
  <2>3. /\ Seqs!PutAt(c, Len(L[c]) + 1, n)
        /\ \E M \in [Heads -> Arrangements] : Represents(next', prev', M)
    BY <1>5, <1>7, <2>1, <2>2
  <2> QED
    BY <1>2, <1>6, <1>7, <2>3 DEF Seqs!InsertBefore, ListInv
<1>8. CASE c \notin Heads
  <2>1. c \in Nodes /\ ~ Alone(c)
    BY <1>8 DEF ListInsertBefore, InList, Cells
  <2>2. PICK h \in Heads : c \in ToSet(L[h])
    BY <1>1, <2>1, InListIsListed
  <2>3. PICK k \in 1 .. Len(L[h]) : c = L[h][k]
    BY <2>2, ArrangementFacts DEF ToSet
  <2>4. /\ k \in 1 .. Len(L[h]) + 1
        /\ c = At(h, L[h], k) /\ d = At(h, L[h], k - 1) /\ k \in DOMAIN L[h]
    BY <1>1, <2>3, Place, Ends
  <2>5. /\ Seqs!PutAt(h, k, n)
        /\ \E M \in [Heads -> Arrangements] : Represents(next', prev', M)
    BY <1>5, <2>4
  <2>6. \E j \in DOMAIN L[h] : L[h][j] = c /\ Seqs!PutAt(h, j, n)
    BY <2>3, <2>4, <2>5
  <2> QED
    BY <1>2, <1>6, <2>5, <2>6 DEF Seqs!InsertBefore, ListInv
<1> QED
  BY <1>7, <1>8

\* The node at a place of a list is taken out.
LEMMA UnlinkStep ==
    ASSUME PointersOK, NEW L, Represents(next, prev, L),
           NEW h \in Heads, NEW i \in 1 .. Len(L[h]), NEW n, n = L[h][i], Unlink(n)
    PROVE  /\ [g \in Heads |-> Contents(g)]' = [L EXCEPT ![h] = RemoveAt(L[h], i)]
           /\ \E M \in [Heads -> Arrangements] : Represents(next', prev', M)
<1> DEFINE a == At(h, L[h], i - 1)
           b == At(h, L[h], i + 1)
           M == [L EXCEPT ![h] = RemoveAt(L[h], i)]
<1>1. next[n] = b /\ prev[n] = a /\ i \in DOMAIN L[h] /\ L[h] \in Arrangements
  BY Place DEF Represents
<1>2. n \in Nodes /\ n \in Cells /\ a \in Cells /\ b \in Cells
  BY <1>1, AtFacts, ArrangementFacts DEF Cells
<1>3. a # n
  <2>1. ~ Alone(n)
    BY <1>1, <1>2, InListIsListed DEF ToSet
  <2> QED
    BY <1>1, <1>2, <2>1, AloneBothWays DEF Alone
<1>4. /\ next' = [next EXCEPT ![a] = b, ![n] = n]
      /\ prev' = [prev EXCEPT ![b] = a, ![n] = n]
  BY <1>1, <1>2, <1>3 DEF Unlink, PointersOK
<1> HIDE DEF a, b
<1>5. Represents(next', prev', M)
  BY <1>4, RemoveRepresents DEF PointersOK, a, b
<1>6. M \in [Heads -> Arrangements]
  BY <1>5 DEF Represents
<1>7. [g \in Heads |-> Contents(g)]' = M
  BY <1>5, ContentsWillBe
<1> QED
  BY <1>5, <1>6, <1>7

LEMMA DelStep ==
    ASSUME ListInv, NEW n \in Nodes, ListDel(n)
    PROVE  ListInv' /\ Seqs!Del(n)
<1>1. PICK L \in [Heads -> Arrangements] : Represents(next, prev, L)
  BY DEF ListInv
<1>2. PointersOK /\ PointersOK' /\ Unlink(n) /\ ret' = ret /\ n \in Cells
  BY UnlinkKeeps DEF ListInv, ListDel, Cells
<1>3. [g \in Heads |-> Contents(g)] = L
  BY <1>1, ContentsAre
<1>4. CASE Alone(n)
  <2>1. next[n] = n /\ prev[n] = n
    BY <1>2, <1>4, AloneBothWays DEF Alone
  <2>2. next' = next /\ prev' = prev
    BY <1>2, <2>1 DEF Unlink, PointersOK
  <2>3. [g \in Heads |-> Contents(g)]' = L
    BY <1>1, <2>2, ContentsWillBe
  <2>4. n \notin Seqs!Listed
    BY <1>1, <1>3, <1>4, InListIsListed, ListedNodes
  <2> QED
    BY <1>1, <1>2, <1>3, <2>2, <2>3, <2>4 DEF Seqs!Del, ListInv
<1>5. CASE ~ Alone(n)
  <2>1. PICK h \in Heads : n \in ToSet(L[h])
    BY <1>1, <1>5, InListIsListed
  <2>2. PICK k \in 1 .. Len(L[h]) : n = L[h][k]
    BY <2>1, ArrangementFacts DEF ToSet
  <2>3. /\ [g \in Heads |-> Contents(g)]' = [L EXCEPT ![h] = RemoveAt(L[h], k)]
        /\ \E M \in [Heads -> Arrangements] : Represents(next', prev', M)
    BY <1>1, <1>2, <2>2, UnlinkStep
  <2>4. k \in DOMAIN L[h]
    BY <1>1, Place
  <2>5. [L EXCEPT ![h] = RemoveAt(L[h], k)] = [L EXCEPT ![h] = Seqs!RemoveAt(L[h], k)]
    BY SameOperators
  <2>6. Seqs!Del(n)
    BY <1>2, <1>3, <2>2, <2>3, <2>4, <2>5 DEF Seqs!Del
  <2> QED
    BY <1>2, <2>3, <2>6 DEF ListInv
<1> QED
  BY <1>4, <1>5

\* Despite its name list_pop() takes the last node of the list.
LEMMA PopStep ==
    ASSUME ListInv, NEW h \in Heads, ListPop(h)
    PROVE  ListInv' /\ Seqs!Pop(h)
<1>1. PICK L \in [Heads -> Arrangements] : Represents(next, prev, L)
  BY DEF ListInv
<1>2. [g \in Heads |-> Contents(g)] = L
  BY <1>1, ContentsAre
<1> DEFINE s == L[h]
<1>3. /\ s \in Seq(Nodes) /\ s \in Arrangements /\ Len(s) \in Nat
      /\ prev[h] = At(h, s, Len(s)) /\ h \notin Nodes /\ PointersOK
  BY <1>1, ArrangementFacts, Ends, ListAssumption DEF ListInv
<1>4. CASE Len(s) = 0
  <2>1. prev[h] = h /\ s = <<>>
    BY <1>3, <1>4, AtFacts, EmptySeq
  <2>2. next' = next /\ prev' = prev /\ ret' = NULL
    BY <2>1 DEF ListPop
  <2>3. [g \in Heads |-> Contents(g)]' = L
    BY <1>1, <2>2, ContentsWillBe
  <2>4. ListInv'
    BY <1>1, <2>2 DEF ListInv, PointersOK, LinksMatch, Cells
  <2> QED
    BY <1>2, <2>1, <2>2, <2>3, <2>4 DEF Seqs!Pop
<1>5. CASE Len(s) # 0
  <2>1. Len(s) \in 1 .. Len(s) /\ s # <<>>
    BY <1>3, <1>5, EmptySeq
  <2>2. prev[h] = s[Len(s)] /\ prev[h] \in Nodes /\ prev[h] # h
    BY <1>3, <2>1, AtFacts
  <2>3. Unlink(prev[h]) /\ ret' = prev[h]
    BY <2>2 DEF ListPop
  <2>4. PICK n \in Nodes : n = prev[h]
    BY <2>2
  <2>5. Unlink(n) /\ n \in Cells
    BY <2>3, <2>4 DEF Unlink, Cells
  <2>6. PointersOK'
    BY <1>3, <2>5, UnlinkKeeps
  <2>7. /\ [g \in Heads |-> Contents(g)]' = [L EXCEPT ![h] = RemoveAt(s, Len(s))]
        /\ \E M \in [Heads -> Arrangements] : Represents(next', prev', M)
    BY <1>1, <1>3, <2>1, <2>2, <2>4, <2>5, UnlinkStep
  <2>8. RemoveAt(s, Len(s)) = Front(s)
    <3>1. /\ RemoveAt(s, Len(s)) \in Arrangements
          /\ Len(RemoveAt(s, Len(s))) = Len(s) - 1
          /\ \A k \in 1 .. Len(s) - 1 : RemoveAt(s, Len(s))[k]
                                            = IF k < Len(s) THEN s[k] ELSE s[k + 1]
      BY <1>3, <2>1, Removed
    <3>2. RemoveAt(s, Len(s)) \in Seq(Nodes)
      BY <3>1, ArrangementFacts
    <3>3. /\ Front(s) \in Seq(Nodes) /\ Len(Front(s)) = Len(s) - 1
          /\ \A k \in 1 .. Len(s) - 1 : Front(s)[k] = s[k]
      <4>1. \A k \in 1 .. Len(s) - 1 : s[k] \in Nodes
        BY <1>3, ArrangementFacts
      <4>2. Len(s) - 1 \in Int /\ 1 \in Int /\ (Len(s) - 1) - 1 + 1 = Len(s) - 1
        BY <1>3
      <4>3. /\ Front(s) \in Seq(Nodes)
            /\ Len(Front(s)) = IF 1 <= Len(s) - 1 THEN Len(s) - 1 - 1 + 1 ELSE 0
            /\ \A k \in 1 .. Len(s) - 1 - 1 + 1 : Front(s)[k] = s[1 + k - 1]
        BY <4>1, <4>2, SubSeqProperties DEF Front
      <4>4. Len(Front(s)) = Len(s) - 1
        <5>1. PICK l, m \in Nat : l = Len(Front(s)) /\ m = Len(s)
          BY <1>3, <4>3, LenProperties
        <5>2. l = IF 1 <= m - 1 THEN m - 1 - 1 + 1 ELSE 0
          BY <4>3, <5>1
        <5>3. m # 0
          BY <1>5, <5>1
        <5>4. l = m - 1
          BY <5>2, <5>3
        <5> QED
          BY <5>1, <5>4
      <4>5. ASSUME NEW k \in 1 .. Len(s) - 1
            PROVE  Front(s)[k] = s[k]
        <5>1. k \in 1 .. Len(s) - 1 - 1 + 1 /\ 1 + k - 1 = k
          BY <1>3
        <5> QED
          BY <4>3, <5>1
      <4> QED
        BY <4>3, <4>4, <4>5
    <3>4. \A k \in 1 .. Len(s) - 1 : k < Len(s)
      BY <1>3
    <3> QED
      BY <3>1, <3>2, <3>3, <3>4, SeqEqual
  <2>9. Seqs!Pop(h)
    <3>1. [L EXCEPT ![h] = Seqs!Front(L[h])] = [L EXCEPT ![h] = RemoveAt(s, Len(s))]
      BY <2>8, SameOperators
    <3>2. Seqs!Last(L[h]) = prev[h]
      BY <2>2, SameOperators DEF Last
    <3> QED
      BY <1>2, <2>1, <2>3, <2>7, <3>1, <3>2 DEF Seqs!Pop
  <2> QED
    BY <2>2, <2>3, <2>6, <2>7, <2>9 DEF ListInv
<1> QED
  BY <1>4, <1>5

LEMMA PopTailStep ==
    ASSUME ListInv, NEW h \in Heads, ListPopTail(h)
    PROVE  ListInv' /\ Seqs!PopTail(h)
<1>1. PICK L \in [Heads -> Arrangements] : Represents(next, prev, L)
  BY DEF ListInv
<1>2. [g \in Heads |-> Contents(g)] = L
  BY <1>1, ContentsAre
<1> DEFINE s == L[h]
<1>3. /\ s \in Seq(Nodes) /\ s \in Arrangements /\ Len(s) \in Nat
      /\ next[h] = At(h, s, 1) /\ h \notin Nodes /\ PointersOK
  BY <1>1, ArrangementFacts, Ends, ListAssumption DEF ListInv
<1>4. CASE Len(s) = 0
  <2>1. next[h] = h /\ s = <<>>
    BY <1>3, <1>4, AtFacts, EmptySeq
  <2>2. next' = next /\ prev' = prev /\ ret' = NULL
    BY <2>1 DEF ListPopTail
  <2>3. [g \in Heads |-> Contents(g)]' = L
    BY <1>1, <2>2, ContentsWillBe
  <2>4. ListInv'
    BY <1>1, <2>2 DEF ListInv, PointersOK, LinksMatch, Cells
  <2> QED
    BY <1>2, <2>1, <2>2, <2>3, <2>4 DEF Seqs!PopTail
<1>5. CASE Len(s) # 0
  <2>1. 1 \in 1 .. Len(s) /\ s # <<>>
    BY <1>3, <1>5, EmptySeq
  <2>2. next[h] = s[1] /\ next[h] \in Nodes /\ next[h] # h
    BY <1>3, <2>1, AtFacts
  <2>3. Unlink(next[h]) /\ ret' = next[h]
    BY <2>2 DEF ListPopTail
  <2>4. PICK n \in Nodes : n = next[h]
    BY <2>2
  <2>5. Unlink(n) /\ n \in Cells
    BY <2>3, <2>4 DEF Unlink, Cells
  <2>6. PointersOK'
    BY <1>3, <2>5, UnlinkKeeps
  <2>7. /\ [g \in Heads |-> Contents(g)]' = [L EXCEPT ![h] = RemoveAt(s, 1)]
        /\ \E M \in [Heads -> Arrangements] : Represents(next', prev', M)
    BY <1>1, <1>3, <2>1, <2>2, <2>4, <2>5, UnlinkStep
  <2>8. RemoveAt(s, 1) = Tail(s)
    <3>1. /\ RemoveAt(s, 1) \in Arrangements
          /\ Len(RemoveAt(s, 1)) = Len(s) - 1
          /\ \A k \in 1 .. Len(s) - 1 : RemoveAt(s, 1)[k]
                                            = IF k < 1 THEN s[k] ELSE s[k + 1]
      BY <1>3, <2>1, Removed
    <3>2. RemoveAt(s, 1) \in Seq(Nodes)
      BY <3>1, ArrangementFacts
    <3>3. /\ Tail(s) \in Seq(Nodes) /\ Len(Tail(s)) = Len(s) - 1
          /\ \A k \in 1 .. Len(Tail(s)) : Tail(s)[k] = s[k + 1]
      BY <1>3, <2>1, HeadTailProperties
    <3>4. \A k \in 1 .. Len(s) - 1 : ~ (k < 1)
      BY <1>3
    <3> QED
      BY <3>1, <3>2, <3>3, <3>4, SeqEqual
  <2>9. Head(s) = s[1]
    BY <1>3, <2>1
  <2>10. Seqs!PopTail(h)
    BY <1>2, <2>1, <2>2, <2>3, <2>7, <2>8, <2>9 DEF Seqs!PopTail
  <2> QED
    BY <2>2, <2>3, <2>6, <2>7, <2>10 DEF ListInv
<1> QED
  BY <1>4, <1>5
-----------------------------------------------------------------------------
(* Every step *)

LEMMA InitRepresents == Init => ListInv
<1> SUFFICES ASSUME Init
             PROVE  ListInv
  OBVIOUS
<1> DEFINE L == [h \in Heads |-> <<>>]
<1>1. <<>> \in Seq(Nodes) /\ IsInjective(<<>>) /\ Len(<<>>) = 0 /\ ToSet(<<>>) = {}
  BY DEF IsInjective, ToSet
<1>2. <<>> \in Arrangements
  BY <1>1, IsArrangement
<1>3. L \in [Heads -> Arrangements]
  BY <1>2
<1>4. ASSUME NEW h \in Heads
      PROVE  Linked(next, prev, h, <<>>)
  <2>1. At(h, <<>>, 0) = h /\ At(h, <<>>, 0 + 1) = h
    BY <1>1, <1>2, AtFacts
  <2>2. next[h] = h /\ prev[h] = h
    BY DEF Init, Cells
  <2> QED
    BY <1>1, <2>1, <2>2 DEF Linked
<1>5. \A n \in Nodes : next[n] = n
  BY DEF Init, Cells
<1>6. Represents(next, prev, L)
  BY <1>1, <1>3, <1>4, <1>5 DEF Represents
<1>7. PointersOK
  BY DEF Init, PointersOK, LinksMatch
<1>8. ret \in Nodes \cup {NULL}
  BY DEF Init
<1> QED
  BY <1>3, <1>6, <1>7, <1>8 DEF ListInv

LEMMA HeadsApart ==
    ASSUME NEW h \in Heads, NEW n \in Nodes
    PROVE  h \in Cells /\ h # n
BY ListAssumption DEF Cells

LEMMA PromiseKept == ASSUME ListInv PROVE AsPromised
<1>1. ASSUME NEW h \in Heads
      PROVE  /\ ListPop(h) => Seqs!Pop(h)
             /\ ListPopTail(h) => Seqs!PopTail(h)
  BY PopStep, PopTailStep
<1>2. ASSUME NEW n \in Nodes
      PROVE  ListDel(n) => Seqs!Del(n)
  BY DelStep
<1>3. ASSUME NEW n \in Nodes, NEW h \in Heads
      PROVE  /\ ListAdd(h, n) => Seqs!InsertAfter(h, n)
             /\ ListAddTail(h, n) => Seqs!InsertBefore(h, n)
  BY HeadsApart, InsertAfterStep, InsertBeforeStep DEF ListAdd, ListAddTail
<1>4. ASSUME NEW n \in Nodes, NEW c \in Nodes \ {n}
      PROVE  /\ ListInsertAfter(c, n) => Seqs!InsertAfter(c, n)
             /\ ListInsertBefore(c, n) => Seqs!InsertBefore(c, n)
  <2>1. c \in Cells /\ c # n
    BY DEF Cells
  <2> QED
    BY <2>1, InsertAfterStep, InsertBeforeStep
<1> QED
  BY <1>1, <1>2, <1>3, <1>4 DEF AsPromised

LEMMA NextRepresents ==
    ASSUME ListInv, Next
    PROVE  ListInv' /\ Seqs!SeqNext
<1>1. ASSUME NEW h \in Heads, ListPop(h) \/ ListPopTail(h)
      PROVE  ListInv' /\ Seqs!SeqNext
  BY <1>1, PopStep, PopTailStep DEF Seqs!SeqNext
<1>2. ASSUME NEW n \in Nodes, ListDel(n)
      PROVE  ListInv' /\ Seqs!SeqNext
  BY <1>2, DelStep DEF Seqs!SeqNext
<1>3. ASSUME NEW n \in Nodes, NEW c \in Cells, c # n,
             ListInsertAfter(c, n) \/ ListInsertBefore(c, n)
      PROVE  ListInv' /\ Seqs!SeqNext
  BY <1>3, InsertAfterStep, InsertBeforeStep DEF Seqs!SeqNext, Cells
<1>4. ASSUME NEW n \in Nodes, NEW h \in Heads, ListAdd(h, n) \/ ListAddTail(h, n)
      PROVE  ListInv' /\ Seqs!SeqNext
  BY <1>3, <1>4, HeadsApart DEF ListAdd, ListAddTail
<1>5. ASSUME NEW n \in Nodes, NEW c \in Nodes \ {n},
             ListInsertAfter(c, n) \/ ListInsertBefore(c, n)
      PROVE  ListInv' /\ Seqs!SeqNext
  <2>1. c \in Cells /\ c # n
    BY DEF Cells
  <2> QED
    BY <1>3, <1>5, <2>1
<1> QED
  BY <1>1, <1>2, <1>4, <1>5 DEF Next

LEMMA StutterRepresents ==
    ASSUME ListInv, UNCHANGED vars
    PROVE  ListInv' /\ UNCHANGED Seqs!seqVars
<1>1. next' = next /\ prev' = prev /\ ret' = ret
  BY DEF vars
<1>2. PICK L \in [Heads -> Arrangements] : Represents(next, prev, L)
  BY DEF ListInv
<1>3. [h \in Heads |-> Contents(h)] = L /\ [h \in Heads |-> Contents(h)]' = L
  BY <1>1, <1>2, ContentsAre, ContentsWillBe
<1>4. UNCHANGED Seqs!seqVars
  BY <1>1, <1>3 DEF Seqs!seqVars
<1>5. ListInv'
  BY <1>1, <1>2 DEF ListInv, PointersOK, LinksMatch, Cells
<1> QED
  BY <1>4, <1>5

\* At all times there are sequences the pointers represent.
THEOREM Representation == Spec => []ListInv
<1>1. ListInv /\ [Next]_vars => ListInv'
  BY NextRepresents, StutterRepresents
<1> QED
  BY <1>1, InitRepresents, PTL DEF Spec

\* Pointers point to cells, and list_pop() and list_pop_tail() return nodes,
\* never a head, or NULL.
THEOREM ListTypeCorrect == Spec => []TypeOK
<1>1. ListInv => TypeOK
  BY DEF ListInv, PointersOK, TypeOK
<1> QED
  BY <1>1, Representation, PTL

\* No ring of nodes is ever cut off from its head, no node is in two lists, and
\* a node in none points to itself, so that list_del() of it is safe.
THEOREM EveryCellHasItsPlace == Spec => []EveryCellPlaced
<1>1. ASSUME ListInv
      PROVE  EveryCellPlaced
  <2>1. PICK L \in [Heads -> Arrangements] : Represents(next, prev, L)
    BY <1>1 DEF ListInv
  <2>2. \A h \in Heads : Contents(h) = L[h]
    BY <2>1, ContentsAre
  <2>3. ASSUME NEW h \in Heads
        PROVE  \E s \in Arrangements : IsListOf(h, s)
    <3>1. L[h] \in Arrangements /\ Linked(next, prev, h, L[h])
      BY <2>1 DEF Represents
    <3> QED
      BY <3>1, IsListOfLinked
  <2>4. ASSUME NEW n \in Nodes
        PROVE  \/ Alone(n) /\ \A h \in Heads : n \notin ToSet(Contents(h))
               \/ \E h \in Heads : \A g \in Heads : n \in ToSet(Contents(g)) <=> g = h
    <3>1. CASE Alone(n)
      BY <2>1, <2>2, <3>1, InListIsListed
    <3>2. CASE ~ Alone(n)
      <4>1. PICK h \in Heads : n \in ToSet(L[h])
        BY <2>1, <3>2, InListIsListed
      <4>2. \A g \in Heads : n \in ToSet(L[g]) <=> g = h
        BY <2>1, <4>1 DEF Represents
      <4> QED
        BY <2>2, <4>2
    <3> QED
      BY <3>1, <3>2
  <2> QED
    BY <2>3, <2>4 DEF EveryCellPlaced
<1> QED
  BY <1>1, Representation, PTL

\* lib/list.c implements sequences: the pointer writes of every call amount to
\* one insertion, deletion or pop of SeqLists.
THEOREM SequencesImplemented == Spec => ImplementsSeqLists
<1>1. Init => Seqs!SeqInit
  <2> SUFFICES ASSUME Init
               PROVE  Seqs!SeqInit
    OBVIOUS
  <2> DEFINE L == [h \in Heads |-> <<>>]
  <2>1. PICK M \in [Heads -> Arrangements] : Represents(next, prev, M)
    BY InitRepresents DEF ListInv
  <2>2. ASSUME NEW h \in Heads
        PROVE  M[h] = <<>>
    <3>1. M[h] \in Arrangements /\ Linked(next, prev, h, M[h])
      BY <2>1 DEF Represents
    <3>2. /\ M[h] \in Seq(Nodes) /\ Len(M[h]) \in Nat /\ next[h] = h /\ h \notin Nodes
      BY <3>1, ArrangementFacts, ListAssumption DEF Init, Cells
    <3>3. next[h] = At(h, M[h], 1)
      BY <2>1, Ends
    <3>4. ~ (1 <= Len(M[h]))
      BY <3>1, <3>2, <3>3, AtFacts
    <3>5. Len(M[h]) = 0
      BY <3>2, <3>4
    <3> QED
      BY <3>2, <3>5, EmptySeq
  <2>3. M = L
    BY <2>2
  <2>4. [h \in Heads |-> Contents(h)] = L
    BY <2>1, <2>3, ContentsAre
  <2> QED
    BY <2>4 DEF Seqs!SeqInit, Init
<1>2. ListInv /\ [Next]_vars => [Seqs!SeqNext]_(Seqs!seqVars)
  BY NextRepresents, StutterRepresents
<1> QED
  BY <1>1, <1>2, Representation, PTL DEF Spec, ImplementsSeqLists, Seqs!SeqSpec

\* Moreover each function does what is promised of it, and not of another one.
THEOREM CallsAsPromised == Spec => EachCallAsPromised
<1>1. ListInv /\ [Next]_vars => [AsPromised]_vars
  BY PromiseKept
<1> QED
  BY <1>1, Representation, PTL DEF Spec, EachCallAsPromised
===========================================================================
