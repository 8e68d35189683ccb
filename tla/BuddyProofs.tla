---------------------------- MODULE BuddyProofs ----------------------------
(***************************************************************************)
(* Proofs about the buddy allocator, for every size of memory, number of   *)
(* orders and order in which boot frees its pages.                         *)
(***************************************************************************)
EXTENDS Buddy, SequenceTheorems, WellFoundedInduction, TLAPS

-----------------------------------------------------------------------------
(* Free lists as sequences *)

\* list_add() puts its page into the list and nothing else.
LEMMA ListAddProperties ==
    ASSUME NEW S, NEW s \in Seq(S), NEW p \in S
    PROVE  /\ ListAdd(s, p) \in Seq(S)
           /\ ToSet(ListAdd(s, p)) = ToSet(s) \cup {p}
           /\ p \notin ToSet(s) /\ IsInjective(s) => IsInjective(ListAdd(s, p))
<1> DEFINE t == ListAdd(s, p)
<1>1. t \in Seq(S) /\ Len(t) = Len(s) + 1 /\ t[1] = p
      /\ \A i \in 1 .. Len(s) : t[i + 1] = s[i]
  BY DEF ListAdd
<1>2. DOMAIN t = 1 .. Len(s) + 1 /\ DOMAIN s = 1 .. Len(s) /\ Len(s) \in Nat
  BY <1>1
<1> HIDE DEF t
<1>3. \A i \in 2 .. Len(s) + 1 : t[i] = s[i - 1]
  <2> TAKE i \in 2 .. Len(s) + 1
  <2>1. i - 1 \in 1 .. Len(s) /\ (i - 1) + 1 = i BY <1>2
  <2> QED BY <1>1, <2>1
<1>4. ToSet(t) = ToSet(s) \cup {p}
  <2>1. ASSUME NEW i \in 1 .. Len(s) PROVE s[i] \in ToSet(t)
    <3>1. i + 1 \in DOMAIN t /\ t[i + 1] = s[i] BY <1>1, <1>2
    <3> QED BY <3>1 DEF ToSet
  <2>2. ASSUME NEW i \in 1 .. Len(s) + 1 PROVE t[i] \in ToSet(s) \cup {p}
    <3>1. CASE i = 1 BY <3>1, <1>1
    <3>2. CASE i # 1
      <4>1. i \in 2 .. Len(s) + 1 /\ i - 1 \in DOMAIN s BY <3>2, <1>2
      <4> QED BY <4>1, <1>3 DEF ToSet
    <3> QED BY <3>1, <3>2
  <2>3. p \in ToSet(t) BY <1>1, <1>2 DEF ToSet
  <2> QED BY <2>1, <2>2, <2>3, <1>2 DEF ToSet
<1>5. p \notin ToSet(s) /\ IsInjective(s) => IsInjective(t)
  <2> SUFFICES ASSUME p \notin ToSet(s), IsInjective(s),
                      NEW i \in 1 .. Len(s) + 1, NEW j \in 1 .. Len(s) + 1,
                      t[i] = t[j], i # j
               PROVE  FALSE
    BY <1>2 DEF IsInjective
  <2>1. i = 1 => t[j] = s[j - 1] /\ j - 1 \in DOMAIN s BY <1>2, <1>3
  <2>2. j = 1 => t[i] = s[i - 1] /\ i - 1 \in DOMAIN s BY <1>2, <1>3
  <2>3. i # 1 /\ j # 1 => /\ s[i - 1] = s[j - 1] /\ i - 1 # j - 1
                          /\ i - 1 \in DOMAIN s /\ j - 1 \in DOMAIN s
    BY <1>2, <1>3
  <2> QED BY <2>1, <2>2, <2>3, <1>1 DEF ToSet, IsInjective
<1> QED BY <1>1, <1>4, <1>5 DEF t

\* list_pop_tail() takes exactly the page in front out.
LEMMA PopProperties ==
    ASSUME NEW S, NEW s \in Seq(S), s # <<>>, IsInjective(s)
    PROVE  /\ Tail(s) \in Seq(S) /\ IsInjective(Tail(s))
           /\ Head(s) \in ToSet(s)
           /\ ToSet(Tail(s)) = ToSet(s) \ {Head(s)}
<1> DEFINE t == Tail(s)
<1>1. t \in Seq(S) /\ Len(t) = Len(s) - 1 /\ Head(s) = s[1] /\ Len(s) \in Nat \ {0}
      /\ \A i \in 1 .. Len(s) - 1 : t[i] = s[i + 1]
  OBVIOUS
<1>2. DOMAIN t = 1 .. Len(s) - 1 /\ DOMAIN s = 1 .. Len(s)
  BY <1>1
<1> HIDE DEF t
<1>4. ToSet(t) = ToSet(s) \ {Head(s)}
  <2>1. ASSUME NEW i \in 1 .. Len(s), i # 1 PROVE s[i] \in ToSet(t)
    <3>1. i - 1 \in 1 .. Len(s) - 1 /\ t[i - 1] = s[i] BY <1>1, <2>1
    <3> QED BY <3>1, <1>2 DEF ToSet
  <2>2. ASSUME NEW i \in 1 .. Len(s) - 1 PROVE t[i] \in ToSet(s) \ {s[1]}
    BY <2>2, <1>1, <1>2 DEF ToSet, IsInjective
  <2> QED BY <2>1, <2>2, <1>1, <1>2 DEF ToSet
<1>5. IsInjective(t)
  <2> SUFFICES ASSUME NEW i \in 1 .. Len(s) - 1, NEW j \in 1 .. Len(s) - 1,
                      t[i] = t[j]
               PROVE  i = j
    BY <1>2 DEF IsInjective
  <2>1. s[i + 1] = s[j + 1] /\ i + 1 \in DOMAIN s /\ j + 1 \in DOMAIN s
    BY <1>1, <1>2
  <2> QED BY <2>1 DEF IsInjective
<1>6. Head(s) \in ToSet(s)
  BY <1>1, <1>2 DEF ToSet
<1> QED BY <1>1, <1>4, <1>5, <1>6 DEF t

\* RemoveAt() closes the gap it leaves.
LEMMA RemoveAtProperties ==
    ASSUME NEW S, NEW s \in Seq(S), NEW i \in 1 .. Len(s)
    PROVE  /\ RemoveAt(s, i) \in Seq(S)
           /\ Len(RemoveAt(s, i)) = Len(s) - 1
           /\ \A j \in 1 .. Len(s) - 1 :
                 RemoveAt(s, i)[j] = IF j < i THEN s[j] ELSE s[j + 1]
<1> DEFINE n == Len(s)
           u == SubSeq(s, 1, i - 1)
           v == SubSeq(s, i + 1, n)
<1>1. n \in Nat /\ i \in 1 .. n /\ \A j \in 1 .. n : s[j] \in S
  OBVIOUS
<1>2. RemoveAt(s, i) = u \o v BY DEF RemoveAt
<1> HIDE DEF n
<1>3. u \in Seq(S) /\ Len(u) = i - 1 /\ \A j \in 1 .. i - 1 : u[j] = s[j]
  <2>1. \A j \in 1 .. i - 1 : s[j] \in S BY <1>1
  <2>2. 1 \in Int /\ i - 1 \in Int /\ i - 1 - 1 + 1 = i - 1 BY <1>1
  <2>3. /\ u \in Seq(S) /\ Len(u) = IF 1 <= i - 1 THEN i - 1 - 1 + 1 ELSE 0
        /\ \A j \in 1 .. i - 1 - 1 + 1 : u[j] = s[1 + j - 1]
    BY <2>1, <2>2, SubSeqProperties
  <2> HIDE DEF u
  <2> QED BY <2>2, <2>3, <1>1
<1>4. /\ v \in Seq(S) /\ Len(v) = n - i
      /\ \A j \in 1 .. n - i : v[j] = s[i + j]
  <2>1. \A j \in i + 1 .. n : s[j] \in S BY <1>1
  <2>2. i + 1 \in Int /\ n \in Int /\ n - (i + 1) + 1 = n - i BY <1>1
  <2>3. /\ v \in Seq(S) /\ Len(v) = IF i + 1 <= n THEN n - (i + 1) + 1 ELSE 0
        /\ \A j \in 1 .. n - (i + 1) + 1 : v[j] = s[(i + 1) + j - 1]
    BY <2>1, <2>2, SubSeqProperties
  <2> HIDE DEF v
  <2>4. Len(v) = n - i BY <2>2, <2>3, <1>1
  <2>5. ASSUME NEW j \in 1 .. n - i PROVE v[j] = s[i + j]
    <3>1. (i + 1) + j - 1 = i + j BY <1>1
    <3> QED BY <3>1, <2>2, <2>3
  <2> QED BY <2>3, <2>4, <2>5
<1> HIDE DEF u, v
<1>5. /\ u \o v \in Seq(S) /\ Len(u \o v) = Len(u) + Len(v)
      /\ \A j \in 1 .. Len(u) + Len(v) :
            (u \o v)[j] = IF j <= Len(u) THEN u[j] ELSE v[j - Len(u)]
  BY <1>3, <1>4, ConcatProperties
<1>6. Len(u) + Len(v) = n - 1 BY <1>1, <1>3, <1>4
<1>7. ASSUME NEW j \in 1 .. n - 1
      PROVE  (u \o v)[j] = IF j < i THEN s[j] ELSE s[j + 1]
  <2>1. CASE j < i
    <3>1. j \in 1 .. i - 1 /\ j <= Len(u) BY <2>1, <1>1, <1>3
    <3> QED BY <3>1, <2>1, <1>3, <1>5, <1>6
  <2>2. CASE ~ (j < i)
    <3>1. /\ ~ (j <= Len(u)) /\ j - Len(u) \in 1 .. n - i
          /\ i + (j - Len(u)) = j + 1
      BY <2>2, <1>1, <1>3
    <3> QED BY <3>1, <2>2, <1>4, <1>5, <1>6
  <2> QED BY <2>1, <2>2
<1> QED BY <1>2, <1>5, <1>6, <1>7 DEF n

\* list_del() takes exactly its page out.
LEMMA ListDelProperties ==
    ASSUME NEW S, NEW s \in Seq(S), NEW p \in ToSet(s), IsInjective(s)
    PROVE  /\ ListDel(s, p) \in Seq(S)
           /\ IsInjective(ListDel(s, p))
           /\ ToSet(ListDel(s, p)) = ToSet(s) \ {p}
<1> DEFINE at == CHOOSE i \in DOMAIN s : s[i] = p
<1>1. at \in DOMAIN s /\ s[at] = p BY DEF ToSet
<1>2. PICK i \in 1 .. Len(s) : i = at /\ s[i] = p BY <1>1
<1> DEFINE t == RemoveAt(s, i)
<1>3. t = ListDel(s, p) BY <1>2 DEF ListDel
<1>4. /\ t \in Seq(S) /\ Len(t) = Len(s) - 1
      /\ \A j \in 1 .. Len(s) - 1 : t[j] = IF j < i THEN s[j] ELSE s[j + 1]
  BY RemoveAtProperties
<1> HIDE DEF t, at
<1>5. DOMAIN s = 1 .. Len(s) /\ DOMAIN t = 1 .. Len(s) - 1 /\ Len(s) \in Nat
  BY <1>4
<1>6. IsInjective(t)
  <2> SUFFICES ASSUME NEW j \in 1 .. Len(s) - 1, NEW k \in 1 .. Len(s) - 1,
                      t[j] = t[k]
               PROVE  j = k
    BY <1>5 DEF IsInjective
  <2>1. /\ j \in DOMAIN s /\ j + 1 \in DOMAIN s
        /\ k \in DOMAIN s /\ k + 1 \in DOMAIN s
    BY <1>5
  <2>2. \A a, b \in DOMAIN s : s[a] = s[b] => a = b BY DEF IsInjective
  <2>3. t[j] = (IF j < i THEN s[j] ELSE s[j + 1])
        /\ t[k] = (IF k < i THEN s[k] ELSE s[k + 1])
    BY <1>4
  <2>4. (IF j < i THEN j ELSE j + 1) = (IF k < i THEN k ELSE k + 1)
    BY <2>1, <2>2, <2>3
  <2> QED BY <2>4, <1>5
<1>7. ASSUME NEW j \in 1 .. Len(s), j # i PROVE s[j] \in ToSet(t)
  <2>1. CASE j < i
    <3>1. j \in DOMAIN t /\ t[j] = s[j] BY <1>4, <1>5, <2>1
    <3> QED BY <3>1 DEF ToSet
  <2>2. CASE j > i
    <3>1. j - 1 \in DOMAIN t /\ t[j - 1] = s[j] BY <1>4, <1>5, <2>2
    <3> QED BY <3>1 DEF ToSet
  <2> QED BY <1>5, <1>7, <2>1, <2>2
<1>8. ASSUME NEW j \in 1 .. Len(s) - 1 PROVE t[j] \in ToSet(s) \ {p}
  <2>1. PICK m \in DOMAIN s : t[j] = s[m] /\ m # i
    <3>1. /\ j \in DOMAIN s /\ j + 1 \in DOMAIN s
          /\ j < i => j # i
          /\ ~ (j < i) => j + 1 # i
      BY <1>5
    <3> QED BY <1>4, <3>1
  <2> QED BY <2>1, <1>2, <1>5 DEF ToSet, IsInjective
<1>9. ToSet(t) = ToSet(s) \ {p}
  BY <1>2, <1>5, <1>7, <1>8 DEF ToSet
<1> QED BY <1>3, <1>4, <1>6, <1>9

-----------------------------------------------------------------------------
(* Arithmetic of aligned blocks *)

\* A number with remainder zero is a multiple ...
LEMMA ZeroRemainder ==
    ASSUME NEW S \in Nat \ {0}, NEW p \in Nat, p % S = 0
    PROVE  \E m \in Nat : p = m * S
OBVIOUS

\* ... and a multiple plus a small rest has that rest as its remainder.
LEMMA Remainder ==
    ASSUME NEW S \in Nat \ {0}, NEW m \in Nat, NEW r \in 0 .. S - 1
    PROVE  (m * S + r) % S = r
OBVIOUS

\* A multiple has remainder zero.
LEMMA MultipleRemainder ==
    ASSUME NEW S \in Nat \ {0}, NEW m \in Nat
    PROVE  (m * S) % S = 0
OBVIOUS

\* The next multiple of S is S further.
LEMMA NextMultiple ==
    ASSUME NEW S \in Nat \ {0}, NEW a \in Nat, a % S = 0
    PROVE  (a + S) % S = 0
<1>1. PICK m \in Nat : a = m * S BY ZeroRemainder
<1>2. a + S = (m + 1) * S /\ m + 1 \in Nat BY <1>1
<1> QED BY <1>2, MultipleRemainder

\* Two different multiples of S are at least S apart.
LEMMA Gap ==
    ASSUME NEW S \in Nat \ {0}, NEW a \in Nat, NEW b \in Nat,
           a % S = 0, b % S = 0, a < b
    PROVE  a + S <= b
<1>1. PICK m \in Nat : a = m * S BY ZeroRemainder
<1>2. PICK n \in Nat : b = n * S BY ZeroRemainder
<1>3. n >= m + 1
  <2> SUFFICES ASSUME n <= m PROVE FALSE BY SMT
  <2>1. n * S <= m * S BY SMT
  <2> QED BY <2>1, <1>1, <1>2
<1>4. n * S >= (m + 1) * S BY <1>3, SMT
<1> QED BY <1>1, <1>2, <1>4

\* A multiple of a multiple is a multiple.
LEMMA Coarser ==
    ASSUME NEW S \in Nat \ {0}, NEW T \in Nat \ {0}, NEW a \in Nat,
           T % S = 0, a % T = 0
    PROVE  a % S = 0
<1>1. PICK m \in Nat : a = m * T BY ZeroRemainder
<1>2. PICK n \in Nat : T = n * S BY ZeroRemainder
<1>3. a = (m * n) * S /\ m * n \in Nat BY <1>1, <1>2
<1> QED BY <1>3, MultipleRemainder

\* Half of the multiples of S are multiples of 2S, the others lie S above.
LEMMA Halves ==
    ASSUME NEW S \in Nat \ {0}, NEW p \in Nat, p % S = 0
    PROVE  /\ p % (2 * S) = 0 \/ p % (2 * S) = S
           /\ p % (2 * S) = 0 => (p + S) % S = 0 /\ (p + S) % (2 * S) = S
           /\ p % (2 * S) = S =>
                 /\ p - S \in Nat
                 /\ (p - S) % S = 0
                 /\ (p - S) % (2 * S) = 0
<1> DEFINE T == 2 * S
<1>1. T \in Nat \ {0} /\ 0 \in 0 .. T - 1 /\ S \in 0 .. T - 1 /\ T % S = 0
      /\ T = 2 * S
  <2>1. (2 * S) % S = 0 BY MultipleRemainder
  <2> QED BY <2>1
<1> HIDE DEF T
<1>2. PICK m \in Nat : p = m * S BY ZeroRemainder
<1>3. PICK n \in Nat : m = 2 * n \/ m = 2 * n + 1
  <2>1. m \div 2 \in Nat /\ (m = 2 * (m \div 2) \/ m = 2 * (m \div 2) + 1)
    OBVIOUS
  <2> QED BY <2>1
<1>4. CASE m = 2 * n
  <2>1. p = n * T /\ p + S = n * T + S /\ p + S = (m + 1) * S
        /\ m + 1 \in Nat
    BY <1>1, <1>2, <1>4
  <2>2. p % T = 0 BY <1>2, <1>4, <2>1, <1>1, MultipleRemainder
  <2>3. (p + S) % T = S BY <2>1, <1>1, Remainder
  <2>4. (p + S) % S = 0 BY <2>1, MultipleRemainder
  <2> QED BY <2>2, <2>3, <2>4, <1>1
<1>5. CASE m = 2 * n + 1
  <2>1. p = n * T + S /\ p - S = n * T /\ p - S = (2 * n) * S
        /\ n * T \in Nat /\ 2 * n \in Nat
    BY <1>1, <1>2, <1>5
  <2>2. p % T = S BY <2>1, <1>1, Remainder
  <2>3. (p - S) % T = 0 BY <2>1, <1>1, MultipleRemainder
  <2>4. (p - S) % S = 0 BY <2>1, MultipleRemainder
  <2> QED BY <2>1, <2>2, <2>3, <2>4, <1>1
<1> QED BY <1>3, <1>4, <1>5

\* A larger power of two is a multiple of a smaller one: the smallest that is not
\* would be twice one that is.
LEMMA PowersDivide ==
    \A j, k \in 0 .. BUDDY_MAX_ORDER : j <= k => Size[k] % Size[j] = 0
<1> SUFFICES ASSUME NEW j \in 0 .. BUDDY_MAX_ORDER
             PROVE  \A k \in j .. BUDDY_MAX_ORDER : Size[k] % Size[j] = 0
  OBVIOUS
<1> DEFINE T == {k \in j .. BUDDY_MAX_ORDER : Size[k] % Size[j] # 0}
<1>1. SUFFICES ASSUME T # {} PROVE FALSE
  OBVIOUS
<1>2. PICK k \in T : \A i \in T : ~ (<<i, k>> \in OpToRel(<, Nat))
  <2>1. T \subseteq Nat
    OBVIOUS
  <2> QED
    BY <1>1, <2>1, NatLessThanWellFounded, WFMin
<1>3. k \in j .. BUDDY_MAX_ORDER /\ Size[k] % Size[j] # 0 /\ Size[j] \in Nat \ {0}
  BY SizeAssumption
<1>4. k # j
  <2>1. (1 * Size[j]) % Size[j] = 0 /\ 1 * Size[j] = Size[j]
    BY <1>3, MultipleRemainder
  <2> QED
    BY <1>3, <2>1
<1>5. /\ k - 1 \in j .. BUDDY_MAX_ORDER /\ k - 1 \in 0 .. BUDDY_MAX_ORDER - 1
      /\ k \in 0 .. BUDDY_MAX_ORDER /\ (k - 1) + 1 = k
      /\ k - 1 \in Nat /\ k \in Nat /\ k - 1 < k
  BY <1>3, <1>4, PageBlocksAssumption
<1>6. Size[k - 1] % Size[j] = 0
  <2>1. k - 1 \notin T
    BY <1>2, <1>5 DEF OpToRel
  <2> QED
    BY <1>5, <2>1
<1>7. /\ Size[k] = 2 * Size[k - 1]
      /\ Size[k] \in Nat \ {0} /\ Size[k - 1] \in Nat \ {0}
  BY <1>5, SizeAssumption, PageBlocksAssumption
<1>8. Size[k] % Size[k - 1] = 0
  BY <1>7, MultipleRemainder
<1>9. Size[k] % Size[j] = 0
  BY <1>3, <1>6, <1>7, <1>8, Coarser
<1> QED
  BY <1>3, <1>9

\* Sizes are positive, double from order to order, divide one another and so
\* grow with the order.
LEMMA Sizes ==
    /\ \A k \in Orders : k \in 0 .. BUDDY_MAX_ORDER /\ k + 1 \in 0 .. BUDDY_MAX_ORDER
    /\ \A k \in 0 .. BUDDY_MAX_ORDER : Size[k] \in Nat \ {0}
    /\ \A k \in Orders : Size[k + 1] = 2 * Size[k]
    /\ \A j, k \in 0 .. BUDDY_MAX_ORDER : j <= k => Size[j] <= Size[k]
    /\ \A j, k \in 0 .. BUDDY_MAX_ORDER : j < k => 2 * Size[j] <= Size[k]
<1>1. \A k \in Orders : k \in 0 .. BUDDY_MAX_ORDER /\ k + 1 \in 0 .. BUDDY_MAX_ORDER
  BY PageBlocksAssumption DEF Orders
<1>2. \A k \in 0 .. BUDDY_MAX_ORDER : Size[k] \in Nat \ {0}
  BY SizeAssumption
<1>3. \A k \in Orders : Size[k + 1] = 2 * Size[k]
  BY SizeAssumption DEF Orders
<1>4. ASSUME NEW j \in 0 .. BUDDY_MAX_ORDER, NEW k \in 0 .. BUDDY_MAX_ORDER, j <= k
      PROVE  Size[j] <= Size[k]
  <2>1. Size[k] % Size[j] = 0 BY <1>4, PowersDivide
  <2>2. Size[k] \in Nat \ {0} /\ Size[j] \in Nat \ {0} /\ 0 % Size[j] = 0 BY <1>2
  <2>3. 0 + Size[j] <= Size[k] BY <2>1, <2>2, Gap
  <2> QED BY <2>2, <2>3
<1>5. ASSUME NEW j \in 0 .. BUDDY_MAX_ORDER, NEW k \in 0 .. BUDDY_MAX_ORDER, j < k
      PROVE  2 * Size[j] <= Size[k]
  <2>1. j \in Orders /\ j + 1 \in 0 .. BUDDY_MAX_ORDER /\ j + 1 <= k
    BY <1>5, PageBlocksAssumption DEF Orders
  <2> QED BY <2>1, <1>3, <1>4
<1> QED BY <1>1, <1>2, <1>3, <1>4, <1>5

\* The buddy of an aligned block is the other half of the block one order up:
\* the lower of the two starts that block, the upper lies Size[k] above.
LEMMA BuddyHalves ==
    ASSUME NEW k \in Orders, NEW p \in Nat, Aligned(p, k)
    PROVE  /\ BuddyOf(p, k) \in Nat /\ Aligned(BuddyOf(p, k), k)
           /\ BuddyOf(BuddyOf(p, k), k) = p
           /\ p % Size[k + 1] = 0 \/ p % Size[k + 1] = Size[k]
           /\ Aligned(p, k + 1) => BuddyOf(p, k) = p + Size[k]
           /\ ~ Aligned(p, k + 1) =>
                 BuddyOf(p, k) = p - Size[k] /\ Aligned(p - Size[k], k + 1)
<1> DEFINE S == Size[k]
           T == Size[k + 1]
<1>1. S \in Nat \ {0} /\ T = 2 * S /\ T \in Nat \ {0} BY Sizes
<1>2. p % S = 0 BY DEF Aligned
<1> HIDE DEF S, T
<1>3. /\ p % T = 0 \/ p % T = S
      /\ p % T = 0 => (p + S) % S = 0 /\ (p + S) % T = S
      /\ p % T = S => p - S \in Nat /\ (p - S) % S = 0 /\ (p - S) % T = 0
  BY <1>1, <1>2, Halves
<1>4. CASE p % T = 0
  <2>1. BuddyOf(p, k) = p + S BY <1>1, <1>4 DEF BuddyOf, S, T
  <2>2. BuddyOf(p + S, k) = (p + S) - S BY <1>1, <1>3, <1>4 DEF BuddyOf, S, T
  <2> QED BY <1>1, <1>3, <1>4, <2>1, <2>2 DEF Aligned, S, T
<1>5. CASE p % T = S
  <2>1. BuddyOf(p, k) = p - S BY <1>1, <1>5 DEF BuddyOf, S, T
  <2>2. BuddyOf(p - S, k) = (p - S) + S BY <1>1, <1>3, <1>5 DEF BuddyOf, S, T
  <2> QED BY <1>1, <1>3, <1>5, <2>1, <2>2 DEF Aligned, S, T
<1> QED BY <1>3, <1>4, <1>5

-----------------------------------------------------------------------------
(* What the invariant says of pages and blocks *)

\* Boot hands over pages, nothing else.
LEMMA GivenInPages == ASSUME TypeOK PROVE Given \subseteq Pages
<1>1. booted \in 0 .. Len(BootPages) /\ BootPages \in Seq(Pages)
  BY BuddyAssumption DEF TypeOK
<1> QED BY <1>1 DEF Given

\* What the lists say of the pages that start free blocks.
LEMMA ListedPages ==
    ASSUME TypeOK, FreeFlagsMatchLists
    PROVE  /\ FreeHeads \subseteq Pages
           /\ \A k \in Orders : ToSet(buddy_free_list[k]) \subseteq FreeHeads
           /\ \A p \in FreeHeads :
                 /\ pp_order[p] \in Orders
                 /\ p \in ToSet(buddy_free_list[pp_order[p]])
                 /\ pp_free[p] = 1
<1>1. \A k \in Orders : ToSet(buddy_free_list[k]) \subseteq Pages
  BY DEF TypeOK, ToSet
<1>2. \A k \in Orders : ToSet(buddy_free_list[k]) \subseteq FreeHeads
  BY <1>1 DEF FreeHeads
<1>3. ASSUME NEW p \in FreeHeads
      PROVE  /\ pp_order[p] \in Orders
             /\ p \in ToSet(buddy_free_list[pp_order[p]])
             /\ pp_free[p] = 1
  BY <1>3 DEF FreeHeads, FreeFlagsMatchLists
<1> QED BY <1>2, <1>3 DEF FreeHeads

\* A page put in front of a list joins the free heads.
LEMMA FreeHeadsJoin ==
    ASSUME TypeOK, NEW k \in Orders, NEW p \in Pages, NEW l,
           ToSet(l) = ToSet(buddy_free_list[k]) \cup {p},
           buddy_free_list' = [buddy_free_list EXCEPT ![k] = l]
    PROVE  FreeHeads' = FreeHeads \cup {p}
<1>1. /\ buddy_free_list'[k] = l
      /\ \A j \in Orders : j # k => buddy_free_list'[j] = buddy_free_list[j]
  BY DEF TypeOK
<1> QED BY <1>1 DEF FreeHeads

\* A page taken out of its list leaves the free heads.
LEMMA FreeHeadsLeave ==
    ASSUME TypeOK, FreeFlagsMatchLists, NEW k \in Orders,
           NEW p \in ToSet(buddy_free_list[k]), NEW l,
           ToSet(l) = ToSet(buddy_free_list[k]) \ {p},
           buddy_free_list' = [buddy_free_list EXCEPT ![k] = l]
    PROVE  FreeHeads' = FreeHeads \ {p}
<1>1. /\ buddy_free_list'[k] = l
      /\ \A j \in Orders : j # k => buddy_free_list'[j] = buddy_free_list[j]
  BY DEF TypeOK
<1>2. \A j \in Orders : j # k => p \notin ToSet(buddy_free_list[j])
  BY DEF FreeFlagsMatchLists
<1> QED BY <1>1, <1>2 DEF FreeHeads

\* Blocks consist of pages handed over, start with their own first page, and
\* cover what was handed over.
LEMMA LivePages ==
    ASSUME BuddyInv
    PROVE  /\ Live \subseteq Pages
           /\ \A p \in Pages :
                 pp_order[p] \in 0 .. BUDDY_MAX_ORDER /\ Size[pp_order[p]] \in Nat \ {0}
           /\ \A p \in Pages : p \in Block(p)
           /\ \A p \in Live : Block(p) \subseteq Given
           /\ \A p \in Live, q \in Live : p \in Block(q) => p = q
           /\ \A x \in Given : \E p \in Live : x \in Block(p)
<1>1. Live \subseteq Pages
  BY ListedPages DEF BuddyInv, TypeOK, Live
<1>2. \A p \in Pages : pp_order[p] \in 0 .. BUDDY_MAX_ORDER
                       /\ Size[pp_order[p]] \in Nat \ {0}
  BY Sizes DEF BuddyInv, TypeOK
<1>3. \A p \in Pages : p \in Block(p)
  BY <1>2, PageBlocksAssumption DEF Block, Frames, Pages
<1>4. \A p \in Live : Block(p) \subseteq Given
  BY DEF BuddyInv, NoPageLost
<1>5. \A p \in Live, q \in Live : p \in Block(q) => p = q
  BY <1>1, <1>3 DEF BuddyInv, BlocksDisjoint
<1>6. \A x \in Given : \E p \in Live : x \in Block(p)
  BY DEF BuddyInv, NoPageLost
<1> QED BY <1>1, <1>2, <1>3, <1>4, <1>5, <1>6

\* A step that leaves the set of blocks alone keeps what is said of them.
LEMMA BlocksKept ==
    ASSUME BuddyInv, Live' = Live, pp_order' = pp_order, Given' = Given
    PROVE  BlocksDisjoint' /\ NoPageLost' /\ HeadsAligned'
BY DEF BuddyInv, BlocksDisjoint, NoPageLost, HeadsAligned, Block

-----------------------------------------------------------------------------
(* BONUS_LAB1: a legal free is never turned away *)

\* Let p be the upper half of the block one order up.  The page q that starts
\* the lower half is then the first page of a block no larger than p's, or was
\* never handed over: its order cannot exceed p's.
LEMMA FreeAccepted ==
    ASSUME BuddyInv, NEW p \in Pages, pp_order[p] \in Orders,
           Aligned(p, pp_order[p]),
           \A h \in Live : p \in Block(h) => h = p
    PROVE  ~ Misplaced(p) /\ ~ Rejected(p)
<1> DEFINE k == pp_order[p]
           S == Size[k]
           T == Size[k + 1]
           q == p - S
<1>1. /\ k \in Orders /\ k \in 0 .. BUDDY_MAX_ORDER /\ k + 1 \in 0 .. BUDDY_MAX_ORDER
      /\ S \in Nat \ {0} /\ T \in Nat \ {0} /\ T = 2 * S /\ p \in Nat
  BY Sizes, PageBlocksAssumption DEF Pages
<1>2. /\ p % T = 0 \/ p % T = S
      /\ p % T # 0 => BuddyOf(p, k) = q /\ q \in Nat /\ q % T = 0
  BY <1>1, BuddyHalves DEF Aligned
<1>3. Primary(p) = p - (p % T) BY DEF Primary
<1>4. CASE p % T = 0
  BY <1>1, <1>3, <1>4 DEF Misplaced, Rejected
<1>5. CASE p % T = S
  <2>1. Primary(p) = q /\ BuddyOf(p, k) = q /\ q \in Pages /\ q < p /\ q % T = 0
    <3>1. p % T # 0 BY <1>1, <1>5
    <3>2. BuddyOf(p, k) = q /\ q \in Nat /\ q % T = 0 BY <3>1, <1>2
    <3>3. Primary(p) = q BY <1>3, <1>5
    <3> HIDE DEF S, T
    <3>4. q < p /\ q <= NPages - 1 BY <1>1, PageBlocksAssumption DEF Pages
    <3> HIDE DEF q
    <3> QED BY <3>2, <3>3, <3>4, PageBlocksAssumption DEF Pages
  <2>2. ~ Misplaced(p) BY <2>1 DEF Misplaced
  <2>3. SUFFICES ASSUME pp_order[q] > k PROVE FALSE
    BY <2>1, <2>2 DEF Rejected
  <2>4. q \in Given
    <3>1. k \in Nat BY <1>1
    <3>2. pp_order[q] # 0 BY <2>3, <3>1
    <3> QED BY <2>1, <3>2 DEF BuddyInv, PendingUntouched
  <2>5. PICK h \in Live : q \in Block(h) BY <2>4, LivePages
  <2> DEFINE j == pp_order[h]
  <2>6. /\ h \in Pages /\ h \in Nat /\ j \in 0 .. BUDDY_MAX_ORDER
        /\ Size[j] \in Nat \ {0}
        /\ h <= q /\ q < h + Size[j] /\ h % Size[j] = 0 /\ q \in Nat
    <3>1. h \in Pages /\ j \in 0 .. BUDDY_MAX_ORDER /\ Size[j] \in Nat \ {0}
      BY LivePages
    <3>2. h % Size[j] = 0 BY DEF BuddyInv, HeadsAligned, Aligned
    <3>3. h <= q /\ q < h + Size[j]
      BY <2>1, <2>5, <3>1 DEF Block, Frames, Pages
    <3> QED BY <2>1, <3>1, <3>2, <3>3 DEF Pages
  <2>7. h + Size[j] <= q + S
    <3>1. p \notin Block(h) BY <1>1, <2>1, <2>6
    <3> QED BY <3>1, <2>1, <2>6, <1>1 DEF Block, Frames
  <2> HIDE DEF k, S, T, q, j
  <2>8. j <= k
    <3> SUFFICES ASSUME k + 1 <= j PROVE FALSE BY <1>1, <2>6
    <3>1. Size[j] % T = 0 BY <1>1, <2>6, PowersDivide DEF T
    <3>2. (h + Size[j]) % Size[j] = 0 /\ h + Size[j] \in Nat
      BY <2>6, NextMultiple
    <3>3. (h + Size[j]) % T = 0 BY <1>1, <2>6, <3>1, <3>2, Coarser
    <3>4. q + T <= h + Size[j] BY <1>1, <2>1, <2>6, <3>2, <3>3, Gap
    <3> QED BY <3>4, <2>7, <1>1, <2>6
  <2>9. h = q
    <3> SUFFICES ASSUME h < q PROVE FALSE BY <2>6
    <3>1. T % Size[j] = 0 BY <1>1, <2>6, <2>8, PowersDivide DEF T
    <3>2. q % Size[j] = 0 BY <1>1, <2>1, <2>6, <3>1, Coarser
    <3>3. h + Size[j] <= q BY <2>6, <3>2, Gap
    <3> QED BY <3>3, <2>6
  <2> QED BY <2>3, <2>8, <2>9, <1>1, <2>6 DEF j
<1> QED BY <1>2, <1>4, <1>5

-----------------------------------------------------------------------------
(* The invariant holds initially and is kept by every step *)

\* Before page_init() there is nothing to go wrong.
LEMMA InitInv == Init => BuddyInv
<1> SUFFICES ASSUME Init PROVE BuddyInv OBVIOUS
<1> USE DEF Init
<1>1. TypeOK
  <2>1. 0 \in Orders /\ 0 \in 0 .. BUDDY_MAX_ORDER /\ 0 \in 0 .. MaxRef
        /\ 0 \in 0 .. Len(BootPages)
    BY PageBlocksAssumption, BuddyAssumption DEF Orders
  <2>2. buddy_free_list \in [Orders -> Seq(Pages)] OBVIOUS
  <2>3. InFlight = {} BY DEF InFlight
  <2> QED BY <2>1, <2>2, <2>3 DEF TypeOK
<1>2. /\ \A k \in Orders : buddy_free_list[k] = <<>> /\ ToSet(buddy_free_list[k]) = {}
      /\ FreeHeads = {} /\ InFlight = {} /\ Live = {} /\ Given = {}
  <2>1. \A k \in Orders : buddy_free_list[k] = <<>> /\ ToSet(buddy_free_list[k]) = {}
    BY DEF ToSet
  <2>2. FreeHeads = {} BY <2>1 DEF FreeHeads
  <2>3. InFlight = {} BY DEF InFlight
  <2>4. Given = {} BY DEF Given
  <2> QED BY <2>1, <2>2, <2>3, <2>4 DEF Live
<1>3. FreeFlagsMatchLists BY <1>2 DEF FreeFlagsMatchLists, IsInjective
<1>4. BlocksDisjoint /\ NoPageLost /\ HeadsAligned /\ NoFreeBuddies
  BY <1>2 DEF BlocksDisjoint, NoPageLost, HeadsAligned, NoFreeBuddies
<1>5. PendingUntouched /\ HeldInUse /\ InFlightOK
  BY <1>2 DEF PendingUntouched, HeldInUse, InFlightOK
<1> QED BY <1>1, <1>3, <1>4, <1>5 DEF BuddyInv

\* What page_free() does to the page it is called with, whoever calls it.
LEMMA EnterPageFreeStep ==
    ASSUME BuddyInv, pc = "idle", NEW p \in Pages \ FreeHeads,
           pp_order[p] \in Orders, Aligned(p, pp_order[p]),
           \A h \in Live : p \in Block(h) => h = p,
           EnterPageFree(p), UNCHANGED <<pp_order, buddy_free_list, want>>,
           held' \subseteq held \ {p},
           pp_ref' \in [Pages -> 0 .. MaxRef],
           \A x \in Pages : pp_ref'[x] # 0 => x \in held'
    PROVE  /\ pp_free' = [pp_free EXCEPT ![p] = 1]
           /\ pc' = "merge" /\ cur' = p
           /\ FreeHeads' = FreeHeads /\ InFlight = {} /\ InFlight' = {p}
           /\ FreeFlagsMatchLists' /\ NoFreeBuddies' /\ HeldInUse' /\ InFlightOK'
<1>1. pp_free' = [pp_free EXCEPT ![p] = 1] /\ pc' = "merge" /\ cur' = p
  BY FreeAccepted DEF EnterPageFree
<1>2. FreeHeads' = FreeHeads /\ InFlight = {} /\ InFlight' = {p}
  BY <1>1 DEF FreeHeads, InFlight
<1>3. /\ pp_free \in [Pages -> 0 .. 1] /\ pp_free' \in [Pages -> 0 .. 1]
      /\ pp_free'[p] = 1 /\ \A x \in Pages : x # p => pp_free'[x] = pp_free[x]
  BY <1>1 DEF BuddyInv, TypeOK
<1>4. \A x \in FreeHeads : x \in Pages /\ x \notin held' /\ pp_ref'[x] = 0
  BY ListedPages DEF BuddyInv, HeldInUse
<1>5. FreeFlagsMatchLists'
  <2>1. ASSUME NEW j \in Orders, NEW x \in ToSet(buddy_free_list[j])
        PROVE  pp_order[x] = j /\ pp_free'[x] = 1 /\ pp_ref'[x] = 0
    <3>1. x \in FreeHeads BY ListedPages DEF BuddyInv
    <3>2. pp_order[x] = j /\ pp_free[x] = 1
      BY DEF BuddyInv, FreeFlagsMatchLists
    <3> QED BY <3>1, <3>2, <1>3, <1>4
  <2>2. \A x \in Pages : pp_free'[x] = 1 => x \in FreeHeads \cup {p}
    BY <1>2, <1>3 DEF BuddyInv, FreeFlagsMatchLists
  <2> QED BY <1>2, <2>1, <2>2 DEF BuddyInv, FreeFlagsMatchLists
<1>6. NoFreeBuddies' BY DEF BuddyInv, NoFreeBuddies
<1>7. HeldInUse'
  <2>1. \A x \in held' : pp_free'[x] = 0 /\ pp_order'[x] \in Orders
    BY <1>3 DEF BuddyInv, HeldInUse, TypeOK
  <2> QED BY <2>1 DEF HeldInUse
<1>8. InFlightOK' BY <1>1, <1>2, <1>3 DEF InFlightOK
<1> QED BY <1>1, <1>2, <1>5, <1>6, <1>7, <1>8

\* page_init() hands over a page no block contains.
LEMMA PageInitInv == ASSUME BuddyInv, PageInit PROVE BuddyInv'
<1> DEFINE p == BootPages[booted + 1]
<1>1. /\ pc = "idle" /\ booted < Len(BootPages) /\ booted' = booted + 1
      /\ ret' = NONE /\ EnterPageFree(p)
      /\ UNCHANGED <<pp_order, pp_ref, buddy_free_list, want, held>>
  BY DEF PageInit
<1>2. /\ booted \in Nat /\ booted + 1 \in DOMAIN BootPages
      /\ booted' \in 0 .. Len(BootPages)
  BY <1>1, BuddyAssumption DEF BuddyInv, TypeOK
<1>3. p \in Pages /\ Given' = Given \cup {p} /\ p \notin Given
  <2>1. p \in Pages BY <1>2, BuddyAssumption
  <2>2. 1 .. booted + 1 = (1 .. booted) \cup {booted + 1} BY <1>2
  <2>3. Given' = Given \cup {p} BY <1>1, <2>2 DEF Given
  <2>4. \A i \in 1 .. booted : BootPages[i] # p
    <3> TAKE i \in 1 .. booted
    <3>1. i \in DOMAIN BootPages /\ i # booted + 1 BY <1>1, <1>2, BuddyAssumption
    <3> QED BY <3>1, <1>2, BuddyAssumption
  <2> QED BY <2>1, <2>3, <2>4 DEF Given
<1> HIDE DEF p
<1>4. pp_order[p] = 0 /\ pp_free[p] = 0
  BY <1>3 DEF BuddyInv, PendingUntouched
<1>5. /\ pp_order[p] \in Orders /\ Aligned(p, pp_order[p]) /\ Block(p) = {p}
  <2>1. Size[0] = 1 /\ p \in Nat BY <1>3, SizeAssumption DEF Pages
  <2>2. p % 1 = 0 /\ p .. p + 1 - 1 = {p} BY <2>1
  <2> QED BY <1>4, <2>1, <2>2, PageBlocksAssumption
          DEF Aligned, Block, Frames, Orders
<1>6. /\ p \notin FreeHeads /\ p \notin held
      /\ \A h \in Live : p \notin Block(h)
  <2>1. \A h \in Live : p \notin Block(h) BY <1>3, LivePages
  <2>2. p \notin Live BY <2>1, <1>3, LivePages
  <2> QED BY <2>1, <2>2 DEF Live
<1>7. pp_ref' \in [Pages -> 0 .. MaxRef] /\ \A x \in Pages : pp_ref'[x] # 0 => x \in held'
  BY <1>1 DEF BuddyInv, TypeOK, HeldInUse
<1>8. /\ pp_free' = [pp_free EXCEPT ![p] = 1]
      /\ pc' = "merge" /\ cur' = p
      /\ FreeHeads' = FreeHeads /\ InFlight = {} /\ InFlight' = {p}
      /\ FreeFlagsMatchLists' /\ NoFreeBuddies' /\ HeldInUse' /\ InFlightOK'
  BY <1>1, <1>3, <1>5, <1>6, <1>7, EnterPageFreeStep
<1>9. Live' = Live \cup {p} /\ pp_order' = pp_order
  BY <1>1, <1>8 DEF Live
<1>10. TypeOK'
  BY <1>1, <1>2, <1>3, <1>8, BuddyAssumption DEF BuddyInv, TypeOK
<1>11. \A q \in Pages : Block(q)' = Block(q) BY <1>9 DEF Block
<1>12. BlocksDisjoint'
  BY <1>5, <1>6, <1>9, <1>11, <1>3, LivePages DEF BuddyInv, BlocksDisjoint
<1>13. NoPageLost'
  <2>1. UNION {Block(q) : q \in Live \cup {p}}
           = (UNION {Block(q) : q \in Live}) \cup {p}
    BY <1>5
  <2>2. (UNION {Block(q) : q \in Live})' = UNION {Block(q) : q \in Live \cup {p}}
    BY <1>9 DEF Block
  <2> QED BY <2>1, <2>2, <1>3 DEF BuddyInv, NoPageLost
<1>14. HeadsAligned' BY <1>5, <1>9 DEF BuddyInv, HeadsAligned, Aligned
<1>15. PendingUntouched'
  BY <1>3, <1>8, <1>9 DEF BuddyInv, PendingUntouched, TypeOK
<1> QED BY <1>8, <1>10, <1>12, <1>13, <1>14, <1>15 DEF BuddyInv

\* The blocks a caller owns meet what page_free() asks of them.
LEMMA HeldFacts ==
    ASSUME BuddyInv, NEW p \in held
    PROVE  /\ p \in Pages \ FreeHeads /\ pp_order[p] \in Orders
           /\ Aligned(p, pp_order[p])
           /\ \A h \in Live : p \in Block(h) => h = p
<1>1. p \in Pages /\ pp_free[p] = 0 /\ pp_order[p] \in Orders /\ p \in Live
  BY DEF BuddyInv, TypeOK, HeldInUse, Live
<1>2. p \notin FreeHeads BY <1>1, ListedPages DEF BuddyInv
<1> QED BY <1>1, <1>2, LivePages DEF BuddyInv, HeadsAligned

\* Giving a block back moves it from its owner to the CPU.
LEMMA ReleaseInv ==
    ASSUME BuddyInv, Running, NEW p \in held, EnterPageFree(p),
           held' = held \ {p}, ret' = NONE,
           pp_ref' \in [Pages -> 0 .. MaxRef],
           \A x \in Pages : pp_ref'[x] # 0 => x \in held',
           UNCHANGED <<pp_order, buddy_free_list, want, booted>>
    PROVE  BuddyInv'
<1>1. /\ p \in Pages \ FreeHeads /\ pp_order[p] \in Orders
      /\ Aligned(p, pp_order[p])
      /\ \A h \in Live : p \in Block(h) => h = p
  BY HeldFacts
<1>2. /\ pp_free' = [pp_free EXCEPT ![p] = 1]
      /\ pc' = "merge" /\ cur' = p
      /\ FreeHeads' = FreeHeads /\ InFlight = {} /\ InFlight' = {p}
      /\ FreeFlagsMatchLists' /\ NoFreeBuddies' /\ HeldInUse' /\ InFlightOK'
  BY <1>1, EnterPageFreeStep DEF Running
<1>3. Live' = Live /\ Given' = Given BY <1>2 DEF Live, Given
<1>4. BlocksDisjoint' /\ NoPageLost' /\ HeadsAligned' BY <1>3, BlocksKept
<1>5. TypeOK' BY <1>1, <1>2, BuddyAssumption DEF BuddyInv, TypeOK
<1>6. PendingUntouched'
  <2>1. p \in Given BY <1>1, LivePages DEF Live
  <2> QED BY <2>1, <1>2, <1>3 DEF BuddyInv, PendingUntouched, TypeOK
<1> QED BY <1>2, <1>4, <1>5, <1>6 DEF BuddyInv

\* page_free() of an unreferenced block on loan.
LEMMA PageFreeInv ==
    ASSUME BuddyInv, NEW p \in held, PageFree(p)
    PROVE  BuddyInv'
<1>1. pp_ref' \in [Pages -> 0 .. MaxRef] /\ \A x \in Pages : pp_ref'[x] # 0 => x \in held'
  BY DEF PageFree, BuddyInv, TypeOK, HeldInUse
<1> QED BY <1>1, ReleaseInv DEF PageFree

\* A step that only changes the reference count of a block on loan.
LEMMA CountInv ==
    ASSUME BuddyInv, Running, NEW p \in held,
           NEW n \in 0 .. MaxRef, pp_ref' = [pp_ref EXCEPT ![p] = n],
           UNCHANGED <<pp_order, pp_free, buddy_free_list, pc, cur, want, held,
                       booted, ret>>
    PROVE  BuddyInv'
<1>1. p \in Pages \ FreeHeads BY HeldFacts
<1>2. /\ pp_ref' \in [Pages -> 0 .. MaxRef]
      /\ \A x \in Pages : x # p => pp_ref'[x] = pp_ref[x]
  BY <1>1 DEF BuddyInv, TypeOK
<1>3. /\ FreeHeads' = FreeHeads /\ InFlight' = InFlight
      /\ Live' = Live /\ Given' = Given
  BY DEF FreeHeads, InFlight, Live, Given
<1>4. BlocksDisjoint' /\ NoPageLost' /\ HeadsAligned' BY <1>3, BlocksKept
<1>5. FreeFlagsMatchLists'
  <2>1. \A j \in Orders : \A x \in ToSet(buddy_free_list[j]) : x # p
    BY <1>1, ListedPages DEF BuddyInv
  <2>2. \A j \in Orders : \A x \in ToSet(buddy_free_list[j]) : x \in Pages
    BY ListedPages DEF BuddyInv
  <2> QED BY <2>1, <2>2, <1>2, <1>3 DEF BuddyInv, FreeFlagsMatchLists
<1>6. TypeOK' BY <1>2, <1>3 DEF BuddyInv, TypeOK
<1>7. NoFreeBuddies' /\ PendingUntouched' /\ HeldInUse' /\ InFlightOK'
  BY <1>2, <1>3 DEF BuddyInv, NoFreeBuddies, PendingUntouched, HeldInUse, InFlightOK
<1> QED BY <1>4, <1>5, <1>6, <1>7 DEF BuddyInv

\* A mapping of a block on loan is counted.
LEMMA ReferenceInv ==
    ASSUME BuddyInv, NEW p \in held, Reference(p)
    PROVE  BuddyInv'
<1>1. p \in Pages /\ pp_ref[p] \in 0 .. MaxRef /\ MaxRef \in Nat
  BY HeldFacts, BuddyAssumption DEF BuddyInv, TypeOK
<1>2. pp_ref[p] + 1 \in 0 .. MaxRef /\ pp_ref' = [pp_ref EXCEPT ![p] = pp_ref[p] + 1]
  BY <1>1 DEF Reference
<1> QED BY <1>2, CountInv DEF Reference

\* page_decref() counts down, and frees the block at zero.
LEMMA PageDecrefInv ==
    ASSUME BuddyInv, NEW p \in held, PageDecref(p)
    PROVE  BuddyInv'
<1>1. p \in Pages /\ pp_ref[p] \in 0 .. MaxRef /\ MaxRef \in Nat /\ pp_ref[p] > 0
  BY HeldFacts, BuddyAssumption DEF BuddyInv, TypeOK, PageDecref
<1>2. pp_ref[p] - 1 \in 0 .. MaxRef /\ pp_ref' = [pp_ref EXCEPT ![p] = pp_ref[p] - 1]
  BY <1>1 DEF PageDecref
<1>3. CASE pp_ref[p] = 1
  <2>1. held' = held \ {p} /\ ret' = NONE /\ EnterPageFree(p)
    BY <1>3 DEF PageDecref
  <2>2. pp_ref' \in [Pages -> 0 .. MaxRef] /\ \A x \in Pages : pp_ref'[x] # 0 => x \in held'
    BY <1>1, <1>2, <1>3, <2>1 DEF BuddyInv, TypeOK, HeldInUse
  <2> QED BY <2>1, <2>2, ReleaseInv DEF PageDecref
<1>4. CASE pp_ref[p] # 1
  BY <1>2, <1>4, CountInv DEF PageDecref
<1> QED BY <1>3, <1>4

\* What is known of the block the CPU is working on.
LEMMA CurFacts ==
    ASSUME BuddyInv, pc \in {"split", "merge", "add", "wild"}
    PROVE  /\ InFlight = {cur} /\ cur \in Pages /\ cur \in Live
           /\ cur \notin held /\ cur \notin FreeHeads
           /\ pp_free[cur] = 1 /\ pp_ref[cur] = 0
           /\ Aligned(cur, pp_order[cur])
<1>1. InFlight = {cur} /\ cur \in Live BY DEF InFlight, Live
<1>2. cur \in Pages BY <1>1, LivePages
<1>3. cur \notin held /\ cur \notin FreeHeads /\ pp_free[cur] = 1
  BY <1>1 DEF BuddyInv, InFlightOK
<1>4. pp_ref[cur] = 0 BY <1>2, <1>3 DEF BuddyInv, HeldInUse
<1> QED BY <1>1, <1>2, <1>3, <1>4 DEF BuddyInv, HeadsAligned

\* buddy_merge() ends when the buddy is on no list.
LEMMA MergeDoneInv == ASSUME BuddyInv, MergeDone PROVE BuddyInv'
<1> USE DEF MergeDone, fields
<1>1. /\ FreeHeads' = FreeHeads /\ InFlight' = {cur} /\ InFlight = {cur}
      /\ Live' = Live /\ Given' = Given
  BY DEF FreeHeads, InFlight, Live, Given
<1>2. BlocksDisjoint' /\ NoPageLost' /\ HeadsAligned' BY <1>1, BlocksKept
<1>3. TypeOK' /\ FreeFlagsMatchLists' /\ NoFreeBuddies' /\ PendingUntouched'
      /\ HeldInUse'
  BY <1>1 DEF BuddyInv, TypeOK, FreeFlagsMatchLists, NoFreeBuddies,
              PendingUntouched, HeldInUse
<1>4. InFlightOK' BY <1>1 DEF BuddyInv, InFlightOK
<1> QED BY <1>2, <1>3, <1>4 DEF BuddyInv

\* Two aligned blocks of one order are each other's buddies or neither is.
LEMMA BuddySymmetric ==
    ASSUME NEW k \in Orders, NEW p \in Nat, NEW q \in Nat,
           Aligned(p, k), Aligned(q, k), BuddyOf(p, k) = q
    PROVE  BuddyOf(q, k) = p
BY BuddyHalves

\* No block is its own buddy.
LEMMA BuddyNotSelf ==
    ASSUME NEW k \in Orders, NEW p \in Nat
    PROVE  BuddyOf(p, k) # p
<1>1. Size[k] \in Nat \ {0} BY Sizes
<1> QED BY <1>1 DEF BuddyOf

\* Free blocks of order k lie on multiples of Size[k].
LEMMA ListedAligned ==
    ASSUME BuddyInv, NEW k \in Orders, NEW p \in ToSet(buddy_free_list[k])
    PROVE  /\ p \in FreeHeads /\ p \in Live /\ p \in Pages /\ p \in Nat
           /\ pp_order[p] = k /\ Aligned(p, k)
<1>1. p \in FreeHeads /\ p \in Pages BY ListedPages DEF BuddyInv
<1>2. pp_order[p] = k BY DEF BuddyInv, FreeFlagsMatchLists
<1>3. p \in Live BY <1>1 DEF Live
<1> QED BY <1>1, <1>2, <1>3 DEF BuddyInv, HeadsAligned, Pages

\* A page joins a free list whose page of the same order beside it is absent.
LEMMA ListAddInv ==
    ASSUME BuddyInv, NEW k \in Orders, NEW p \in Pages \ FreeHeads, Aligned(p, k),
           BuddyOf(p, k) \notin ToSet(buddy_free_list[k]),
           buddy_free_list' =
               [buddy_free_list EXCEPT ![k] = ListAdd(buddy_free_list[k], p)],
           pp_order'[p] = k, pp_free'[p] = 1, pp_ref' = pp_ref, p \notin held,
           \A q \in FreeHeads : pp_order'[q] = pp_order[q] /\ pp_free'[q] = pp_free[q],
           \A q \in Pages : pp_free'[q] = 1 => q \in FreeHeads \cup {p} \cup InFlight'
    PROVE  /\ buddy_free_list' \in [Orders -> Seq(Pages)]
           /\ FreeHeads' = FreeHeads \cup {p}
           /\ FreeFlagsMatchLists' /\ NoFreeBuddies'
<1> DEFINE l == ListAdd(buddy_free_list[k], p)
<1>1. p \notin ToSet(buddy_free_list[k]) BY ListedPages DEF BuddyInv
<1>2. /\ l \in Seq(Pages) /\ ToSet(l) = ToSet(buddy_free_list[k]) \cup {p}
      /\ IsInjective(l)
  <2>1. buddy_free_list[k] \in Seq(Pages) /\ IsInjective(buddy_free_list[k])
    BY DEF BuddyInv, TypeOK, FreeFlagsMatchLists
  <2> QED BY <1>1, <2>1, ListAddProperties
<1> HIDE DEF l
<1>3. /\ buddy_free_list' \in [Orders -> Seq(Pages)] /\ buddy_free_list'[k] = l
      /\ \A j \in Orders : j # k => buddy_free_list'[j] = buddy_free_list[j]
  BY <1>2 DEF BuddyInv, TypeOK, l
<1>4. FreeHeads' = FreeHeads \cup {p}
  BY <1>2, FreeHeadsJoin DEF BuddyInv, l
<1>5. FreeFlagsMatchLists'
  <2>1. \A j \in Orders : IsInjective(buddy_free_list'[j])
    BY <1>2, <1>3 DEF BuddyInv, FreeFlagsMatchLists
  <2>2. ASSUME NEW j \in Orders, NEW q \in ToSet(buddy_free_list'[j])
        PROVE  pp_order'[q] = j /\ pp_free'[q] = 1 /\ pp_ref'[q] = 0
    <3>1. CASE q = p /\ j = k
      <4>1. pp_ref[p] = 0 BY DEF BuddyInv, HeldInUse
      <4> QED BY <4>1, <3>1
    <3>2. CASE q \in ToSet(buddy_free_list[j])
      <4>1. q \in FreeHeads BY <3>2, ListedAligned
      <4> QED BY <4>1, <3>2 DEF BuddyInv, FreeFlagsMatchLists
    <3> QED BY <3>1, <3>2, <1>2, <1>3
  <2>3. \A q \in Pages : pp_free'[q] = 1 => q \in FreeHeads' \cup InFlight'
    BY <1>4
  <2> QED BY <2>1, <2>2, <2>3 DEF FreeFlagsMatchLists
<1>6. NoFreeBuddies'
  <2> SUFFICES ASSUME NEW j \in Orders, NEW q \in ToSet(buddy_free_list'[j]),
                      BuddyOf(q, j) \in ToSet(buddy_free_list'[j])
               PROVE  FALSE
    BY DEF NoFreeBuddies
  <2>1. CASE j # k
    BY <2>1, <1>3 DEF BuddyInv, NoFreeBuddies
  <2>2. CASE j = k
    <3>1. /\ q \in ToSet(buddy_free_list[k]) \cup {p}
          /\ BuddyOf(q, k) \in ToSet(buddy_free_list[k]) \cup {p}
      BY <2>2, <1>2, <1>3
    <3>2. p \in Nat BY DEF Pages
    <3>3. CASE q = p BY <3>1, <3>2, <3>3, BuddyNotSelf
    <3>4. CASE q \in ToSet(buddy_free_list[k]) /\ BuddyOf(q, k) = p
      <4>1. q \in Nat /\ Aligned(q, k) BY <3>4, ListedAligned
      <4>2. BuddyOf(p, k) = q BY <4>1, <3>2, <3>4, BuddySymmetric
      <4> QED BY <4>2, <3>4
    <3>5. CASE q \in ToSet(buddy_free_list[k])
               /\ BuddyOf(q, k) \in ToSet(buddy_free_list[k])
      BY <3>5 DEF BuddyInv, NoFreeBuddies
    <3> QED BY <3>1, <3>3, <3>4, <3>5
  <2> QED BY <2>1, <2>2
<1> QED BY <1>3, <1>4, <1>5, <1>6

\* page_free() lists what buddy_merge() returned.
LEMMA AddMergedInv == ASSUME BuddyInv, AddMerged PROVE BuddyInv'
<1> DEFINE k == pp_order[cur]
<1>0. /\ pc = "add" /\ UNCHANGED <<fields, want, held, booted, ret>>
      /\ UNCHANGED <<pp_order, pp_free, pp_ref>> /\ Given' = Given
  BY DEF AddMerged, fields, Given
<1>1. /\ InFlight = {cur} /\ cur \in Pages /\ cur \in Live
      /\ cur \notin held /\ cur \notin FreeHeads
      /\ pp_free[cur] = 1 /\ pp_ref[cur] = 0 /\ Aligned(cur, k)
  BY <1>0, CurFacts
<1>2. CASE k < BUDDY_MAX_ORDER
  <2>1. k \in Orders
    BY <1>1, <1>2, LivePages, PageBlocksAssumption DEF Orders
  <2>2. /\ buddy_free_list' =
              [buddy_free_list EXCEPT ![k] = ListAdd(buddy_free_list[k], cur)]
        /\ pc' = "idle" /\ cur' = NULL
    BY <1>2 DEF AddMerged
  <2>3. InFlight' = {} BY <2>2 DEF InFlight
  <2>4. BuddyOf(cur, k) \notin ToSet(buddy_free_list[k])
    BY <1>0, <2>1 DEF BuddyInv, InFlightOK
  <2>5. \A q \in Pages : pp_free'[q] = 1 => q \in FreeHeads \cup {cur} \cup InFlight'
    BY <1>0, <1>1 DEF BuddyInv, FreeFlagsMatchLists
  <2>6. /\ buddy_free_list' \in [Orders -> Seq(Pages)]
        /\ FreeHeads' = FreeHeads \cup {cur}
        /\ FreeFlagsMatchLists' /\ NoFreeBuddies'
    BY <1>0, <1>1, <2>1, <2>2, <2>4, <2>5, ListAddInv
  <2>7. Live' = Live BY <1>0, <1>1, <2>3, <2>6 DEF Live
  <2>8. BlocksDisjoint' /\ NoPageLost' /\ HeadsAligned' BY <1>0, <2>7, BlocksKept
  <2>9. TypeOK' BY <1>0, <2>2, <2>3, <2>6 DEF BuddyInv, TypeOK
  <2>10. PendingUntouched' /\ HeldInUse' /\ InFlightOK'
    BY <1>0, <2>2, <2>3 DEF BuddyInv, PendingUntouched, HeldInUse, InFlightOK
  <2> QED BY <2>6, <2>8, <2>9, <2>10 DEF BuddyInv
<1>3. CASE ~ (k < BUDDY_MAX_ORDER)
  <2>1. k = BUDDY_MAX_ORDER BY <1>1, <1>3, LivePages, PageBlocksAssumption
  <2>2. pc' = "wild" /\ UNCHANGED <<buddy_free_list, cur>> BY <1>3 DEF AddMerged
  <2>3. /\ FreeHeads' = FreeHeads /\ InFlight' = InFlight /\ Live' = Live
    BY <1>0, <2>2 DEF FreeHeads, InFlight, Live
  <2>4. BlocksDisjoint' /\ NoPageLost' /\ HeadsAligned' BY <1>0, <2>3, BlocksKept
  <2>5. TypeOK' /\ FreeFlagsMatchLists' /\ NoFreeBuddies' /\ PendingUntouched'
        /\ HeldInUse'
    BY <1>0, <2>2, <2>3 DEF BuddyInv, TypeOK, FreeFlagsMatchLists, NoFreeBuddies,
                PendingUntouched, HeldInUse
  <2>6. InFlightOK' BY <1>0, <2>1, <2>2, <2>3 DEF BuddyInv, InFlightOK
  <2> QED BY <2>4, <2>5, <2>6 DEF BuddyInv
<1> QED BY <1>2, <1>3

\* A page leaves its free list.
LEMMA ListRemoveInv ==
    ASSUME BuddyInv, NEW k \in Orders, NEW p \in ToSet(buddy_free_list[k]),
           NEW l \in Seq(Pages), IsInjective(l),
           ToSet(l) = ToSet(buddy_free_list[k]) \ {p},
           buddy_free_list' = [buddy_free_list EXCEPT ![k] = l],
           pp_ref' = pp_ref,
           \A q \in FreeHeads \ {p} :
               pp_order'[q] = pp_order[q] /\ pp_free'[q] = pp_free[q],
           \A q \in Pages : pp_free'[q] = 1 => q \in (FreeHeads \ {p}) \cup InFlight'
    PROVE  /\ buddy_free_list' \in [Orders -> Seq(Pages)]
           /\ FreeHeads' = FreeHeads \ {p}
           /\ FreeFlagsMatchLists' /\ NoFreeBuddies'
<1>1. /\ buddy_free_list' \in [Orders -> Seq(Pages)] /\ buddy_free_list'[k] = l
      /\ \A j \in Orders : j # k => buddy_free_list'[j] = buddy_free_list[j]
  BY DEF BuddyInv, TypeOK
<1>2. FreeHeads' = FreeHeads \ {p}
  BY FreeHeadsLeave DEF BuddyInv
<1>3. \A j \in Orders : ToSet(buddy_free_list'[j]) \subseteq ToSet(buddy_free_list[j])
  BY <1>1
<1>4. FreeFlagsMatchLists'
  <2>1. \A j \in Orders : IsInjective(buddy_free_list'[j])
    BY <1>1 DEF BuddyInv, FreeFlagsMatchLists
  <2>2. ASSUME NEW j \in Orders, NEW q \in ToSet(buddy_free_list'[j])
        PROVE  pp_order'[q] = j /\ pp_free'[q] = 1 /\ pp_ref'[q] = 0
    <3>1. q \in ToSet(buddy_free_list[j]) BY <1>3
    <3>2. q \in FreeHeads /\ pp_order[q] = j BY <3>1, ListedAligned
    <3>3. q # p
      <4>1. pp_order[p] = k BY ListedAligned
      <4> QED BY <4>1, <3>2, <1>1
    <3> QED BY <3>1, <3>2, <3>3 DEF BuddyInv, FreeFlagsMatchLists
  <2> QED BY <1>2, <2>1, <2>2 DEF FreeFlagsMatchLists
<1>5. NoFreeBuddies' BY <1>3 DEF BuddyInv, NoFreeBuddies
<1> QED BY <1>1, <1>2, <1>4, <1>5

\* buddy_find() pops a page off the list of the smallest order that will do.
LEMMA BuddyFindInv ==
    ASSUME BuddyInv, NEW order \in ReqOrders, BuddyFind(order)
    PROVE  BuddyInv'
<1>1. PICK k \in Candidates(order) :
          /\ cur' = Head(buddy_free_list[k])
          /\ buddy_free_list' = [buddy_free_list EXCEPT ![k] = Tail(buddy_free_list[k])]
  BY DEF BuddyFind
<1>2. /\ pc = "idle" /\ pc' = "split" /\ want' = order
      /\ UNCHANGED <<pp_order, pp_free, pp_ref, held, booted, ret>>
      /\ Given' = Given
  BY DEF BuddyFind, Running, fields, Given
<1>3. k \in Orders /\ order \in Orders /\ order <= k /\ buddy_free_list[k] # <<>>
  BY BuddyAssumption DEF Candidates, Orders
<1> DEFINE l == Tail(buddy_free_list[k])
           p == Head(buddy_free_list[k])
<1>4. /\ l \in Seq(Pages) /\ IsInjective(l) /\ p \in ToSet(buddy_free_list[k])
      /\ ToSet(l) = ToSet(buddy_free_list[k]) \ {p}
  <2>1. buddy_free_list[k] \in Seq(Pages) /\ IsInjective(buddy_free_list[k])
    BY <1>3 DEF BuddyInv, TypeOK, FreeFlagsMatchLists
  <2> QED BY <1>3, <2>1, PopProperties
<1>5. buddy_free_list' = [buddy_free_list EXCEPT ![k] = l] /\ cur' = p BY <1>1
<1> HIDE DEF l, p
<1>6. /\ p \in FreeHeads /\ p \in Pages /\ pp_order[p] = k /\ pp_free[p] = 1
  BY <1>3, <1>4, ListedAligned, ListedPages DEF BuddyInv
<1>7. InFlight = {} /\ InFlight' = {p} BY <1>2, <1>5 DEF InFlight
<1>8. \A q \in Pages : pp_free'[q] = 1 => q \in (FreeHeads \ {p}) \cup InFlight'
  BY <1>2, <1>7 DEF BuddyInv, FreeFlagsMatchLists
<1>9. /\ buddy_free_list' \in [Orders -> Seq(Pages)]
      /\ FreeHeads' = FreeHeads \ {p}
      /\ FreeFlagsMatchLists' /\ NoFreeBuddies'
  BY <1>2, <1>3, <1>4, <1>5, <1>8, ListRemoveInv
<1>10. Live' = Live BY <1>2, <1>6, <1>7, <1>9 DEF Live
<1>11. BlocksDisjoint' /\ NoPageLost' /\ HeadsAligned' BY <1>2, <1>10, BlocksKept
<1>12. TypeOK' BY <1>2, <1>3, <1>5, <1>6, <1>7, <1>9 DEF BuddyInv, TypeOK
<1>13. PendingUntouched' /\ HeldInUse'
  BY <1>2 DEF BuddyInv, PendingUntouched, HeldInUse
<1>14. p \notin held BY <1>6 DEF BuddyInv, HeldInUse
<1>15. InFlightOK'
  BY <1>2, <1>3, <1>5, <1>6, <1>7, <1>9, <1>14 DEF InFlightOK
<1> QED BY <1>9, <1>11, <1>12, <1>13, <1>15 DEF BuddyInv

\* Finding nothing changes nothing.
LEMMA BuddyFindNullInv ==
    ASSUME BuddyInv, NEW order \in ReqOrders, NEW zero \in BOOLEAN,
           BuddyFindNull(order, zero)
    PROVE  BuddyInv'
<1>1. /\ pc = "idle" /\ pc' \in {"idle", "panic"} /\ ret' \in {ret, NULL}
      /\ UNCHANGED <<pp_order, pp_free, pp_ref, buddy_free_list, cur, want, held, booted>>
  BY DEF BuddyFindNull, Running, fields
<1>2. /\ FreeHeads' = FreeHeads /\ InFlight = {} /\ InFlight' = {}
      /\ Live' = Live /\ Given' = Given
  BY <1>1 DEF FreeHeads, InFlight, Live, Given
<1>3. BlocksDisjoint' /\ NoPageLost' /\ HeadsAligned' BY <1>1, <1>2, BlocksKept
<1>4. TypeOK' /\ FreeFlagsMatchLists' /\ NoFreeBuddies' /\ PendingUntouched'
      /\ HeldInUse' /\ InFlightOK'
  BY <1>1, <1>2 DEF BuddyInv, TypeOK, FreeFlagsMatchLists, NoFreeBuddies,
                    PendingUntouched, HeldInUse, InFlightOK
<1> QED BY <1>3, <1>4 DEF BuddyInv

\* buddy_find() hands out the page that is left of the split.
LEMMA SplitDoneInv == ASSUME BuddyInv, SplitDone PROVE BuddyInv'
<1>1. /\ pc = "split" /\ pp_order[cur] = want
      /\ pp_free' = [pp_free EXCEPT ![cur] = 0] /\ held' = held \cup {cur}
      /\ ret' = cur /\ pc' = "idle" /\ cur' = NULL /\ want' = 0
      /\ UNCHANGED <<pp_order, pp_ref, buddy_free_list, booted>>
  BY DEF SplitDone
<1>2. /\ InFlight = {cur} /\ cur \in Pages /\ cur \in Live
      /\ cur \notin held /\ cur \notin FreeHeads /\ pp_order[cur] \in Orders
  BY <1>1, CurFacts DEF BuddyInv, InFlightOK
<1>3. /\ FreeHeads' = FreeHeads /\ InFlight' = {} /\ Given' = Given
      /\ Live' = Live
  BY <1>1, <1>2 DEF FreeHeads, InFlight, Live, Given
<1>4. BlocksDisjoint' /\ NoPageLost' /\ HeadsAligned' BY <1>1, <1>3, BlocksKept
<1>5. /\ pp_free' \in [Pages -> 0 .. 1] /\ pp_free'[cur] = 0
      /\ \A q \in Pages : q # cur => pp_free'[q] = pp_free[q]
  BY <1>1, <1>2 DEF BuddyInv, TypeOK
<1>6. TypeOK'
  <2>1. 0 \in Orders BY PageBlocksAssumption DEF Orders
  <2> QED BY <1>1, <1>2, <1>3, <1>5, <2>1 DEF BuddyInv, TypeOK
<1>7. FreeFlagsMatchLists'
  <2>1. \A j \in Orders : \A q \in ToSet(buddy_free_list[j]) : q # cur /\ q \in Pages
    BY <1>2, ListedPages DEF BuddyInv
  <2> QED BY <2>1, <1>1, <1>2, <1>3, <1>5 DEF BuddyInv, FreeFlagsMatchLists
<1>8. NoFreeBuddies' BY <1>1 DEF BuddyInv, NoFreeBuddies
<1>9. PendingUntouched'
  <2>1. cur \in Given BY <1>2, LivePages
  <2> QED BY <2>1, <1>1, <1>3, <1>5 DEF BuddyInv, PendingUntouched
<1>10. HeldInUse' BY <1>1, <1>2, <1>5 DEF BuddyInv, HeldInUse, TypeOK
<1>11. InFlightOK' BY <1>1, <1>3 DEF InFlightOK
<1> QED BY <1>4, <1>6, <1>7, <1>8, <1>9, <1>10, <1>11 DEF BuddyInv

\* Two buddies of order k together are one block of order k + 1.
LEMMA BuddiesJoin ==
    ASSUME NEW k \in Orders, NEW p \in Nat, Aligned(p, k),
           NEW lo \in Nat, NEW hi \in Nat,
           \/ lo = p /\ hi = BuddyOf(p, k) /\ p < BuddyOf(p, k)
           \/ lo = BuddyOf(p, k) /\ hi = p /\ ~ (p < BuddyOf(p, k))
    PROVE  /\ Aligned(lo, k + 1) /\ hi = lo + Size[k]
           /\ Frames(lo, k + 1) = Frames(lo, k) \cup Frames(hi, k)
<1>1. Size[k] \in Nat \ {0} /\ Size[k + 1] = 2 * Size[k] BY Sizes
<1>2. /\ BuddyOf(p, k) \in Nat
      /\ Aligned(p, k + 1) => BuddyOf(p, k) = p + Size[k]
      /\ ~ Aligned(p, k + 1) =>
            BuddyOf(p, k) = p - Size[k] /\ Aligned(p - Size[k], k + 1)
  BY BuddyHalves
<1>3. Aligned(lo, k + 1) /\ hi = lo + Size[k] BY <1>1, <1>2
<1>4. Frames(lo, k + 1) = Frames(lo, k) \cup Frames(hi, k)
  BY <1>1, <1>3 DEF Frames
<1> QED BY <1>3, <1>4

\* Merging two blocks into one, or splitting one into two, moves no page.
LEMMA BlocksMerged ==
    ASSUME BuddyInv, NEW lo \in Live, NEW hi \in Live, lo # hi,
           Live' = Live \ {hi}, Given' = Given,
           Block(lo)' = Block(lo) \cup Block(hi),
           \A q \in Live \ {lo, hi} : Block(q)' = Block(q)
    PROVE  BlocksDisjoint' /\ NoPageLost'
<1>1. BlocksDisjoint'
  <2> SUFFICES ASSUME NEW p \in Live', NEW q \in Live', p # q
               PROVE  Block(p)' \cap Block(q)' = {}
    BY DEF BlocksDisjoint
  <2>1. \A x \in Live, y \in Live : x # y => Block(x) \cap Block(y) = {}
    BY DEF BuddyInv, BlocksDisjoint
  <2>2. CASE p = lo BY <2>1, <2>2
  <2>3. CASE q = lo BY <2>1, <2>3
  <2>4. CASE p # lo /\ q # lo BY <2>1, <2>4
  <2> QED BY <2>2, <2>3, <2>4
<1>2. NoPageLost'
  <2>1. ASSUME NEW x
        PROVE  (\E q \in Live' : x \in Block(q)') <=> (\E q \in Live : x \in Block(q))
    <3>1. ASSUME NEW q \in Live', x \in Block(q)'
          PROVE  \E r \in Live : x \in Block(r)
      <4>1. CASE q = lo BY <3>1, <4>1
      <4>2. CASE q # lo BY <3>1, <4>2
      <4> QED BY <4>1, <4>2
    <3>2. ASSUME NEW q \in Live, x \in Block(q)
          PROVE  \E r \in Live' : x \in Block(r)'
      <4>1. CASE q \in {lo, hi}
        <5>1. lo \in Live' /\ x \in Block(lo)' BY <3>2, <4>1
        <5> QED BY <5>1
      <4>2. CASE q \notin {lo, hi}
        <5>1. q \in Live' /\ x \in Block(q)' BY <3>2, <4>2
        <5> QED BY <5>1
      <4> QED BY <4>1, <4>2
    <3> QED BY <3>1, <3>2
  <2> QED BY <2>1 DEF BuddyInv, NoPageLost
<1> QED BY <1>1, <1>2

\* ... and the other way round.
LEMMA BlocksSplit ==
    ASSUME BuddyInv, NEW lo \in Live, NEW hi, hi \notin Live,
           Live' = Live \cup {hi}, Given' = Given,
           Block(lo) = Block(lo)' \cup Block(hi)',
           Block(lo)' \cap Block(hi)' = {},
           \A q \in Live \ {lo} : Block(q)' = Block(q)
    PROVE  BlocksDisjoint' /\ NoPageLost'
<1>1. BlocksDisjoint'
  <2> SUFFICES ASSUME NEW p \in Live', NEW q \in Live', p # q
               PROVE  Block(p)' \cap Block(q)' = {}
    BY DEF BlocksDisjoint
  <2>1. \A x \in Live, y \in Live : x # y => Block(x) \cap Block(y) = {}
    BY DEF BuddyInv, BlocksDisjoint
  <2>2. CASE p \in {lo, hi} /\ q \in {lo, hi} BY <2>2
  <2>3. CASE p \in {lo, hi} /\ q \notin {lo, hi}
    <3>1. Block(p)' \subseteq Block(lo) /\ Block(q)' = Block(q) /\ q \in Live /\ q # lo
      BY <2>3
    <3> QED BY <3>1, <2>1
  <2>4. CASE p \notin {lo, hi} /\ q \in {lo, hi}
    <3>1. Block(q)' \subseteq Block(lo) /\ Block(p)' = Block(p) /\ p \in Live /\ p # lo
      BY <2>4
    <3> QED BY <3>1, <2>1
  <2>5. CASE p \notin {lo, hi} /\ q \notin {lo, hi}
    <3>1. Block(q)' = Block(q) /\ Block(p)' = Block(p) /\ p \in Live /\ q \in Live
      BY <2>5
    <3> QED BY <3>1, <2>1
  <2> QED BY <2>2, <2>3, <2>4, <2>5
<1>2. NoPageLost'
  <2>1. ASSUME NEW x
        PROVE  (\E q \in Live' : x \in Block(q)') <=> (\E q \in Live : x \in Block(q))
    <3>1. ASSUME NEW q \in Live', x \in Block(q)'
          PROVE  \E r \in Live : x \in Block(r)
      <4>1. CASE q \in {lo, hi} BY <3>1, <4>1
      <4>2. CASE q \notin {lo, hi} BY <3>1, <4>2
      <4> QED BY <4>1, <4>2
    <3>2. ASSUME NEW q \in Live, x \in Block(q)
          PROVE  \E r \in Live' : x \in Block(r)'
      <4>1. CASE q = lo
        <5>1. (lo \in Live' /\ x \in Block(lo)') \/ (hi \in Live' /\ x \in Block(hi)')
          BY <3>2, <4>1
        <5> QED BY <5>1
      <4>2. CASE q # lo
        <5>1. q \in Live' /\ x \in Block(q)' BY <3>2, <4>2
        <5> QED BY <5>1
      <4> QED BY <4>1, <4>2
    <3> QED BY <3>1, <3>2
  <2> QED BY <2>1 DEF BuddyInv, NoPageLost
<1> QED BY <1>1, <1>2

\* One iteration of buddy_merge(): two free buddies become one block.
LEMMA MergeBuddyInv ==
    ASSUME BuddyInv, MergeBuddy
    PROVE  BuddyInv' /\ \A p \in held : pp_order'[p] = pp_order[p]
<1>0. PICK k, b, lo, hi, l :
          /\ k = pp_order[cur] /\ b = BuddyOf(cur, k)
          /\ lo = (IF cur < b THEN cur ELSE b)
          /\ hi = (IF cur < b THEN b ELSE cur)
          /\ l = ListDel(buddy_free_list[k], b)
  OBVIOUS
<1>1. /\ pc = "merge" /\ b \in ToSet(buddy_free_list[k])
      /\ buddy_free_list' = [buddy_free_list EXCEPT ![k] = l]
      /\ pp_free' = [pp_free EXCEPT ![hi] = 0, ![lo] = 1]
      /\ pp_order' = [pp_order EXCEPT ![lo] = k + 1]
      /\ cur' = lo
      /\ pc' = IF k + 1 < BUDDY_MAX_ORDER THEN "merge" ELSE "add"
      /\ UNCHANGED <<pp_ref, want, held, booted, ret>>
  BY <1>0 DEF MergeBuddy
<1>2. k \in Orders BY <1>0, <1>1 DEF BuddyInv, InFlightOK
<1>3. /\ InFlight = {cur} /\ cur \in Pages /\ cur \in Live
      /\ cur \notin held /\ cur \notin FreeHeads
      /\ pp_free[cur] = 1 /\ pp_ref[cur] = 0 /\ Aligned(cur, k)
  BY <1>0, <1>1, CurFacts
<1>4. /\ b \in FreeHeads /\ b \in Live /\ b \in Pages
      /\ pp_order[b] = k /\ Aligned(b, k) /\ pp_free[b] = 1 /\ b \notin held
  <2>1. b \in FreeHeads /\ b \in Live /\ b \in Pages /\ pp_order[b] = k /\ Aligned(b, k)
    BY <1>1, <1>2, ListedAligned
  <2>2. pp_free[b] = 1 BY <2>1, ListedPages DEF BuddyInv
  <2> QED BY <2>1, <2>2 DEF BuddyInv, HeldInUse
<1>5. cur # b BY <1>3, <1>4
<1>6. /\ l \in Seq(Pages) /\ IsInjective(l)
      /\ ToSet(l) = ToSet(buddy_free_list[k]) \ {b}
  <2>1. buddy_free_list[k] \in Seq(Pages) /\ IsInjective(buddy_free_list[k])
    BY <1>2 DEF BuddyInv, TypeOK, FreeFlagsMatchLists
  <2> QED BY <2>1, <1>0, <1>1, ListDelProperties
<1>7. /\ Aligned(lo, k + 1)
      /\ Frames(lo, k + 1) = Frames(lo, k) \cup Frames(hi, k)
  <2>1. cur \in Nat /\ b \in Nat /\ lo \in Nat /\ hi \in Nat
    BY <1>0, <1>3, <1>4 DEF Pages
  <2> QED BY <2>1, <1>0, <1>2, <1>3, BuddiesJoin
<1>8. lo # hi /\ {lo, hi} = {cur, b} BY <1>0, <1>5
<1>9. /\ pp_order[lo] = k /\ pp_order[hi] = k /\ lo \in Pages /\ hi \in Pages
      /\ lo \in Live /\ hi \in Live /\ lo \notin held /\ hi \notin held
      /\ pp_free[lo] = 1
  BY <1>0, <1>3, <1>4, <1>8
<1>10. /\ pp_order'[lo] = k + 1 /\ pp_free'[lo] = 1 /\ pp_free'[hi] = 0
       /\ \A q \in Pages : q # lo => pp_order'[q] = pp_order[q]
       /\ \A q \in Pages : q \notin {lo, hi} => pp_free'[q] = pp_free[q]
  BY <1>1, <1>8, <1>9 DEF BuddyInv, TypeOK
<1>11. InFlight' = {lo} BY <1>1 DEF InFlight
<1>12. /\ buddy_free_list' \in [Orders -> Seq(Pages)]
       /\ FreeHeads' = FreeHeads \ {b}
       /\ FreeFlagsMatchLists' /\ NoFreeBuddies'
  <2>1. \A q \in FreeHeads \ {b} : pp_order'[q] = pp_order[q] /\ pp_free'[q] = pp_free[q]
    BY <1>3, <1>8, <1>10, ListedPages DEF BuddyInv
  <2>2. \A q \in Pages : pp_free'[q] = 1 => q \in (FreeHeads \ {b}) \cup InFlight'
    BY <1>3, <1>8, <1>10, <1>11 DEF BuddyInv, FreeFlagsMatchLists
  <2> QED BY <1>1, <1>2, <1>6, <2>1, <2>2, ListRemoveInv
<1>13. Live' = Live \ {hi}
  BY <1>1, <1>3, <1>4, <1>8, <1>9, <1>11, <1>12 DEF Live
<1>14. /\ Block(lo)' = Block(lo) \cup Block(hi)
       /\ \A q \in Live : q \notin {lo, hi} => Block(q)' = Block(q)
  <2>1. \A q \in Live : q \notin {lo, hi} => Block(q)' = Block(q)
    BY <1>10, LivePages DEF Block
  <2>2. Block(lo)' = Frames(lo, k + 1) BY <1>10 DEF Block
  <2> QED BY <2>1, <2>2, <1>7, <1>9 DEF Block
<1>15. Given' = Given BY <1>1 DEF Given
<1>16. BlocksDisjoint' /\ NoPageLost'
  BY <1>8, <1>9, <1>13, <1>14, <1>15, BlocksMerged
<1>17. HeadsAligned'
  BY <1>7, <1>10, <1>13, LivePages DEF BuddyInv, HeadsAligned
<1>18. TypeOK'
  <2>1. k + 1 \in 0 .. BUDDY_MAX_ORDER BY <1>2, Sizes
  <2>2. pp_order' \in [Pages -> 0 .. BUDDY_MAX_ORDER]
    BY <1>1, <2>1 DEF BuddyInv, TypeOK
  <2>3. pp_free' \in [Pages -> 0 .. 1]
    <3>1. pp_free \in [Pages -> 0 .. 1] /\ 0 \in 0 .. 1 /\ 1 \in 0 .. 1
      BY DEF BuddyInv, TypeOK
    <3> QED BY <3>1, <1>1
  <2>4. InFlight' \subseteq Pages BY <1>9, <1>11
  <2> QED BY <1>1, <1>9, <1>12, <2>2, <2>3, <2>4 DEF BuddyInv, TypeOK
<1>19. PendingUntouched'
  <2>1. lo \in Given /\ hi \in Given BY <1>9, LivePages
  <2> QED BY <2>1, <1>10, <1>15 DEF BuddyInv, PendingUntouched
<1>20. HeldInUse'
  <2>1. held' = held /\ held \subseteq Pages BY <1>1 DEF BuddyInv, TypeOK
  <2> QED BY <2>1, <1>1, <1>9, <1>10 DEF BuddyInv, HeldInUse
<1>21. InFlightOK'
  <2>1. lo \notin held' \cup FreeHeads'
    BY <1>1, <1>3, <1>8, <1>9, <1>12
  <2>2. k + 1 < BUDDY_MAX_ORDER => k + 1 \in Orders
    BY <1>2, PageBlocksAssumption DEF Orders
  <2>3. ~ (k + 1 < BUDDY_MAX_ORDER) => k + 1 \notin Orders
    BY PageBlocksAssumption DEF Orders
  <2> QED BY <1>1, <1>10, <1>11, <2>1, <2>2, <2>3 DEF InFlightOK
<1>22. \A p \in held : pp_order'[p] = pp_order[p]
  BY <1>9, <1>10 DEF BuddyInv, TypeOK
<1> QED BY <1>12, <1>16, <1>17, <1>18, <1>19, <1>20, <1>21, <1>22 DEF BuddyInv

\* One iteration of buddy_split(): a block becomes two, the upper half free.
LEMMA BuddySplitInv ==
    ASSUME BuddyInv, BuddySplit
    PROVE  BuddyInv' /\ \A p \in held : pp_order'[p] = pp_order[p]
<1>0. PICK c, k, b : c = cur /\ k = pp_order[c] - 1 /\ b = BuddyOf(c, k)
  OBVIOUS
<1>1. /\ pc = "split" /\ pp_order[c] # want
      /\ UNCHANGED <<pp_ref, cur, want, held, booted, ret>>
  BY <1>0 DEF BuddySplit
<1>2. /\ InFlight = {c} /\ c \in Pages /\ c \in Live
      /\ c \notin held /\ c \notin FreeHeads
      /\ pp_free[c] = 1 /\ pp_ref[c] = 0 /\ Aligned(c, pp_order[c])
  BY <1>0, <1>1, CurFacts
<1>3. /\ pp_order[c] \in Orders /\ k \in Orders /\ want <= k
      /\ pp_order[c] = k + 1
  <2>1. pp_order[c] \in Orders /\ want \in Orders /\ want <= pp_order[c]
    BY <1>0, <1>1 DEF BuddyInv, TypeOK, InFlightOK
  <2> QED BY <2>1, <1>0, <1>1, PageBlocksAssumption DEF Orders
<1>4. /\ b = c + Size[k] /\ Aligned(c, k) /\ Aligned(b, k) /\ BuddyOf(b, k) = c
      /\ Frames(c, k + 1) = Frames(c, k) \cup Frames(b, k) /\ b # c
  <2>1. c \in Nat /\ Size[k] \in Nat \ {0} /\ Size[k + 1] \in Nat \ {0}
        /\ Size[k + 1] = 2 * Size[k]
    BY <1>2, <1>3, Sizes DEF Pages
  <2>2. Aligned(c, k + 1) BY <1>2, <1>3
  <2>3. Size[k + 1] % Size[k] = 0
    BY <2>1, MultipleRemainder
  <2>4. Aligned(c, k) BY <2>1, <2>2, <2>3, Coarser DEF Aligned
  <2>5. b = c + Size[k] /\ b \in Nat /\ Aligned(b, k) /\ BuddyOf(b, k) = c
    BY <1>0, <1>3, <2>1, <2>2, <2>4, BuddyHalves
  <2>6. c < b BY <2>1, <2>5
  <2>7. Frames(c, k + 1) = Frames(c, k) \cup Frames(b, k)
    BY <1>0, <1>3, <2>1, <2>4, <2>5, <2>6, BuddiesJoin
  <2> QED BY <2>1, <2>4, <2>5, <2>6, <2>7
<1>5. b \in Block(c) /\ b \in Given /\ b \in Pages /\ b \notin Live
  <2>1. c \in Nat /\ Size[k] \in Nat \ {0} /\ Size[k + 1] = 2 * Size[k]
    BY <1>2, <1>3, Sizes DEF Pages
  <2>2. b \in Block(c) BY <2>1, <1>3, <1>4 DEF Block, Frames
  <2>3. b \in Given /\ b \in Pages BY <2>2, <1>2, LivePages, GivenInPages DEF BuddyInv
  <2> QED BY <2>2, <2>3, <1>2, <1>4, LivePages
<1>6. /\ pp_order' = [pp_order EXCEPT ![c] = k, ![b] = k]
      /\ pp_free' = [pp_free EXCEPT ![b] = 1]
      /\ buddy_free_list' =
            [buddy_free_list EXCEPT ![k] = ListAdd(buddy_free_list[k], b)]
      /\ pc' = pc
  BY <1>0, <1>5 DEF BuddySplit
<1>7. /\ pp_order'[c] = k /\ pp_order'[b] = k /\ pp_free'[b] = 1
      /\ \A q \in Pages : q \notin {c, b} => pp_order'[q] = pp_order[q]
      /\ \A q \in Pages : q # b => pp_free'[q] = pp_free[q]
  BY <1>2, <1>4, <1>5, <1>6 DEF BuddyInv, TypeOK
<1>8. InFlight' = {c} BY <1>0, <1>1, <1>6 DEF InFlight
<1>9. b \notin FreeHeads /\ b \notin held BY <1>5 DEF Live
<1>10. /\ buddy_free_list' \in [Orders -> Seq(Pages)]
       /\ FreeHeads' = FreeHeads \cup {b}
       /\ FreeFlagsMatchLists' /\ NoFreeBuddies'
  <2>1. BuddyOf(b, k) \notin ToSet(buddy_free_list[k])
    BY <1>2, <1>3, <1>4, ListedPages DEF BuddyInv
  <2>2. \A q \in FreeHeads : pp_order'[q] = pp_order[q] /\ pp_free'[q] = pp_free[q]
    BY <1>2, <1>7, <1>9, ListedPages DEF BuddyInv
  <2>3. \A q \in Pages : pp_free'[q] = 1 => q \in FreeHeads \cup {b} \cup InFlight'
    BY <1>2, <1>7, <1>8 DEF BuddyInv, FreeFlagsMatchLists
  <2> QED BY <1>1, <1>3, <1>4, <1>5, <1>6, <1>7, <1>9, <2>1, <2>2, <2>3, ListAddInv
<1>11. Live' = Live \cup {b}
  BY <1>1, <1>2, <1>8, <1>10 DEF Live
<1>12. /\ Block(c) = Block(c)' \cup Block(b)'
       /\ \A q \in Live \ {c} : Block(q)' = Block(q)
  <2>1. \A q \in Live \ {c} : Block(q)' = Block(q)
    BY <1>5, <1>7, LivePages DEF Block
  <2> QED BY <2>1, <1>3, <1>4, <1>7 DEF Block
<1>13. Block(c)' \cap Block(b)' = {}
  <2>1. c \in Nat /\ Size[k] \in Nat \ {0} BY <1>2, <1>3, Sizes DEF Pages
  <2> QED BY <2>1, <1>4, <1>7 DEF Block, Frames
<1>14. Given' = Given BY <1>1 DEF Given
<1>15. BlocksDisjoint' /\ NoPageLost'
  BY <1>2, <1>5, <1>11, <1>12, <1>13, <1>14, BlocksSplit
<1>16. HeadsAligned'
  BY <1>4, <1>7, <1>11, LivePages DEF BuddyInv, HeadsAligned
<1>17. TypeOK'
  <2>1. k \in 0 .. BUDDY_MAX_ORDER BY <1>3, Sizes
  <2>2. pp_order' \in [Pages -> 0 .. BUDDY_MAX_ORDER]
    BY <1>6, <2>1 DEF BuddyInv, TypeOK
  <2>3. pp_free' \in [Pages -> 0 .. 1]
    <3>1. pp_free \in [Pages -> 0 .. 1] /\ 1 \in 0 .. 1
      BY DEF BuddyInv, TypeOK
    <3> QED BY <3>1, <1>6
  <2> QED BY <1>0, <1>1, <1>2, <1>6, <1>8, <1>10, <2>2, <2>3 DEF BuddyInv, TypeOK
<1>18. PendingUntouched'
  <2>1. c \in Given BY <1>2, LivePages
  <2> QED BY <2>1, <1>14, <1>5, <1>7 DEF BuddyInv, PendingUntouched
<1>19. HeldInUse'
  <2>1. held' = held /\ held \subseteq Pages BY <1>1 DEF BuddyInv, TypeOK
  <2> QED BY <2>1, <1>1, <1>2, <1>7, <1>9 DEF BuddyInv, HeldInUse
<1>20. InFlightOK'
  BY <1>0, <1>1, <1>2, <1>3, <1>4, <1>6, <1>7, <1>8, <1>9, <1>10 DEF InFlightOK
<1>21. \A p \in held : pp_order'[p] = pp_order[p]
  BY <1>2, <1>7, <1>9 DEF BuddyInv, TypeOK
<1> QED BY <1>10, <1>15, <1>16, <1>17, <1>18, <1>19, <1>20, <1>21 DEF BuddyInv

\* Steps outside the allocator change nothing in it.
LEMMA StutterInv == ASSUME BuddyInv, UNCHANGED vars PROVE BuddyInv'
<1>1. UNCHANGED <<pp_order, pp_free, pp_ref, buddy_free_list, pc, cur, want, held,
                  booted, ret>>
  BY DEF vars, fields
<1>2. /\ FreeHeads' = FreeHeads /\ InFlight' = InFlight /\ Live' = Live
      /\ Given' = Given
  BY <1>1 DEF FreeHeads, InFlight, Live, Given
<1>3. BlocksDisjoint' /\ NoPageLost' /\ HeadsAligned' BY <1>1, <1>2, BlocksKept
<1>4. TypeOK' /\ FreeFlagsMatchLists' BY <1>1, <1>2 DEF BuddyInv, TypeOK, FreeFlagsMatchLists
<1>5. NoFreeBuddies' /\ PendingUntouched' /\ HeldInUse'
  BY <1>1, <1>2 DEF BuddyInv, NoFreeBuddies, PendingUntouched, HeldInUse
<1>6. InFlightOK' BY <1>1, <1>2 DEF BuddyInv, InFlightOK
<1> QED BY <1>3, <1>4, <1>5, <1>6 DEF BuddyInv

\* Every step keeps the invariant.
LEMMA NextInv == ASSUME BuddyInv, [Next]_vars PROVE BuddyInv'
<1>1. CASE Cpu
  BY <1>1, PageInitInv, MergeBuddyInv, MergeDoneInv, AddMergedInv, BuddySplitInv,
     SplitDoneInv DEF Cpu
<1>2. CASE Call
  <2>1. ASSUME NEW order \in ReqOrders, BuddyFind(order) PROVE BuddyInv'
    BY <2>1, BuddyFindInv
  <2>2. ASSUME NEW order \in ReqOrders, NEW zero \in BOOLEAN,
               BuddyFindNull(order, zero)
        PROVE  BuddyInv'
    BY <2>2, BuddyFindNullInv
  <2>3. ASSUME NEW p \in held, PageFree(p) PROVE BuddyInv'
    BY <2>3, PageFreeInv
  <2>4. ASSUME NEW p \in held, Reference(p) PROVE BuddyInv'
    BY <2>4, ReferenceInv
  <2>5. ASSUME NEW p \in held, PageDecref(p) PROVE BuddyInv'
    BY <2>5, PageDecrefInv
  <2> QED BY <1>2, <2>1, <2>2, <2>3, <2>4, <2>5 DEF Call
<1>3. CASE UNCHANGED vars BY <1>3, StutterInv
<1> QED BY <1>1, <1>2, <1>3 DEF Next

-----------------------------------------------------------------------------
(* Theorems *)

\* Every reachable state of the allocator satisfies the inductive invariant.
THEOREM Invariance == Spec => []BuddyInv
<1>1. Init => BuddyInv BY InitInv
<1>2. BuddyInv /\ [Next]_vars => BuddyInv' BY NextInv
<1> QED BY <1>1, <1>2, PTL DEF Spec

\* The variables keep their types.
THEOREM TypeCorrect == Spec => []TypeOK
<1>1. BuddyInv => TypeOK BY DEF BuddyInv
<1> QED BY <1>1, Invariance, PTL

\* No page is ever in two blocks, so none is ever owned twice.
THEOREM NeverOwnedTwice == Spec => []BlocksDisjoint
<1>1. BuddyInv => BlocksDisjoint BY DEF BuddyInv
<1> QED BY <1>1, Invariance, PTL

\* Every page boot handed over is in some block, and no other page is.
THEOREM PagesConserved == Spec => []NoPageLost
<1>1. BuddyInv => NoPageLost BY DEF BuddyInv
<1> QED BY <1>1, Invariance, PTL

\* Lists, orders and free flags agree.
THEOREM ListsCorrect == Spec => []FreeFlagsMatchLists
<1>1. BuddyInv => FreeFlagsMatchLists BY DEF BuddyInv
<1> QED BY <1>1, Invariance, PTL

\* With BONUS_LAB1 or without, page_free() accepts every block on loan.
THEOREM FreesAccepted == Spec => []ValidFreeAccepted
<1>1. BuddyInv => ValidFreeAccepted
  <2> SUFFICES ASSUME BuddyInv, NEW p \in held PROVE ~ Misplaced(p) /\ ~ Rejected(p)
    BY DEF ValidFreeAccepted
  <2> QED BY HeldFacts, FreeAccepted
<1> QED BY <1>1, Invariance, PTL

\* A merge that reached the order past the last would need every page of an
\* aligned pair of largest blocks, one of which boot kept.
LEMMA TopPairBound ==
    ASSUME BuddyInv, TopPairsReserved
    PROVE  pc # "wild"
<1> SUFFICES ASSUME pc = "wild" PROVE FALSE OBVIOUS
<1> DEFINE m == BUDDY_MAX_ORDER
<1>1. cur \in Live /\ cur \in Pages /\ pp_order[cur] = m /\ Aligned(cur, m)
  BY CurFacts DEF BuddyInv, InFlightOK
<1>2. Frames(cur, m) \subseteq Given BY <1>1, LivePages DEF Block
<1>3. Given \subseteq ToSet(BootPages) /\ Given \subseteq Pages
  <2>1. booted \in 0 .. Len(BootPages) /\ BootPages \in Seq(Pages)
    BY BuddyAssumption DEF BuddyInv, TypeOK
  <2>2. Given \subseteq ToSet(BootPages) BY <2>1 DEF Given, ToSet
  <2> QED BY <2>2, GivenInPages DEF BuddyInv
<1>4. cur \in Regions(m)
  <2>1. Size[m] \in Nat \ {0} /\ m \in Nat BY Sizes, PageBlocksAssumption
  <2>2. cur + Size[m] - 1 \in Frames(cur, m)
    BY <1>1, <2>1, PageBlocksAssumption DEF Frames, Pages
  <2>3. cur + Size[m] - 1 \in Pages BY <2>2, <1>2, <1>3
  <2> QED BY <1>1, <2>1, <2>3, PageBlocksAssumption DEF Regions, Pages
<1> QED BY <1>2, <1>3, <1>4 DEF TopPairsReserved

\* Where boot reserves a page in every aligned pair of largest blocks, merging
\* never leaves the array of free lists.
THEOREM IndexInBounds == TopPairsReserved => (Spec => []ListIndexInBounds)
<1> SUFFICES ASSUME TopPairsReserved PROVE Spec => []ListIndexInBounds
  OBVIOUS
<1>1. BuddyInv => ListIndexInBounds BY TopPairBound DEF ListIndexInBounds
<1> QED BY <1>1, Invariance, PTL

\* Nothing but its owner touches a block on loan.
THEOREM LoansUntouched == Spec => LoanUntouched
<1> DEFINE Kept == \A p \in held \cap held' :
                      pp_order'[p] = pp_order[p] /\ pp_free'[p] = 0
<1>1. BuddyInv /\ BuddyInv' /\ [Next]_vars => Kept
  <2> SUFFICES ASSUME BuddyInv, BuddyInv', [Next]_vars PROVE Kept OBVIOUS
  <2>1. \A p \in held' : pp_free'[p] = 0 BY DEF BuddyInv, HeldInUse
  <2>2. \A p \in held : pp_order'[p] = pp_order[p]
    <3>1. CASE MergeBuddy BY <3>1, MergeBuddyInv
    <3>2. CASE BuddySplit BY <3>2, BuddySplitInv
    <3>3. CASE UNCHANGED pp_order BY <3>3
    <3>4. MergeBuddy \/ BuddySplit \/ UNCHANGED pp_order
      BY DEF Next, Cpu, Call, PageInit, MergeDone, AddMerged, SplitDone, BuddyFind,
             BuddyFindNull, PageFree, Reference, PageDecref, vars, fields
    <3> QED BY <3>1, <3>2, <3>3, <3>4
  <2> QED BY <2>1, <2>2
<1>2. BuddyInv /\ BuddyInv' /\ [Next]_vars => [Kept]_vars BY <1>1
<1> QED BY <1>2, Invariance, PTL DEF Spec, LoanUntouched

=============================================================================
