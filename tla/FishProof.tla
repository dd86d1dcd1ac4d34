----------------------------- MODULE FishProof -----------------------------
(***************************************************************************)
(* Proofs about Fish for every size of the screen, every length of the     *)
(* waiting loops and every pair of frames.                                 *)
(*                                                                         *)
(* The list through blink_array is described by the sequence of its cells: *)
(* the walk along next (Nth) is shown to visit just these, so that the     *)
(* steps can be reasoned about cell by cell.                               *)
(***************************************************************************)
EXTENDS Fish, FiniteSetTheorems, WellFoundedInduction, TLAPS

----------------------------------------------------------------------------
(* The list *)

\* s[1], ..., s[m] are the cells of the list that starts at h in the array a,
\* and the only ones that are not free
Chain(a, h, m, s) ==
  /\ m \in Nat /\ s \in [1..m -> Cells]
  /\ \A j, k \in 1..m : s[j] = s[k] => j = k
  /\ h = IF m = 0 THEN NULL ELSE s[1]
  /\ \A j \in 1..m : a[s[j]].next = IF j = m THEN NULL ELSE s[j + 1]
  /\ \A n \in Cells : a[n].location # 0 <=> \E j \in 1..m : s[j] = n

\* What the assumption says of each constant
LEMMA Sizes ==
  /\ SIZE \in Nat /\ SIZE >= 2 /\ COLS \in Nat /\ ROWS \in Nat /\ WAIT \in Nat
  /\ HALF \in Nat /\ SHORT \in Nat /\ SHORT = 2 * HALF
  /\ OFFSET \in Nat /\ OFFSET >= 1 /\ LOCATION \in 1..SIZE - 1 /\ LOCATION < SHORT
  /\ LENGTH \in 1..HALF - 1 /\ ON_LENGTH \in 1..HALF - 1 /\ OFF_LENGTH \in 1..HALF - 1
<1>1. COLS * ROWS \in Nat
  <2>1. COLS \in Nat /\ ROWS \in Nat
    BY FishAssumption
  <2>. QED
    BY <2>1
<1>2. LOCATION \in 1..COLS * ROWS - 1
  BY FishAssumption
<1> DEFINE z == COLS * ROWS
<1>3. z \in Nat /\ z >= 2
  <2> HIDE DEF z
  <2>1. z \in Nat /\ LOCATION \in 1..z - 1
    BY <1>1, <1>2 DEF z
  <2>. QED
    BY <2>1
<1> HIDE DEF z
<1>4. SIZE \in Nat /\ SIZE >= 2 /\ LOCATION \in 1..SIZE - 1
  BY <1>2, <1>3 DEF SIZE, z
<1>5. COLS \in Nat /\ ROWS \in Nat /\ WAIT \in Nat /\ HALF \in Nat
  BY FishAssumption
<1>6. OFFSET \in Nat /\ OFFSET >= 1
  <2>1. OFFSET \in 1..COLS - 1
    BY FishAssumption
  <2>. QED
    BY <1>5, <2>1
<1>7. LOCATION < SHORT
  BY FishAssumption
<1>8. LENGTH \in 1..HALF - 1 /\ ON_LENGTH \in 1..HALF - 1 /\ OFF_LENGTH \in 1..HALF - 1
  <2>1. {LENGTH, ON_LENGTH, OFF_LENGTH} \subseteq 1..HALF - 1
    BY FishAssumption
  <2>. QED
    BY <2>1
<1>9. SHORT \in Nat /\ SHORT = 2 * HALF
  BY <1>5 DEF SHORT
<1>. QED
  BY <1>4, <1>5, <1>6, <1>7, <1>8, <1>9

\* A set of naturals has a least element, which the CHOOSE of a search names
LEMMA LeastExists ==
  ASSUME NEW S \in SUBSET Nat, S # {}
  PROVE  \E x \in S : \A y \in S : x <= y
<1>1. PICK x \in S : \A y \in S : ~ (<<y, x>> \in OpToRel(<, Nat))
  BY NatLessThanWellFounded, WFMin
<1>2. \A y \in S : ~ (y < x)
  BY <1>1 DEF OpToRel
<1>. QED
  BY <1>2

\* No list is longer than the array
LEMMA ChainLength ==
  ASSUME NEW a, NEW h, NEW m, NEW s, Chain(a, h, m, s)
  PROVE  m <= SIZE
<1>1. m \in Nat
  BY DEF Chain
<1>2. /\ IsFiniteSet(1..m) /\ Cardinality(1..m) = m
      /\ IsFiniteSet(1..SIZE) /\ Cardinality(1..SIZE) = SIZE
  <2>1. \A n \in Nat : IsFiniteSet(1..n) /\ Cardinality(1..n) = n
    <3> TAKE n \in Nat
    <3>1. IsFiniteSet(1..n) /\ Cardinality(1..n) = IF 1 > n THEN 0 ELSE n - 1 + 1
      BY FS_Interval
    <3>. QED
      BY <3>1
  <2>. QED
    BY <1>1, <2>1, Sizes
<1>3. s \in Injection(1..m, 1..SIZE)
  BY DEF Chain, Cells, Injection, IsInjective
<1>4. Cardinality(1..m) <= Cardinality(1..SIZE)
  BY <1>2, <1>3, FS_Injection DEF ExistsInjection
<1>. QED
  BY <1>2, <1>4

\* Walking along next visits the cells of the list, then stays at NULL
LEMMA NthIs ==
  ASSUME NEW m, NEW s, Chain(blink_array, mp1_list_head, m, s)
  PROVE  \A n \in 0..SIZE : Nth[n] = IF n < m THEN s[n + 1] ELSE NULL
<1> DEFINE Walk(g) == [n \in 0..SIZE |-> IF n = 0 THEN mp1_list_head
                         ELSE IF g[n - 1] = NULL THEN NULL ELSE blink_array[g[n - 1]].next]
           w == [n \in 0..SIZE |-> IF n < m THEN s[n + 1] ELSE NULL]
<1>1. /\ m \in Nat /\ SIZE \in Nat /\ m <= SIZE /\ s \in [1..m -> Cells]
      /\ mp1_list_head = IF m = 0 THEN NULL ELSE s[1]
      /\ \A j \in 1..m : blink_array[s[j]].next = IF j = m THEN NULL ELSE s[j + 1]
  <2>1. SIZE \in Nat /\ m <= SIZE
    BY ChainLength, Sizes
  <2>. QED
    BY <2>1 DEF Chain
<1>2. \A c \in Cells : c # NULL
  BY DEF Cells, NULL
<1>3. ASSUME NEW n \in 0..SIZE, n # 0
      PROVE  w[n] = IF w[n - 1] = NULL THEN NULL ELSE blink_array[w[n - 1]].next
  <2>1. n - 1 \in 0..SIZE /\ (n - 1) + 1 = n
    BY <1>1, <1>3
  <2>2. w[n] = (IF n < m THEN s[n + 1] ELSE NULL) /\ w[n - 1] = IF n - 1 < m THEN s[n] ELSE NULL
    BY <2>1
  <2> HIDE DEF w
  <2>3. CASE n - 1 < m
    <3>1. n \in 1..m /\ (n = m <=> ~(n < m))
      BY <1>1, <1>3, <2>3
    <3>2. w[n - 1] = s[n] /\ s[n] # NULL
      BY <1>1, <1>2, <2>2, <2>3, <3>1
    <3>3. blink_array[s[n]].next = IF n = m THEN NULL ELSE s[n + 1]
      BY <1>1, <3>1
    <3>. QED
      BY <2>2, <3>1, <3>2, <3>3
  <2>4. CASE ~(n - 1 < m)
    <3>1. ~(n < m)
      BY <1>1, <1>3, <2>4
    <3>. QED
      BY <2>2, <2>4, <3>1
  <2>. QED
    BY <2>3, <2>4
<1>4. w[0] = mp1_list_head
  <2>1. 0 \in 0..SIZE /\ (0 < m <=> m # 0)
    BY <1>1
  <2>2. w[0] = IF 0 < m THEN s[0 + 1] ELSE NULL
    BY <2>1
  <2>. QED
    BY <1>1, <2>1, <2>2
<1>5. w = Walk(w)
  <2>1. w = [n \in 0..SIZE |-> w[n]]
    OBVIOUS
  <2> HIDE DEF w
  <2>2. \A n \in 0..SIZE : w[n] = IF n = 0 THEN mp1_list_head
            ELSE IF w[n - 1] = NULL THEN NULL ELSE blink_array[w[n - 1]].next
    BY <1>3, <1>4
  <2>. QED
    BY <2>1, <2>2
<1>6. Nth = Walk(Nth)
  BY <1>5, Zenon DEF Nth
<1>7. \A n \in 0..SIZE : Nth[n] = IF n = 0 THEN mp1_list_head
        ELSE IF Nth[n - 1] = NULL THEN NULL ELSE blink_array[Nth[n - 1]].next
  <2> DEFINE N == Nth
  <2>1. N = Walk(N)
    BY <1>6
  <2> HIDE DEF N
  <2>2. \A n \in 0..SIZE : N[n] = IF n = 0 THEN mp1_list_head
          ELSE IF N[n - 1] = NULL THEN NULL ELSE blink_array[N[n - 1]].next
    BY <2>1
  <2>. QED
    BY <2>2 DEF N
<1> DEFINE Wrong == {n \in 0..SIZE : Nth[n] # w[n]}
<1>8. Wrong = {}
  <2> SUFFICES ASSUME Wrong # {} PROVE FALSE
    OBVIOUS
  <2>1. Wrong \in SUBSET Nat
    BY <1>1
  <2>2. PICK n \in Wrong : \A k \in Wrong : n <= k
    BY <2>1, LeastExists
  <2>3. n \in 0..SIZE /\ Nth[n] # w[n]
    BY <2>2
  <2> HIDE DEF w
  <2>4. n # 0
    BY <1>4, <1>7, <2>3
  <2>5. n - 1 \in 0..SIZE /\ ~(n <= n - 1)
    BY <1>1, <2>3, <2>4
  <2>6. Nth[n - 1] = w[n - 1]
    BY <2>2, <2>5
  <2>. QED
    BY <1>3, <1>7, <2>3, <2>4, <2>6
<1>. QED
  BY <1>8

\* The cells visited are the ones in use
LEMMA ListedIs ==
  ASSUME NEW m, NEW s, Chain(blink_array, mp1_list_head, m, s)
  PROVE  /\ Nth[SIZE] = NULL
         /\ Listed = {n \in Cells : blink_array[n].location # 0}
<1>1. m \in Nat /\ s \in [1..m -> Cells] /\ SIZE \in Nat /\ m <= SIZE
  <2>1. SIZE \in Nat /\ m <= SIZE
    BY ChainLength, Sizes
  <2>. QED
    BY <2>1 DEF Chain
<1>2. \A n \in 0..SIZE : Nth[n] = IF n < m THEN s[n + 1] ELSE NULL
  BY NthIs
<1>3. Nth[SIZE] = NULL
  <2>1. SIZE \in 0..SIZE /\ ~(SIZE < m)
    BY <1>1
  <2>. QED
    BY <1>2, <2>1
<1>4. \A c \in Cells : c # NULL
  BY DEF Cells, NULL
<1>5. ASSUME NEW n \in 0..SIZE, Nth[n] # NULL
      PROVE  Nth[n] \in Cells /\ blink_array[Nth[n]].location # 0
  <2>1. n < m /\ Nth[n] = s[n + 1]
    BY <1>2, <1>5
  <2>2. n + 1 \in 1..m
    BY <1>1, <2>1
  <2>. QED
    BY <1>1, <2>1, <2>2 DEF Chain
<1>6. ASSUME NEW c \in Cells, blink_array[c].location # 0
      PROVE  \E n \in 0..SIZE : Nth[n] = c
  <2>1. PICK j \in 1..m : s[j] = c
    BY <1>6 DEF Chain
  <2>2. j - 1 \in 0..SIZE /\ j - 1 < m /\ (j - 1) + 1 = j
    BY <1>1, <2>1
  <2>. QED
    BY <1>2, <2>1, <2>2
<1>. QED
  BY <1>3, <1>4, <1>5, <1>6 DEF Listed

\* The first cell of the list at a location
First(a, m, s, l, p) ==
  /\ p \in 1..m
  /\ a[s[p]].location = l
  /\ \A j \in 1..m : a[s[j]].location = l => p <= j

\* mp1_find_helper finds the first cell at a location, if one is there
LEMMA FindIs ==
  ASSUME NEW m, NEW s, NEW l, Chain(blink_array, mp1_list_head, m, s)
  PROVE  /\ mp1_find_helper(l) # NULL => \E p : First(blink_array, m, s, l, p)
         /\ \A p : First(blink_array, m, s, l, p) => mp1_find_helper(l) = s[p]
         /\ mp1_find_helper(l) # NULL => mp1_find_helper(l) \in Cells
<1> DEFINE found == {n \in 0..SIZE : Nth[n] # NULL /\ blink_array[Nth[n]].location = l}
           least == CHOOSE n \in found : \A x \in found : n <= x
<1>1. m \in Nat /\ s \in [1..m -> Cells] /\ SIZE \in Nat /\ m <= SIZE
  <2>1. SIZE \in Nat /\ m <= SIZE
    BY ChainLength, Sizes
  <2>. QED
    BY <2>1 DEF Chain
<1>2. \A n \in 0..SIZE : Nth[n] = IF n < m THEN s[n + 1] ELSE NULL
  BY NthIs
<1>3. \A c \in Cells : c # NULL
  BY DEF Cells, NULL
<1>4. \A n : n \in found <=> n \in Nat /\ n + 1 \in 1..m /\ blink_array[s[n + 1]].location = l
  <2>1. ASSUME NEW n \in found
        PROVE  n \in Nat /\ n + 1 \in 1..m /\ blink_array[s[n + 1]].location = l
    <3>1. n \in 0..SIZE /\ n < m /\ Nth[n] = s[n + 1]
      BY <1>2
    <3>2. blink_array[Nth[n]].location = l
      OBVIOUS
    <3>. QED
      BY <1>1, <3>1, <3>2
  <2>2. ASSUME NEW n \in Nat, n + 1 \in 1..m, blink_array[s[n + 1]].location = l
        PROVE  n \in found
    <3>1. n \in 0..SIZE /\ n < m
      BY <1>1, <2>2
    <3>2. Nth[n] = s[n + 1] /\ s[n + 1] # NULL
      BY <1>1, <1>2, <1>3, <2>2, <3>1
    <3>. QED
      BY <2>2, <3>1, <3>2
  <2>. QED
    BY <2>1, <2>2
<1>5. found \in SUBSET Nat
  BY <1>1
<1>6. mp1_find_helper(l) = IF found = {} THEN NULL ELSE Nth[least]
  BY DEF mp1_find_helper
<1> HIDE DEF found
<1>7. ASSUME found # {} PROVE least \in found /\ \A x \in found : least <= x
  BY <1>5, <1>7, LeastExists
<1> HIDE DEF least
<1>8. ASSUME found # {}
      PROVE  First(blink_array, m, s, l, least + 1) /\ mp1_find_helper(l) = s[least + 1]
  <2>1. /\ least \in Nat /\ least + 1 \in 1..m /\ blink_array[s[least + 1]].location = l
    BY <1>4, <1>7, <1>8
  <2>2. ASSUME NEW j \in 1..m, blink_array[s[j]].location = l PROVE least + 1 <= j
    <3>1. j - 1 \in Nat /\ (j - 1) + 1 = j
      BY <1>1
    <3>2. j - 1 \in found
      BY <1>4, <2>2, <3>1
    <3>3. least <= j - 1
      BY <1>7, <1>8, <3>2
    <3>. QED
      BY <1>1, <2>1, <3>1, <3>3
  <2>3. least \in 0..SIZE /\ least < m
    BY <1>1, <2>1
  <2>4. Nth[least] = s[least + 1]
    BY <1>2, <2>3
  <2>. QED
    BY <1>6, <1>8, <2>1, <2>2, <2>4 DEF First
<1>9. ASSUME NEW p, First(blink_array, m, s, l, p) PROVE found # {} /\ p = least + 1
  <2>1. p \in 1..m /\ p - 1 \in Nat /\ (p - 1) + 1 = p
    BY <1>1, <1>9 DEF First
  <2>2. p - 1 \in found
    BY <1>4, <1>9, <2>1 DEF First
  <2>3. least <= p - 1 /\ least \in Nat
    BY <1>5, <1>7, <2>2
  <2>4. p <= least + 1
    BY <1>8, <1>9, <2>2 DEF First
  <2>. QED
    BY <2>1, <2>2, <2>3, <2>4
<1>10. mp1_find_helper(l) # NULL => found # {}
  BY <1>6
<1>11. First(blink_array, m, s, l, least + 1) => s[least + 1] \in Cells
  BY <1>1 DEF First
<1>. QED
  BY <1>8, <1>9, <1>10, <1>11

\* Ticks and synchronisation change neither the links nor the locations
SameLinks(a, b) == \A n \in Cells : b[n].location = a[n].location /\ b[n].next = a[n].next

\* so the list, and the first cell at each location, stay
LEMMA SameChain ==
  ASSUME NEW a, NEW b, NEW h, NEW m, NEW s, Chain(a, h, m, s), SameLinks(a, b)
  PROVE  /\ Chain(b, h, m, s)
         /\ \A l, p : First(a, m, s, l, p) => First(b, m, s, l, p)
<1>1. \A j \in 1..m : s[j] \in Cells
  BY DEF Chain
<1>2. \A j \in 1..m : b[s[j]].next = a[s[j]].next /\ b[s[j]].location = a[s[j]].location
  BY <1>1 DEF SameLinks
<1>3. Chain(b, h, m, s)
  BY <1>2 DEF Chain, SameLinks
<1>4. ASSUME NEW l, NEW p, First(a, m, s, l, p) PROVE First(b, m, s, l, p)
  BY <1>2, <1>4 DEF First
<1>. QED
  BY <1>3, <1>4

\* A free cell that is put in front
LEMMA AddChain ==
  ASSUME NEW a, NEW b, NEW h, NEW m, NEW s, Chain(a, h, m, s),
         NEW cell \in Cells, a[cell].location = 0,
         b[cell].location # 0, b[cell].next = h,
         \A n \in Cells : n # cell => b[n] = a[n]
  PROVE  \E m2, s2 : Chain(b, cell, m2, s2)
<1> DEFINE t == [j \in 1..m + 1 |-> IF j = 1 THEN cell ELSE s[j - 1]]
<1>1. /\ m \in Nat /\ s \in [1..m -> Cells]
      /\ \A j, k \in 1..m : s[j] = s[k] => j = k
      /\ h = IF m = 0 THEN NULL ELSE s[1]
      /\ \A j \in 1..m : a[s[j]].next = IF j = m THEN NULL ELSE s[j + 1]
      /\ \A n \in Cells : a[n].location # 0 <=> \E j \in 1..m : s[j] = n
  BY DEF Chain
<1>2. \A j \in 1..m : s[j] # cell /\ s[j] \in Cells
  BY <1>1
<1>3. \A j \in 1..m + 1 : j # 1 => j - 1 \in 1..m
  BY <1>1
<1>4. t \in [1..m + 1 -> Cells]
  BY <1>1, <1>3
<1>5. /\ t[1] = cell
      /\ \A j \in 1..m + 1 : j # 1 => t[j] = s[j - 1] /\ t[j] # cell
      /\ \A j \in 1..m : t[j + 1] = s[j]
  <2>1. t[1] = cell
    BY <1>1
  <2>2. \A j \in 1..m + 1 : j # 1 => t[j] = s[j - 1] /\ t[j] # cell
    BY <1>2, <1>3
  <2>3. \A j \in 1..m : j + 1 \in 1..m + 1 /\ j + 1 # 1 /\ (j + 1) - 1 = j
    BY <1>1
  <2> HIDE DEF t
  <2>. QED
    BY <2>1, <2>2, <2>3
<1> HIDE DEF t
<1>6. ASSUME NEW j \in 1..m + 1, NEW k \in 1..m + 1, t[j] = t[k] PROVE j = k
  <2>1. CASE j = 1 \/ k = 1
    BY <1>5, <1>6, <2>1
  <2>2. CASE j # 1 /\ k # 1
    <3>1. s[j - 1] = s[k - 1] /\ j - 1 \in 1..m /\ k - 1 \in 1..m
      BY <1>3, <1>5, <1>6, <2>2
    <3>2. j - 1 = k - 1
      BY <1>1, <3>1
    <3>. QED
      BY <1>1, <3>2
  <2>. QED
    BY <2>1, <2>2
<1>7. ASSUME NEW j \in 1..m + 1
      PROVE  b[t[j]].next = IF j = m + 1 THEN NULL ELSE t[j + 1]
  <2>1. CASE j = 1
    <3>1. m # 0 => t[1 + 1] = s[1]
      BY <1>1, <1>5
    <3>2. 1 = m + 1 <=> m = 0
      BY <1>1
    <3>. QED
      BY <1>1, <1>5, <2>1, <3>1, <3>2
  <2>2. CASE j # 1
    <3>1. j - 1 \in 1..m /\ (j - 1 = m <=> j = m + 1) /\ (j - 1) + 1 = j
      BY <1>1, <2>2
    <3>2. t[j] = s[j - 1] /\ b[t[j]] = a[s[j - 1]]
      BY <1>2, <1>5, <2>2, <3>1
    <3>3. a[s[j - 1]].next = IF j - 1 = m THEN NULL ELSE s[j]
      BY <1>1, <3>1
    <3>4. j # m + 1 => j \in 1..m
      BY <1>1
    <3>. QED
      BY <1>5, <3>1, <3>2, <3>3, <3>4
  <2>. QED
    BY <2>1, <2>2
<1>8. ASSUME NEW n \in Cells
      PROVE  b[n].location # 0 <=> \E j \in 1..m + 1 : t[j] = n
  <2>1. CASE n = cell
    <3>1. 1 \in 1..m + 1
      BY <1>1
    <3>. QED
      BY <1>5, <2>1, <3>1
  <2>2. CASE n # cell
    <3>1. b[n].location # 0 <=> \E j \in 1..m : s[j] = n
      BY <1>1, <2>2
    <3>2. \A j \in 1..m : j + 1 \in 1..m + 1
      BY <1>1
    <3>. QED
      BY <1>3, <1>5, <2>2, <3>1, <3>2
  <2>. QED
    BY <2>1, <2>2
<1>9. m + 1 \in Nat /\ m + 1 # 0
  BY <1>1
<1>10. Chain(b, cell, m + 1, t)
  BY <1>4, <1>5, <1>6, <1>7, <1>8, <1>9 DEF Chain
<1>. QED
  BY <1>10

\* A cell that is unlinked and freed
LEMMA RemoveChain ==
  ASSUME NEW a, NEW b, NEW h, NEW m, NEW s, Chain(a, h, m, s), NEW k \in 1..m,
         b[s[k]].location = 0,
         \A n \in Cells : n # s[k] =>
           /\ b[n].location = a[n].location
           /\ b[n].next = IF a[n].location # 0 /\ a[n].next = s[k] THEN a[s[k]].next
                          ELSE a[n].next
  PROVE  \E m2, s2 : Chain(b, IF h = s[k] THEN a[s[k]].next ELSE h, m2, s2)
<1> DEFINE c == s[k]
           Old(j) == IF j < k THEN j ELSE j + 1
           t == [j \in 1..m - 1 |-> s[Old(j)]]
<1>1. /\ m \in Nat /\ s \in [1..m -> Cells]
      /\ \A i1, i2 \in 1..m : s[i1] = s[i2] => i1 = i2
      /\ h = IF m = 0 THEN NULL ELSE s[1]
      /\ \A j \in 1..m : a[s[j]].next = IF j = m THEN NULL ELSE s[j + 1]
      /\ \A n \in Cells : a[n].location # 0 <=> \E j \in 1..m : s[j] = n
  BY DEF Chain
<1>2. /\ c \in Cells /\ c # NULL /\ m >= 1 /\ k \in Nat
      /\ \A j \in 1..m : s[j] \in Cells /\ a[s[j]].location # 0 /\ (s[j] = c <=> j = k)
  BY <1>1 DEF Cells, NULL
<1>3. \A j \in 1..m - 1 : Old(j) \in 1..m /\ Old(j) # k
  BY <1>1
<1>4. \A j, j2 \in 1..m - 1 : Old(j) = Old(j2) => j = j2
  BY <1>1
<1>5. \A j \in 1..m : j # k => \E i1 \in 1..m - 1 : Old(i1) = j
  <2> SUFFICES ASSUME NEW j \in 1..m, j # k PROVE \E i1 \in 1..m - 1 : Old(i1) = j
    OBVIOUS
  <2>1. CASE j < k
    <3>1. j \in 1..m - 1 /\ Old(j) = j
      BY <1>1, <2>1
    <3>. QED
      BY <3>1
  <2>2. CASE j > k
    <3>1. j - 1 \in 1..m - 1 /\ Old(j - 1) = j
      BY <1>1, <2>2
    <3>. QED
      BY <3>1
  <2>. QED
    BY <1>1, <2>1, <2>2
<1>6. ASSUME NEW j \in 1..m - 1
      PROVE  /\ j # m - 1 => j + 1 \in 1..m - 1
             /\ Old(j) + 1 = k =>
                  (k < m /\ j # m - 1 /\ Old(j + 1) = k + 1) \/ (k = m /\ j = m - 1)
             /\ Old(j) + 1 # k => (Old(j) = m <=> j = m - 1)
             /\ Old(j) + 1 # k /\ j # m - 1 => Old(j + 1) = Old(j) + 1
  <2>1. m \in Nat /\ j \in Nat /\ j >= 1 /\ j <= m - 1 /\ k \in Nat /\ k >= 1 /\ k <= m
    BY <1>1
  <2>2. CASE j < k
    <3>1. Old(j) = j /\ Old(j + 1) = IF j + 1 < k THEN j + 1 ELSE (j + 1) + 1
      BY <2>2
    <3> HIDE DEF Old
    <3>2. CASE j + 1 = k
      BY <2>1, <2>2, <3>1, <3>2
    <3>3. CASE j + 1 # k
      BY <2>1, <2>2, <3>1, <3>3
    <3>. QED
      BY <3>2, <3>3
  <2>3. CASE ~(j < k)
    BY <2>1, <2>3
  <2>. QED
    BY <2>2, <2>3
<1> HIDE DEF Old
<1>7. t \in [1..m - 1 -> Cells] /\ \A j \in 1..m - 1 : t[j] = s[Old(j)] /\ t[j] # c
  BY <1>2, <1>3
<1>8. b[c].location = 0 /\ \A n \in Cells : n # c =>
           /\ b[n].location = a[n].location
           /\ b[n].next = IF a[n].location # 0 /\ a[n].next = c THEN a[c].next
                          ELSE a[n].next
  OBVIOUS
<1>9. a[c].next = IF k = m THEN NULL ELSE s[k + 1]
  BY <1>1
<1> HIDE DEF t, c
<1>10. ASSUME NEW j \in 1..m - 1, NEW j2 \in 1..m - 1, t[j] = t[j2] PROVE j = j2
  BY <1>1, <1>3, <1>4, <1>7, <1>10
<1>11. ASSUME NEW j \in 1..m - 1
       PROVE  b[t[j]].next = IF j = m - 1 THEN NULL ELSE t[j + 1]
  <2> DEFINE o == Old(j)
  <2>1. o \in 1..m /\ o # k /\ t[j] = s[o] /\ t[j] # c /\ t[j] \in Cells
    BY <1>3, <1>7
  <2>2. a[t[j]].location # 0 /\ a[t[j]].next = IF o = m THEN NULL ELSE s[o + 1]
    BY <1>1, <1>2, <2>1
  <2>3. CASE o + 1 = k
    <3>1. o # m /\ a[t[j]].next = c
      BY <1>1, <2>1, <2>2, <2>3 DEF c
    <3>2. b[t[j]].next = IF k = m THEN NULL ELSE s[k + 1]
      BY <1>8, <1>9, <2>1, <2>2, <3>1
    <3>3. \/ k < m /\ j # m - 1 /\ Old(j + 1) = k + 1
          \/ k = m /\ j = m - 1
      BY <1>6, <2>3
    <3>4. j # m - 1 => t[j + 1] = s[Old(j + 1)]
      BY <1>6, <1>7
    <3>5. k < m => k # m
      BY <1>1
    <3>. QED
      BY <3>2, <3>3, <3>4, <3>5
  <2>4. CASE o + 1 # k
    <3>1. a[t[j]].next # c
      <4>1. CASE o = m
        BY <1>2, <2>2, <4>1
      <4>2. CASE o # m
        <5>1. o + 1 \in 1..m
          BY <1>1, <2>1, <4>2
        <5>. QED
          BY <1>2, <2>2, <2>4, <4>2, <5>1
      <4>. QED
        BY <4>1, <4>2
    <3>2. b[t[j]].next = IF o = m THEN NULL ELSE s[o + 1]
      BY <1>8, <2>1, <2>2, <3>1
    <3>3. o = m <=> j = m - 1
      BY <1>6, <2>4
    <3>4. j # m - 1 => t[j + 1] = s[o + 1]
      BY <1>6, <1>7, <2>4
    <3>. QED
      BY <3>2, <3>3, <3>4
  <2>. QED
    BY <2>3, <2>4
<1>12. ASSUME NEW n \in Cells
       PROVE  b[n].location # 0 <=> \E j \in 1..m - 1 : t[j] = n
  <2>1. CASE n = c
    BY <1>7, <1>8, <2>1
  <2>2. CASE n # c
    <3>1. b[n].location # 0 <=> \E j \in 1..m : s[j] = n
      BY <1>1, <1>8, <2>2
    <3>2. ASSUME NEW j \in 1..m, s[j] = n PROVE \E i1 \in 1..m - 1 : t[i1] = n
      <4>1. j # k
        BY <2>2, <3>2 DEF c
      <4>. QED
        BY <1>5, <1>7, <3>2, <4>1
    <3>3. ASSUME NEW j \in 1..m - 1, t[j] = n PROVE \E i1 \in 1..m : s[i1] = n
      BY <1>3, <1>7, <3>3
    <3>. QED
      BY <3>1, <3>2, <3>3
  <2>. QED
    BY <2>1, <2>2
<1> DEFINE g == IF h = c THEN a[c].next ELSE h
<1>13. g = IF m - 1 = 0 THEN NULL ELSE t[1]
  <2>1. h = s[1] /\ 1 \in 1..m
    BY <1>1, <1>2
  <2>2. h = c <=> 1 = k
    BY <1>2, <2>1
  <2>3. m - 1 # 0 => 1 \in 1..m - 1
    BY <1>1, <1>2
  <2>4. CASE k = 1
    <3>1. g = IF 1 = m THEN NULL ELSE s[1 + 1]
      BY <1>9, <2>2, <2>4
    <3>2. m - 1 = 0 <=> 1 = m
      BY <1>1
    <3>3. m - 1 # 0 => t[1] = s[1 + 1]
      <4>1. Old(1) = 1 + 1
        BY <2>4 DEF Old
      <4>. QED
        BY <1>7, <2>3, <4>1
    <3>. QED
      BY <3>1, <3>2, <3>3
  <2>5. CASE k # 1
    <3>1. g = s[1] /\ k > 1 /\ m - 1 # 0
      BY <1>1, <2>1, <2>2, <2>5
    <3>2. Old(1) = 1
      BY <3>1 DEF Old
    <3>. QED
      BY <1>7, <2>3, <3>1, <3>2
  <2>. QED
    BY <2>4, <2>5
<1>14. m - 1 \in Nat
  BY <1>1, <1>2
<1> HIDE DEF g
<1>15. Chain(b, g, m - 1, t)
  BY <1>7, <1>10, <1>11, <1>12, <1>13, <1>14 DEF Chain
<1>. QED
  BY <1>15 DEF g, c

----------------------------------------------------------------------------
(* The inductive invariant *)

Cell == [location : 0..SIZE - 1, on_char : Chars, off_char : Chars,
         on_length : 0..HALF - 1, off_length : 0..HALF - 1, countdown : 0..SHORT - 1,
         status : {0, 1}, next : Cells \union {NULL}]

Types ==
  /\ frames \in [{0, 1} -> Frames]
  /\ row \in Nat /\ col \in Nat /\ i \in 0..WAIT /\ loop \in 0..4
  /\ blink_array \in [Cells -> Cell]
  /\ mp1_list_head \in Cells \union {NULL} /\ ebx \in Cells \union {NULL}
  /\ screen \in [0..SIZE - 1 -> Chars]
  /\ synced \in {-1, 0}

FileState == [open : BOOLEAN, pos : Int, c : Chars \union {NL, "0"}, eof : BOOLEAN]

\* If no read fails, a line that goes on has been read up to the column, and
\* every row before it took its newline
Reading(s) ==
  /\ ~s.open => s.eof
  /\ s.eof => s.c = NL
  /\ Complete /\ s.c # NL => row + col <= s.pos
  /\ Complete /\ s.c = NL /\ ~s.eof => row + 1 <= s.pos

Files ==
  /\ file \in [{0, 1} -> FileState]
  /\ \A f \in {0, 1} : file[f].pos <= Len(frames[f].text) /\ file[f].pos >= -1
  /\ Complete => \A f \in {0, 1} : file[f].pos >= 0
  /\ pc = "open" => \A f \in {0, 1} : ~file[f].eof /\ file[f].c # NL
  /\ pc \in {"frames", "endrow"} => \A f \in {0, 1} : Reading(file[f])
  /\ pc = "endrow" => \A f \in {0, 1} : file[f].c = NL

Control ==
  /\ pc \in {"open", "frames", "endrow", "wait", "tasklet", "done"}
  /\ pc = "open" => row = 0 /\ col = 0
  /\ pc \in {"open", "frames", "endrow"} => loop = 0 /\ i = 0
  /\ pc \in {"wait", "tasklet"} => loop <= 3
  /\ pc = "tasklet" => i < WAIT
  /\ loop <= 1 => synced = -1

\* What the j-th cell will be when the tasklet, which is at the e-th, has
\* come to the end of the list
Due(a, s, e, j) == IF j < e THEN a[s[j]] ELSE Blink(a[s[j]])

Same(x, y) == /\ x.countdown = y.countdown /\ x.status = y.status
              /\ x.on_length = y.on_length /\ x.off_length = y.off_length

InStep(a, m, s, e) ==
  \E p, q \in 1..m : /\ First(a, m, s, OFFSET, p) /\ First(a, m, s, LOCATION, q)
                     /\ Same(Due(a, s, e, p), Due(a, s, e, q))

\* The list, where on it the tasklet is (past its end when it does not run),
\* and the two cells that have been synchronised
Linked ==
  \E m, s, e :
    /\ Chain(blink_array, mp1_list_head, m, s)
    /\ e \in 1..m + 1
    /\ IF pc = "tasklet" THEN ebx = IF e = m + 1 THEN NULL ELSE s[e] ELSE e = m + 1
    /\ loop = 2 /\ synced = 0 => InStep(blink_array, m, s, e)

\* Every location shows a cell that is there, or is blank
Holds(a, n, l) == a[n].location = l /\ l # 0
Shows(a, scr) ==
  \A l \in 0..SIZE - 1 :
    \/ scr[l] = Blank /\ \A n \in Cells : ~Holds(a, n, l)
    \/ \E n \in Cells : Holds(a, n, l) /\ scr[l] = Shown(a[n])

IInv ==
  /\ Types
  /\ Files
  /\ Control
  /\ Linked
  /\ loop <= 1 => Shows(blink_array, screen)

----------------------------------------------------------------------------
(* Initial states *)

\* The characters that main and add_frames write themselves
LEMMA CharsFacts == Blank \in Chars /\ "0" \in Chars /\ "I" \in Chars /\ "M" \in Chars
BY DEF Chars

\* The cells that blink_array starts with and that a removal leaves
LEMMA FreeCell == free \in Cell /\ free.location = 0
<1>1. 0 \in 0..SIZE - 1 /\ 0 \in 0..HALF - 1 /\ 0 \in 0..SHORT - 1 /\ 0 \in {0, 1}
  BY Sizes
<1>2. Blank \in Chars /\ NULL \in Cells \union {NULL}
  BY CharsFacts
<1>3. free.location = 0
  BY DEF free
<1>. QED
  BY <1>1, <1>2, <1>3, Zenon DEF free, Cell

\* The array is all free, the list empty, the screen blank
LEMMA InitIInv == Init => IInv
<1> SUFFICES ASSUME Init PROVE IInv
  OBVIOUS
<1> USE DEF Init
<1>1. Types
  <2>1. blink_array \in [Cells -> Cell]
    BY FreeCell
  <2>2. screen \in [0..SIZE - 1 -> Chars]
    BY CharsFacts
  <2>3. 0 \in 0..WAIT /\ 0 \in 0..4
    BY Sizes
  <2>4. frames \in [{0, 1} -> Frames] /\ row \in Nat /\ col \in Nat /\ i \in 0..WAIT /\ loop \in 0..4
    BY <2>3
  <2>5. mp1_list_head \in Cells \union {NULL} /\ ebx \in Cells \union {NULL} /\ synced \in {-1, 0}
    OBVIOUS
  <2>. QED
    BY <2>1, <2>2, <2>4, <2>5 DEF Types
<1>2. Files
  <2>1. [open |-> FALSE, pos |-> 0, c |-> "0", eof |-> FALSE] \in FileState
    BY DEF FileState
  <2>2. file \in [{0, 1} -> FileState]
    BY <2>1
  <2>3. \A f \in {0, 1} : file[f].pos = 0 /\ ~file[f].eof /\ file[f].c = "0"
    OBVIOUS
  <2>4. \A f \in {0, 1} : Len(frames[f].text) \in Nat
    BY FishAssumption
  <2>5. \A f \in {0, 1} : /\ file[f].pos <= Len(frames[f].text)
                          /\ file[f].pos >= -1 /\ file[f].pos >= 0
    <3> SUFFICES ASSUME NEW f \in {0, 1}
                 PROVE  /\ file[f].pos <= Len(frames[f].text)
                        /\ file[f].pos >= -1 /\ file[f].pos >= 0
      OBVIOUS
    <3>1. Len(frames[f].text) \in Nat /\ file[f].pos = 0
      BY <2>3, <2>4
    <3>. QED
      BY <3>1
  <2>6. "0" # NL
    BY DEF NL
  <2>. QED
    BY <2>2, <2>3, <2>5, <2>6, Zenon DEF Files
<1>3. Control
  BY DEF Control
<1>4. Linked
  <2> DEFINE s == [j \in 1..0 |-> 1]
  <2>1. s \in [1..0 -> Cells]
    OBVIOUS
  <2>2. \A n \in Cells : blink_array[n].location = 0
    BY FreeCell
  <2>3. Chain(blink_array, mp1_list_head, 0, s)
    <3> HIDE DEF s
    <3>. QED
      BY <2>1, <2>2 DEF Chain
  <2>4. 0 + 1 \in 1..0 + 1
    OBVIOUS
  <2>5. pc # "tasklet" /\ loop # 2
    OBVIOUS
  <2> HIDE DEF s, Init
  <2>. QED
    BY <2>3, <2>4, <2>5 DEF Linked
<1>5. Shows(blink_array, screen)
  <2>1. \A n \in Cells : blink_array[n].location = 0
    BY FreeCell
  <2>2. \A l \in 0..SIZE - 1 : screen[l] = Blank
    OBVIOUS
  <2> HIDE DEF Init
  <2>. QED
    BY <2>1, <2>2 DEF Shows, Holds
<1>. QED
  BY <1>1, <1>2, <1>3, <1>4, <1>5 DEF IInv

----------------------------------------------------------------------------
(* Steps that leave the list alone *)

\* Facts about the text of a frame
LEMMA TextFacts ==
  ASSUME NEW f \in Frames
  PROVE  /\ Len(f.text) \in Nat
         /\ \A n \in 1..Len(f.text) : f.text[n] \in Chars
         /\ Len(f.text) + COLS * Len(f.text) + OFFSET < SHORT
         /\ f.missing \subseteq 0..Len(f.text) - 1
<1>1. /\ Len(f.text) \in Nat /\ Len(f.text) + COLS * Len(f.text) + OFFSET < SHORT
      /\ f.missing \subseteq 0..Len(f.text) - 1
  BY FishAssumption
<1>2. ASSUME NEW n \in 1..Len(f.text) PROVE f.text[n] \in Chars
  <2> DEFINE T(g) == {g.text[k] : k \in 1..Len(g.text)}
  <2>1. f.text[n] \in T(f)
    BY Zenon
  <2> HIDE DEF T
  <2>2. f.text[n] \in UNION {T(g) : g \in Frames}
    BY <2>1
  <2>. QED
    BY <2>2 DEF Chars, T
<1>. QED
  BY <1>1, <1>2

\* Where the list, the counters and the control of main stay as they are
LEMMA LinkedIdle ==
  ASSUME Linked, pc # "tasklet", pc' # "tasklet", UNCHANGED <<blink_array, mp1_list_head>>,
         UNCHANGED <<loop, synced>> \/ loop' # 2
  PROVE  Linked'
<1>1. PICK m, s, e :
        /\ Chain(blink_array, mp1_list_head, m, s)
        /\ e \in 1..m + 1
        /\ IF pc = "tasklet" THEN ebx = IF e = m + 1 THEN NULL ELSE s[e] ELSE e = m + 1
        /\ loop = 2 /\ synced = 0 => InStep(blink_array, m, s, e)
  BY DEF Linked
<1>2. Chain(blink_array', mp1_list_head', m, s)
  BY <1>1
<1>3. loop' = 2 /\ synced' = 0 => InStep(blink_array', m, s, e)
  BY <1>1
<1>. QED
  BY <1>1, <1>2, <1>3 DEF Linked

\* Both files are at their start, where row and col are 0
LEMMA OpenStep == IInv /\ OpenFrames => IInv'
<1> SUFFICES ASSUME IInv, OpenFrames PROVE IInv'
  OBVIOUS
<1> USE DEF OpenFrames, list, reading
<1>1. Types'
  BY DEF IInv, Types
<1>2. Files'
  <2>1. /\ file \in [{0, 1} -> FileState] /\ frames' = frames /\ row' = 0 /\ col' = 0 /\ pc = "open"
        /\ \A f \in {0, 1} : file[f].pos <= Len(frames[f].text) /\ file[f].pos >= -1
        /\ Complete => \A f \in {0, 1} : file[f].pos >= 0
        /\ \A f \in {0, 1} : ~file[f].eof /\ file[f].c # NL
    BY DEF IInv, Files, Control
  <2>2. Complete' = Complete
    BY <2>1 DEF Complete
  <2>3. CASE pc' = "frames" /\ file' = [f \in {0, 1} |-> [file[f] EXCEPT !.open = TRUE]]
    <3>1. ASSUME NEW f \in {0, 1}
          PROVE  /\ file'[f] \in FileState /\ file'[f].pos <= Len(frames'[f].text)
                 /\ file'[f].open = TRUE /\ ~file'[f].eof /\ file'[f].c # NL
                 /\ file'[f].pos >= -1
                 /\ Complete' => file'[f].pos >= 0
      <4>1. file'[f] = [file[f] EXCEPT !.open = TRUE] /\ file[f] \in FileState
        BY <2>1, <2>3
      <4>2. /\ file'[f].open = TRUE /\ file'[f].pos = file[f].pos
            /\ file'[f].c = file[f].c /\ file'[f].eof = file[f].eof /\ file'[f] \in FileState
        BY <4>1 DEF FileState
      <4>. QED
        BY <2>1, <2>2, <4>2
    <3>2. Complete' => \A f \in {0, 1} : row' + col' <= file'[f].pos
      BY <2>1, <3>1
    <3>3. \A f \in {0, 1} : Reading(file[f])'
      BY <3>1, <3>2 DEF Reading
    <3>4. file' \in [{0, 1} -> FileState]
      BY <2>3, <3>1
    <3>. QED
      BY <2>3, <3>1, <3>3, <3>4 DEF Files
  <2>4. CASE pc' = "done" /\ UNCHANGED file
    BY <2>1, <2>4, <2>2 DEF Files
  <2>. QED
    BY <2>3, <2>4
<1>3. Control'
  BY DEF IInv, Control
<1>4. Linked'
  <2>1. pc' # "tasklet" /\ pc # "tasklet" /\ Linked
    BY DEF IInv
  <2>. QED
    BY <2>1, LinkedIdle
<1>5. loop' <= 1 => Shows(blink_array, screen)'
  BY DEF IInv
<1>. QED
  BY <1>1, <1>2, <1>3, <1>4, <1>5 DEF IInv

\* Both lines have ended; the rows that go on took a newline
LEMMA EndRowStep == IInv /\ EndRow => IInv'
<1> SUFFICES ASSUME IInv, EndRow PROVE IInv'
  OBVIOUS
<1> USE DEF EndRow, list, reading
<1>1. Types'
  BY DEF IInv, Types
<1>2. Files'
  <2>1. /\ file \in [{0, 1} -> FileState] /\ frames' = frames /\ row \in Nat
        /\ row' = row + 1 /\ col' = 0
        /\ \A f \in {0, 1} : file[f].pos <= Len(frames[f].text) /\ file[f].pos >= -1
        /\ Complete => \A f \in {0, 1} : file[f].pos >= 0
        /\ \A f \in {0, 1} : Reading(file[f]) /\ file[f].c = NL
        /\ file' = [f \in {0, 1} |-> NextLine(file[f])]
        /\ pc' \in {"wait", "frames"}
    BY DEF IInv, Types, Files
  <2>2. Complete' = Complete
    BY <2>1 DEF Complete
  <2>3. "0" # NL /\ "0" \in Chars \union {NL, "0"} /\ NL \in Chars \union {NL, "0"}
    BY DEF NL
  <2>4. ASSUME NEW f \in {0, 1}
        PROVE  /\ file'[f] \in FileState /\ file'[f].pos <= Len(frames'[f].text)
               /\ file'[f].pos = file[f].pos
               /\ Reading(file[f])'
    <3>1. /\ file[f] \in FileState /\ file'[f] = NextLine(file[f])
          /\ Reading(file[f]) /\ file[f].c = NL /\ file[f].pos \in Int
      BY <2>1 DEF FileState
    <3>2. CASE file[f].eof
      <4>1. file'[f] = [file[f] EXCEPT !.c = NL, !.open = FALSE]
        BY <3>1, <3>2 DEF NextLine
      <4>2. /\ file'[f] \in FileState /\ file'[f].pos = file[f].pos /\ file'[f].eof = file[f].eof
            /\ file'[f].c = NL
        BY <2>3, <3>1, <4>1 DEF FileState
      <4>. QED
        BY <2>1, <3>2, <4>2 DEF Reading
    <3>3. CASE ~file[f].eof
      <4>1. file'[f] = [file[f] EXCEPT !.c = "0"]
        BY <3>1, <3>3 DEF NextLine
      <4>2. /\ file'[f] \in FileState /\ file'[f].pos = file[f].pos /\ file'[f].eof = file[f].eof
            /\ file'[f].c = "0" /\ file'[f].open = file[f].open
        BY <2>3, <3>1, <4>1 DEF FileState
      <4>3. Complete' => row' + col' <= file'[f].pos
        <5>1. Complete => row + 1 <= file[f].pos
          BY <3>1, <3>3 DEF Reading
        <5>2. row' + col' = row + 1
          BY <2>1
        <5>. QED
          BY <2>2, <4>2, <5>1, <5>2
      <4>4. file[f].open
        BY <3>1, <3>3 DEF Reading
      <4>. QED
        BY <2>1, <2>3, <3>3, <4>2, <4>3, <4>4 DEF Reading
    <3>. QED
      BY <3>2, <3>3
  <2>5. file' \in [{0, 1} -> FileState]
    BY <2>1, <2>4
  <2>. QED
    BY <2>1, <2>4, <2>5, <2>2 DEF Files
<1>3. Control'
  <2>1. pc' \in {"wait", "frames"} /\ loop' = 0 /\ i' = 0 /\ synced' = -1
    BY DEF IInv, Control
  <2>. QED
    BY <2>1 DEF Control
<1>4. Linked'
  <2>1. pc' # "tasklet" /\ pc # "tasklet" /\ Linked
    BY DEF IInv
  <2>. QED
    BY <2>1, LinkedIdle
<1>5. loop' <= 1 => Shows(blink_array, screen)'
  BY DEF IInv
<1>. QED
  BY <1>1, <1>2, <1>3, <1>4, <1>5 DEF IInv

\* At NULL the tasklet is past the last cell
LEMMA EndStep == IInv /\ tasklet_end => IInv'
<1> SUFFICES ASSUME IInv, tasklet_end PROVE IInv'
  OBVIOUS
<1> USE DEF tasklet_end, list, reading
<1>1. Types'
  <2>1. i \in 0..WAIT /\ i < WAIT /\ WAIT \in Nat /\ i' = i + 1
    BY Sizes DEF IInv, Types, Control
  <2>2. i' \in 0..WAIT
    BY <2>1
  <2>. QED
    BY <2>2 DEF IInv, Types
<1>2. Files'
  BY DEF IInv, Files, Complete
<1>3. Control'
  BY DEF IInv, Control
<1>4. Linked'
  <2>1. PICK m, s, e :
          /\ Chain(blink_array, mp1_list_head, m, s)
          /\ e \in 1..m + 1
          /\ ebx = IF e = m + 1 THEN NULL ELSE s[e]
          /\ loop = 2 /\ synced = 0 => InStep(blink_array, m, s, e)
    BY DEF IInv, Linked
  <2>2. e = m + 1
    <3>1. \A c \in Cells : c # NULL
      BY DEF Cells, NULL
    <3>2. m \in Nat /\ s \in [1..m -> Cells]
      BY <2>1 DEF Chain
    <3>3. e # m + 1 => e \in 1..m
      BY <2>1, <3>2
    <3>. QED
      BY <2>1, <3>1, <3>2, <3>3
  <2>3. Chain(blink_array', mp1_list_head', m, s) /\ pc' # "tasklet"
    BY <2>1
  <2>4. loop' = 2 /\ synced' = 0 => InStep(blink_array', m, s, e)
    BY <2>1
  <2>. QED
    BY <2>1, <2>2, <2>3, <2>4 DEF Linked
<1>5. loop' <= 1 => Shows(blink_array, screen)'
  BY DEF IInv
<1>. QED
  BY <1>1, <1>2, <1>3, <1>4, <1>5 DEF IInv

----------------------------------------------------------------------------
(* Ticks *)

\* A tick keeps all of a cell but the countdown and the status
LEMMA BlinkKeeps ==
  ASSUME NEW A \in Cell
  PROVE  /\ Blink(A) \in Cell
         /\ Blink(A).location = A.location /\ Blink(A).next = A.next
         /\ Blink(A).on_char = A.on_char /\ Blink(A).off_char = A.off_char
         /\ Blink(A).on_length = A.on_length /\ Blink(A).off_length = A.off_length
<1> DEFINE d == (A.countdown - 1) % SHORT
<1>1. /\ A.countdown \in 0..SHORT - 1 /\ A.on_length \in 0..HALF - 1 /\ A.off_length \in 0..HALF - 1
      /\ SHORT \in Nat /\ HALF \in Nat /\ SHORT = 2 * HALF /\ HALF >= 1
  <2>1. LENGTH \in 1..HALF - 1 /\ SHORT \in Nat /\ HALF \in Nat /\ SHORT = 2 * HALF
    BY Sizes
  <2>. QED
    BY <2>1 DEF Cell
<1>2. d \in 0..SHORT - 1
  BY <1>1
<1>3. A.on_length \in 0..SHORT - 1 /\ A.off_length \in 0..SHORT - 1
  BY <1>1
<1> HIDE DEF d
<1>4. Blink(A) = IF Signed(d) > 0 THEN [A EXCEPT !.countdown = d]
                 ELSE IF A.status = 1
                      THEN [A EXCEPT !.countdown = A.off_length, !.status = 0]
                      ELSE [A EXCEPT !.countdown = A.on_length, !.status = 1]
  BY DEF Blink, d
<1>5. CASE Blink(A) = [A EXCEPT !.countdown = d]
  BY <1>2, <1>5 DEF Cell
<1>6. CASE Blink(A) = [A EXCEPT !.countdown = A.off_length, !.status = 0]
  BY <1>3, <1>6 DEF Cell
<1>7. CASE Blink(A) = [A EXCEPT !.countdown = A.on_length, !.status = 1]
  BY <1>3, <1>7 DEF Cell
<1>. QED
  BY <1>4, <1>5, <1>6, <1>7

\* Cells that agree before a tick agree after it
LEMMA BlinkSame ==
  ASSUME NEW A \in Cell, NEW B \in Cell, Same(A, B)
  PROVE  Same(Blink(A), Blink(B))
<1> DEFINE d == (A.countdown - 1) % SHORT
<1>1. A.countdown = B.countdown /\ A.status = B.status
      /\ A.on_length = B.on_length /\ A.off_length = B.off_length
  BY DEF Same
<1>2. d = (B.countdown - 1) % SHORT
  BY <1>1
<1> HIDE DEF d
<1>3. Blink(A) = IF Signed(d) > 0 THEN [A EXCEPT !.countdown = d]
                 ELSE IF A.status = 1
                      THEN [A EXCEPT !.countdown = A.off_length, !.status = 0]
                      ELSE [A EXCEPT !.countdown = A.on_length, !.status = 1]
  BY DEF Blink, d
<1>4. Blink(B) = IF Signed(d) > 0 THEN [B EXCEPT !.countdown = d]
                 ELSE IF A.status = 1
                      THEN [B EXCEPT !.countdown = A.off_length, !.status = 0]
                      ELSE [B EXCEPT !.countdown = A.on_length, !.status = 1]
  BY <1>1, <1>2 DEF Blink
<1>5. CASE Signed(d) > 0
  BY <1>1, <1>3, <1>4, <1>5 DEF Same, Cell
<1>6. CASE ~(Signed(d) > 0) /\ A.status = 1
  BY <1>1, <1>3, <1>4, <1>6 DEF Same, Cell
<1>7. CASE ~(Signed(d) > 0) /\ A.status # 1
  BY <1>1, <1>3, <1>4, <1>7 DEF Same, Cell
<1>. QED
  BY <1>5, <1>6, <1>7

\* The tasklet starts at the head, with every cell still to tick
LEMMA WaitStep == IInv /\ Wait => IInv'
<1> SUFFICES ASSUME IInv, Wait PROVE IInv'
  OBVIOUS
<1> USE DEF Wait, list, reading
<1>1. Types'
  BY DEF IInv, Types
<1>2. Files'
  BY DEF IInv, Files, Complete
<1>3. Control'
  BY DEF IInv, Control
<1>4. Linked'
  <2>1. PICK m, s, e :
          /\ Chain(blink_array, mp1_list_head, m, s)
          /\ e = m + 1
          /\ loop = 2 /\ synced = 0 => InStep(blink_array, m, s, e)
    BY DEF IInv, Linked
  <2>2. m \in Nat /\ s \in [1..m -> Cells] /\ mp1_list_head = IF m = 0 THEN NULL ELSE s[1]
    BY <2>1 DEF Chain
  <2>3. 1 \in 1..m + 1 /\ (1 = m + 1 <=> m = 0)
    BY <2>2
  <2>4. ebx' = IF 1 = m + 1 THEN NULL ELSE s[1]
    BY <2>2, <2>3
  <2>5. ASSUME InStep(blink_array, m, s, e) PROVE InStep(blink_array, m, s, 1)
    <3>1. PICK p, q \in 1..m :
            /\ First(blink_array, m, s, OFFSET, p) /\ First(blink_array, m, s, LOCATION, q)
            /\ Same(Due(blink_array, s, e, p), Due(blink_array, s, e, q))
      BY <2>5 DEF InStep
    <3>2. p < e /\ q < e /\ ~(p < 1) /\ ~(q < 1)
      BY <2>1, <2>2
    <3>3. Same(blink_array[s[p]], blink_array[s[q]])
      BY <3>1, <3>2 DEF Due
    <3>4. blink_array[s[p]] \in Cell /\ blink_array[s[q]] \in Cell
      BY <2>2 DEF IInv, Types
    <3>5. Same(Blink(blink_array[s[p]]), Blink(blink_array[s[q]]))
      BY <3>3, <3>4, BlinkSame
    <3>6. Same(Due(blink_array, s, 1, p), Due(blink_array, s, 1, q))
      BY <3>2, <3>5 DEF Due
    <3>. QED
      BY <3>1, <3>6 DEF InStep
  <2>6. Chain(blink_array', mp1_list_head', m, s)
    BY <2>1
  <2>7. loop' = 2 /\ synced' = 0 => InStep(blink_array', m, s, 1)
    BY <2>1, <2>5
  <2>. QED
    BY <2>3, <2>4, <2>6, <2>7 DEF Linked
<1>5. loop' <= 1 => Shows(blink_array, screen)'
  BY DEF IInv
<1>. QED
  BY <1>1, <1>2, <1>3, <1>4, <1>5 DEF IInv

\* The tasklet at one cell
LEMMA TaskletStep == IInv /\ mp1_rtc_tasklet => IInv'
<1> SUFFICES ASSUME IInv, mp1_rtc_tasklet PROVE IInv'
  OBVIOUS
<1> DEFINE old == blink_array[ebx]
           new == Blink(old)
<1>1. /\ blink_array \in [Cells -> Cell] /\ ebx \in Cells /\ old \in Cell /\ new \in Cell
      /\ screen \in [0..SIZE - 1 -> Chars]
      /\ new.location = old.location /\ new.next = old.next
      /\ new.on_char = old.on_char /\ new.off_char = old.off_char
  <2>1. blink_array \in [Cells -> Cell] /\ ebx \in Cells /\ screen \in [0..SIZE - 1 -> Chars]
    BY DEF IInv, Types, mp1_rtc_tasklet
  <2>2. old \in Cell
    BY <2>1
  <2>. QED
    BY <2>1, <2>2, BlinkKeeps
<1>2. /\ pc = "tasklet" /\ ebx # NULL
      /\ blink_array' = [blink_array EXCEPT ![ebx] = new]
      /\ screen' = IF new.status = old.status THEN screen
                   ELSE [screen EXCEPT ![new.location] = Shown(new)]
      /\ ebx' = new.next
      /\ UNCHANGED <<frames, file, row, col, mp1_list_head, pc, loop, i, synced>>
  BY DEF mp1_rtc_tasklet, mp1_poke, reading
<1>3. /\ new.location \in 0..SIZE - 1 /\ new.next \in Cells \union {NULL}
      /\ new.on_char \in Chars /\ new.off_char \in Chars
  BY <1>1 DEF Cell
<1> HIDE DEF old, new
<1>4. /\ blink_array' \in [Cells -> Cell] /\ blink_array'[ebx] = new
      /\ \A n \in Cells : n # ebx => blink_array'[n] = blink_array[n]
  BY <1>1, <1>2
<1>5. SameLinks(blink_array, blink_array')
  BY <1>1, <1>4 DEF SameLinks, old
<1>6. Shown(new) \in Chars
  BY <1>3 DEF Shown
<1>7. screen' \in [0..SIZE - 1 -> Chars]
  BY <1>1, <1>2, <1>3, <1>6
<1>8. Types'
  BY <1>2, <1>3, <1>4, <1>7 DEF IInv, Types
<1>9. Files'
  BY <1>2 DEF IInv, Files, Complete
<1>10. Control'
  BY <1>2 DEF IInv, Control
<1>11. Linked'
  <2>1. PICK m, s, e :
          /\ Chain(blink_array, mp1_list_head, m, s)
          /\ e \in 1..m + 1
          /\ ebx = IF e = m + 1 THEN NULL ELSE s[e]
          /\ loop = 2 /\ synced = 0 => InStep(blink_array, m, s, e)
    BY <1>2 DEF IInv, Linked
  <2>2. /\ m \in Nat /\ s \in [1..m -> Cells] /\ \A j, k \in 1..m : s[j] = s[k] => j = k
        /\ \A j \in 1..m : blink_array[s[j]].next = IF j = m THEN NULL ELSE s[j + 1]
    BY <2>1 DEF Chain
  <2>3. e \in 1..m /\ e + 1 \in 1..m + 1 /\ (e = m <=> e + 1 = m + 1) /\ ebx = s[e]
    BY <1>2, <2>1, <2>2
  <2>4. ebx' = IF e + 1 = m + 1 THEN NULL ELSE s[e + 1]
    BY <1>1, <1>2, <2>2, <2>3 DEF old
  <2>5. Chain(blink_array', mp1_list_head', m, s)
    BY <1>2, <1>5, <2>1, SameChain
  <2>6. ASSUME NEW j \in 1..m PROVE Due(blink_array', s, e + 1, j) = Due(blink_array, s, e, j)
    <3>1. j < e + 1 <=> j < e \/ j = e
      BY <2>2, <2>3
    <3>2. CASE j = e
      <4>1. Due(blink_array', s, e + 1, j) = new
        BY <1>4, <2>3, <3>1, <3>2 DEF Due
      <4>2. ~(j < e)
        BY <2>2, <2>3, <3>2
      <4>. QED
        BY <2>3, <3>2, <4>1, <4>2 DEF Due, new, old
    <3>3. CASE j # e
      <4>1. s[j] \in Cells /\ s[j] # ebx
        BY <2>2, <2>3, <3>3
      <4>2. blink_array'[s[j]] = blink_array[s[j]]
        BY <1>4, <4>1
      <4>. QED
        BY <3>1, <3>3, <4>2 DEF Due
    <3>. QED
      BY <3>2, <3>3
  <2>7. ASSUME InStep(blink_array, m, s, e) PROVE InStep(blink_array', m, s, e + 1)
    <3>1. PICK p, q \in 1..m :
            /\ First(blink_array, m, s, OFFSET, p) /\ First(blink_array, m, s, LOCATION, q)
            /\ Same(Due(blink_array, s, e, p), Due(blink_array, s, e, q))
      BY <2>7 DEF InStep
    <3>2. First(blink_array', m, s, OFFSET, p) /\ First(blink_array', m, s, LOCATION, q)
      BY <1>5, <2>1, <3>1, SameChain
    <3>3. Same(Due(blink_array', s, e + 1, p), Due(blink_array', s, e + 1, q))
      BY <2>6, <3>1
    <3>. QED
      BY <3>2, <3>3 DEF InStep
  <2>8. loop' = 2 /\ synced' = 0 => InStep(blink_array', m, s, e + 1)
    BY <1>2, <2>1, <2>7
  <2>9. pc' = "tasklet"
    BY <1>2
  <2>. QED
    BY <2>3, <2>4, <2>5, <2>8, <2>9 DEF Linked
<1>12. ASSUME loop' <= 1 PROVE Shows(blink_array, screen)'
  <2>1. Shows(blink_array, screen)
    BY <1>2, <1>12 DEF IInv
  <2>2. \A n \in Cells : blink_array'[n].location = blink_array[n].location
    BY <1>5 DEF SameLinks
  <2>3. \A n \in Cells : n # ebx => Shown(blink_array'[n]) = Shown(blink_array[n])
    BY <1>4
  <2>4. CASE new.status = old.status
    <3>1. Shown(blink_array'[ebx]) = Shown(blink_array[ebx])
      BY <1>1, <1>4, <2>4 DEF Shown, old
    <3>2. screen' = screen
      BY <1>2, <2>4
    <3>. QED
      BY <2>1, <2>2, <2>3, <3>1, <3>2 DEF Shows, Holds
  <2>5. CASE new.status # old.status
    <3> DEFINE k == new.location
    <3>1. k \in 0..SIZE - 1 /\ screen' = [screen EXCEPT ![k] = Shown(new)]
      BY <1>2, <1>3, <2>5
    <3>2. k # 0
      <4>1. PICK m, s, e :
              /\ Chain(blink_array, mp1_list_head, m, s)
              /\ e \in 1..m + 1
              /\ ebx = IF e = m + 1 THEN NULL ELSE s[e]
        BY <1>2 DEF IInv, Linked
      <4>2. m \in Nat /\ e # m + 1 /\ ebx = s[e]
        BY <1>2, <4>1 DEF Chain
      <4>3. e \in 1..m
        BY <4>1, <4>2
      <4>4. blink_array[ebx].location # 0
        BY <1>1, <4>1, <4>2, <4>3 DEF Chain
      <4>. QED
        BY <1>1, <4>4 DEF old
    <3>3. k = blink_array'[ebx].location /\ Shown(new) = Shown(blink_array'[ebx])
      BY <1>4
    <3> HIDE DEF k
    <3>4. ASSUME NEW l \in 0..SIZE - 1, l # k
          PROVE  \/ screen'[l] = Blank /\ \A n \in Cells : ~Holds(blink_array', n, l)
                 \/ \E n \in Cells : Holds(blink_array', n, l) /\ screen'[l] = Shown(blink_array'[n])
      <4>1. screen'[l] = screen[l]
        BY <1>1, <3>1, <3>4
      <4>2. \A n \in Cells : Holds(blink_array', n, l) <=> Holds(blink_array, n, l)
        BY <2>2 DEF Holds
      <4>3. ~Holds(blink_array', ebx, l)
        BY <3>3, <3>4 DEF Holds
      <4>. QED
        BY <1>1, <2>1, <2>3, <4>1, <4>2, <4>3 DEF Shows
    <3>5. Holds(blink_array', ebx, k) /\ screen'[k] = Shown(blink_array'[ebx])
      BY <1>1, <3>1, <3>2, <3>3 DEF Holds
    <3>. QED
      BY <1>1, <3>4, <3>5 DEF Shows
  <2>. QED
    BY <2>4, <2>5
<1>. QED
  BY <1>8, <1>9, <1>10, <1>11, <1>12 DEF IInv

----------------------------------------------------------------------------
(* Adding a character *)

\* mp1_malloc gives out a cell that is free
LEMMA MallocFree ==
  mp1_malloc # NULL => mp1_malloc \in Cells /\ blink_array[mp1_malloc].location = 0
<1> DEFINE unused == {n \in Cells : blink_array[n].location = 0}
<1>1. mp1_malloc = IF unused = {} THEN NULL
                   ELSE CHOOSE n \in unused : \A x \in unused : n <= x
  BY DEF mp1_malloc
<1>2. unused \in SUBSET Nat /\ \A n \in unused : n \in Cells /\ blink_array[n].location = 0
  BY Sizes DEF Cells
<1> HIDE DEF unused
<1>3. unused # {} => mp1_malloc \in unused
  BY <1>1, <1>2, LeastExists
<1>. QED
  BY <1>1, <1>2, <1>3

\* A location other than 0 that fits its field
LEMMA AddEffect ==
  ASSUME NEW location \in Nat, location >= 1, location < SHORT,
         NEW on_char \in Chars, NEW off_char \in Chars,
         NEW on_length \in 0..HALF - 1, NEW off_length \in 0..HALF - 1,
         blink_array \in [Cells -> Cell], mp1_list_head \in Cells \union {NULL},
         screen \in [0..SIZE - 1 -> Chars],
         NEW m, NEW s, Chain(blink_array, mp1_list_head, m, s),
         mp1_ioctl_add(location, on_char, off_char, on_length, off_length)
  PROVE  /\ blink_array' \in [Cells -> Cell] /\ mp1_list_head' \in Cells \union {NULL}
         /\ screen' \in [0..SIZE - 1 -> Chars]
         /\ \E m2, s2 : Chain(blink_array', mp1_list_head', m2, s2)
         /\ Shows(blink_array, screen) => Shows(blink_array', screen')
<1> DEFINE c == mp1_malloc
           new == [location |-> location, on_char |-> on_char, off_char |-> off_char,
                   on_length |-> on_length, off_length |-> off_length,
                   countdown |-> on_length, status |-> 1, next |-> mp1_list_head]
<1>1. location % SHORT = location
  BY Sizes
<1>2. IF ~OnScreen(location) \/ c = NULL THEN UNCHANGED list
      ELSE /\ blink_array' = [blink_array EXCEPT ![c] = new]
           /\ mp1_list_head' = c
           /\ screen' = mp1_poke(screen, location, on_char)
  BY <1>1, Zenon DEF mp1_ioctl_add
<1>3. c # NULL => c \in Cells /\ blink_array[c].location = 0
  BY MallocFree
<1> HIDE DEF c
<1>4. CASE ~OnScreen(location) \/ c = NULL
  <2>1. UNCHANGED <<blink_array, mp1_list_head, screen>>
    BY <1>2, <1>4 DEF list
  <2>2. \E m2, s2 : Chain(blink_array', mp1_list_head', m2, s2)
    BY <2>1
  <2>3. Shows(blink_array, screen) => Shows(blink_array', screen')
    BY <2>1
  <2>. QED
    BY <2>1, <2>2, <2>3
<1>5. CASE OnScreen(location) /\ c # NULL
  <2>1. location \in 0..SIZE - 1
    BY <1>5, Sizes DEF OnScreen
  <2>2. new \in Cell
    <3>1. on_length \in 0..SHORT - 1 /\ 1 \in {0, 1}
      BY Sizes
    <3>. QED
      BY <2>1, <3>1, Zenon DEF Cell
  <2>3. /\ new.location = location /\ new.next = mp1_list_head
        /\ new.status = 1 /\ new.on_char = on_char
    OBVIOUS
  <2> HIDE DEF new
  <2>4. /\ blink_array' = [blink_array EXCEPT ![c] = new] /\ mp1_list_head' = c
        /\ screen' = [screen EXCEPT ![location] = on_char]
        /\ c \in Cells /\ blink_array[c].location = 0
    BY <1>2, <1>3, <1>5 DEF mp1_poke
  <2>5. /\ blink_array' \in [Cells -> Cell] /\ blink_array'[c] = new
        /\ \A n \in Cells : n # c => blink_array'[n] = blink_array[n]
    BY <2>2, <2>4
  <2>6. screen' \in [0..SIZE - 1 -> Chars] /\ screen'[location] = on_char
        /\ \A l \in 0..SIZE - 1 : l # location => screen'[l] = screen[l]
    BY <2>1, <2>4
  <2>7. location # 0
    OBVIOUS
  <2>8. \E m2, s2 : Chain(blink_array', c, m2, s2)
    BY <2>3, <2>4, <2>5, <2>7, AddChain
  <2>9. ASSUME Shows(blink_array, screen) PROVE Shows(blink_array', screen')
    <3>1. Holds(blink_array', c, location) /\ screen'[location] = Shown(blink_array'[c])
      BY <2>3, <2>5, <2>6, <2>7 DEF Holds, Shown
    <3>2. ASSUME NEW l \in 0..SIZE - 1, l # location
          PROVE  \/ screen'[l] = Blank /\ \A n \in Cells : ~Holds(blink_array', n, l)
                 \/ \E n \in Cells : Holds(blink_array', n, l) /\ screen'[l] = Shown(blink_array'[n])
      <4>1. ~Holds(blink_array', c, l) /\ ~Holds(blink_array, c, l)
        BY <2>3, <2>4, <2>5, <3>2 DEF Holds
      <4>2. \A n \in Cells : n # c =>
              /\ Holds(blink_array', n, l) <=> Holds(blink_array, n, l)
              /\ Shown(blink_array'[n]) = Shown(blink_array[n])
        BY <2>5 DEF Holds
      <4>3. screen'[l] = screen[l]
        BY <2>6, <3>2
      <4>4. \/ screen[l] = Blank /\ \A n \in Cells : ~Holds(blink_array, n, l)
            \/ \E n \in Cells : Holds(blink_array, n, l) /\ screen[l] = Shown(blink_array[n])
        BY <2>9 DEF Shows
      <4>. QED
        BY <4>1, <4>2, <4>3, <4>4
    <3>. QED
      BY <2>4, <3>1, <3>2 DEF Shows
  <2>. QED
    BY <2>4, <2>5, <2>6, <2>8, <2>9
<1>. QED
  BY <1>4, <1>5

\* What a read of a character leaves, at the column it fills and at the next
LEMMA ReadCharKeeps ==
  ASSUME IInv, pc = "frames", NEW f \in {0, 1}
  PROVE  /\ ReadChar(f) \in FileState /\ ReadChar(f).pos <= Len(frames[f].text)
         /\ ReadChar(f).pos >= -1
         /\ Complete => ReadChar(f).pos >= 0
         /\ ~ReadChar(f).open => ReadChar(f).eof
         /\ ReadChar(f).eof => ReadChar(f).c = NL
         /\ Complete /\ ReadChar(f).c # NL => row + col + 1 <= ReadChar(f).pos
         /\ Complete /\ ReadChar(f).c = NL /\ ~ReadChar(f).eof => row + 1 <= ReadChar(f).pos
         /\ ReadChar(f).c # NL => ReadChar(f).c \in Chars
<1> DEFINE s == file[f]
           text == frames[f].text
           missing == frames[f].missing
<1>1. /\ s \in FileState /\ s.pos \in Int /\ s.pos <= Len(text) /\ Reading(s)
      /\ s.pos >= -1
      /\ Complete => s.pos >= 0 /\ missing = {}
      /\ row \in Nat /\ col \in Nat /\ Len(text) \in Nat
      /\ missing \subseteq 0..Len(text) - 1
      /\ \A n \in 1..Len(text) : text[n] \in Chars
  <2>1. /\ s \in FileState /\ s.pos <= Len(text) /\ Reading(s)
        /\ s.pos >= -1
        /\ Complete => s.pos >= 0 /\ missing = {}
    BY DEF IInv, Files, Complete
  <2>2. row \in Nat /\ col \in Nat /\ frames[f] \in Frames
    BY DEF IInv, Types
  <2>3. /\ Len(text) \in Nat /\ \A n \in 1..Len(text) : text[n] \in Chars
        /\ missing \subseteq 0..Len(text) - 1
    BY <2>2, TextFacts
  <2>4. s.pos \in Int
    BY <2>1 DEF FileState
  <2>. QED
    BY <2>1, <2>2, <2>3, <2>4
<1>2. ReadChar(f) = CASE s.c = NL \/ ~s.open -> s
        [] s.c # NL /\ s.open /\ s.pos \notin 0..Len(text) - 1 -> [s EXCEPT !.c = NL, !.eof = TRUE]
        [] s.c # NL /\ s.open /\ s.pos \in missing -> [s EXCEPT !.pos = s.pos - 1]
        [] OTHER -> [s EXCEPT !.c = text[s.pos + 1], !.pos = s.pos + 1]
  BY DEF ReadChar, InText
<1> HIDE DEF s, text, missing
<1>3. CASE s.c = NL \/ ~s.open
  <2>1. ReadChar(f) = s
    BY <1>2, <1>3
  <2>2. s.c = NL /\ (~s.open => s.eof)
    BY <1>1, <1>3 DEF Reading
  <2>3. Complete /\ ~s.eof => row + 1 <= s.pos
    BY <1>1, <2>2 DEF Reading
  <2>. QED
    BY <1>1, <2>1, <2>2, <2>3 DEF text
<1>4. CASE s.c # NL /\ s.open /\ s.pos \notin 0..Len(text) - 1
  <2>1. s.pos \notin missing
    BY <1>1, <1>4
  <2>2. ReadChar(f) = [s EXCEPT !.c = NL, !.eof = TRUE]
    BY <1>2, <1>4, <2>1
  <2>3. NL \in Chars \union {NL, "0"}
    OBVIOUS
  <2>4. /\ ReadChar(f) \in FileState /\ ReadChar(f).pos = s.pos
        /\ ReadChar(f).c = NL /\ ReadChar(f).eof = TRUE
    BY <1>1, <2>2, <2>3 DEF FileState
  <2>. QED
    BY <1>1, <2>4 DEF text
<1>5. CASE s.c # NL /\ s.open /\ s.pos \in missing
  <2>1. s.pos \in 0..Len(text) - 1
    BY <1>1, <1>5
  <2>2. ReadChar(f) = [s EXCEPT !.pos = s.pos - 1]
    BY <1>2, <1>5, <2>1
  <2>3. s.pos - 1 \in Int /\ s.pos - 1 <= Len(text) /\ s.pos - 1 >= -1
    BY <1>1, <2>1
  <2>4. /\ ReadChar(f) \in FileState /\ ReadChar(f).pos = s.pos - 1
        /\ ReadChar(f).c = s.c /\ ReadChar(f).eof = s.eof /\ ReadChar(f).open = s.open
    BY <1>1, <2>2, <2>3 DEF FileState
  <2>5. s.c \in Chars
    <3>1. s.c \in Chars \union {NL, "0"}
      BY <1>1 DEF FileState
    <3>. QED
      BY <1>5, <3>1, CharsFacts
  <2>6. ~Complete
    BY <1>1, <1>5
  <2>7. ~s.eof
    BY <1>1, <1>5 DEF Reading
  <2>. QED
    BY <1>5, <2>3, <2>4, <2>5, <2>6, <2>7 DEF text
<1>6. CASE s.c # NL /\ s.open /\ s.pos \in 0..Len(text) - 1 /\ s.pos \notin missing
  <2>1. ReadChar(f) = [s EXCEPT !.c = text[s.pos + 1], !.pos = s.pos + 1]
    BY <1>2, <1>6
  <2>2. s.pos + 1 \in 1..Len(text) /\ s.pos + 1 \in Int /\ s.pos + 1 <= Len(text) /\ s.pos + 1 >= 0
    BY <1>1, <1>6
  <2>3. text[s.pos + 1] \in Chars
    BY <1>1, <2>2
  <2>4. /\ ReadChar(f) \in FileState /\ ReadChar(f).pos = s.pos + 1
        /\ ReadChar(f).c \in Chars /\ ReadChar(f).eof = s.eof /\ ReadChar(f).open = s.open
    BY <1>1, <2>1, <2>2, <2>3 DEF FileState
  <2>5. Complete => row + col <= s.pos
    BY <1>1, <1>6 DEF Reading
  <2>6. ~s.eof
    BY <1>1, <1>6 DEF Reading
  <2>7. Complete => row + col + 1 <= s.pos + 1 /\ row + 1 <= s.pos + 1
    BY <1>1, <2>5
  <2>. QED
    BY <1>6, <2>2, <2>4, <2>5, <2>6, <2>7 DEF text
<1>. QED
  BY <1>3, <1>4, <1>5, <1>6

\* The bound of Visible is the length of the longer text
LEMMA LongestIs ==
  ASSUME frames \in [{0, 1} -> Frames]
  PROVE  Longest \in Nat /\ \A f \in {0, 1} : Len(frames[f].text) <= Longest
<1> DEFINE L(f) == Len(frames[f].text)
           S == {L(f) : f \in {0, 1}}
<1>1. L(0) \in Nat /\ L(1) \in Nat
  BY TextFacts
<1>2. Longest = CHOOSE n \in S : \A f \in {0, 1} : L(f) <= n
  BY Zenon DEF Longest
<1>3. S = {L(0), L(1)}
  OBVIOUS
<1> HIDE DEF L
<1>4. \E n \in S : \A f \in {0, 1} : L(f) <= n
  <2> HIDE DEF S
  <2>1. L(0) <= L(1) \/ L(1) <= L(0)
    BY <1>1
  <2>. QED
    BY <1>1, <1>3, <2>1
<1>5. Longest \in S /\ \A f \in {0, 1} : L(f) <= Longest
  <2> HIDE DEF S
  <2>. QED
    BY <1>2, <1>4, Zenon
<1>. QED
  BY <1>1, <1>3, <1>5 DEF L

\* Where the character of a position goes
LocationOf(v) == v[1] * COLS + v[2] + OFFSET

\* If no read fails a row that goes on is within the text, and its location
\* fits its field
LEMMA ColumnFits ==
  ASSUME IInv, pc = "frames", Complete, NEW f \in {0, 1}, ReadChar(f).c # NL
  PROVE  /\ row \in 0..Longest /\ col \in 0..Longest
         /\ LocationOf(<<row, col>>) \in Nat /\ LocationOf(<<row, col>>) >= 1
         /\ LocationOf(<<row, col>>) < SHORT
<1> DEFINE len == Len(frames[f].text)
<1>1. /\ row \in Nat /\ col \in Nat /\ frames[f] \in Frames /\ frames \in [{0, 1} -> Frames]
  BY DEF IInv, Types
<1>2. len \in Nat /\ len + COLS * len + OFFSET < SHORT
  BY <1>1, TextFacts
<1>3. /\ row + col + 1 <= ReadChar(f).pos /\ ReadChar(f).pos <= len
      /\ ReadChar(f) \in FileState
  BY ReadCharKeeps
<1>4. ReadChar(f).pos \in Int
  BY <1>3 DEF FileState
<1>5. len <= Longest /\ Longest \in Nat
  BY <1>1, LongestIs
<1> HIDE DEF len
<1>6. row <= len /\ col <= len
  BY <1>1, <1>2, <1>3, <1>4
<1>7. COLS \in Nat /\ OFFSET \in Nat /\ OFFSET >= 1 /\ SHORT \in Nat
  BY Sizes
<1>8. row * COLS <= COLS * len /\ row * COLS \in Nat /\ COLS * len \in Nat
  BY <1>1, <1>2, <1>6, <1>7
<1> DEFINE x == row * COLS
           y == COLS * len
<1>9. x \in Nat /\ y \in Nat /\ x <= y /\ len + y + OFFSET < SHORT
  BY <1>2, <1>8
<1>10. LocationOf(<<row, col>>) = x + col + OFFSET
  BY DEF LocationOf
<1> HIDE DEF x, y
<1>11. x + col + OFFSET \in Nat /\ x + col + OFFSET >= 1 /\ x + col + OFFSET < SHORT
  BY <1>1, <1>2, <1>6, <1>7, <1>9
<1>12. row \in 0..Longest /\ col \in 0..Longest
  BY <1>1, <1>2, <1>5, <1>6
<1>. QED
  BY <1>10, <1>11, <1>12

\* A column of a row that goes on is on a location that fits its field
LEMMA AddColumnStep == IInv /\ AddColumn => IInv'
<1> SUFFICES ASSUME IInv, AddColumn PROVE IInv'
  OBVIOUS
<1> DEFINE c0 == ReadChar(0).c
           c1 == ReadChar(1).c
           loc == row * COLS + col + OFFSET
           Adds == mp1_ioctl_add(loc, OrBlank(c0), OrBlank(c1), LENGTH, LENGTH)
<1>1. /\ pc = "frames"
      /\ file' = [f \in {0, 1} |-> ReadChar(f)]
      /\ UNCHANGED <<frames, row, loop, i, ebx, synced>>
      /\ loc < SHORT
      /\ \/ /\ c0 = NL /\ c1 = NL /\ pc' = "endrow" /\ UNCHANGED <<col, list>>
         \/ /\ pc' = "frames" /\ col' = col + 1
            /\ \/ UNCHANGED list
               \/ ~({c0, c1} \subseteq {Blank, NL}) /\ Adds
  BY DEF AddColumn, InField, Offset
<1>2. /\ Types /\ loop = 0 /\ i = 0 /\ synced = -1 /\ row \in Nat /\ col \in Nat
      /\ Shows(blink_array, screen)
  BY <1>1 DEF IInv, Types, Control
<1>3. ASSUME NEW f \in {0, 1}
      PROVE  /\ file'[f] = ReadChar(f)
             /\ ReadChar(f) \in FileState /\ ReadChar(f).pos <= Len(frames[f].text)
             /\ ReadChar(f).pos \in Int /\ ReadChar(f).pos >= -1
             /\ Complete => ReadChar(f).pos >= 0
             /\ ~ReadChar(f).open => ReadChar(f).eof
             /\ ReadChar(f).eof => ReadChar(f).c = NL
             /\ Complete /\ ReadChar(f).c # NL => row + col + 1 <= ReadChar(f).pos
             /\ Complete /\ ReadChar(f).c = NL /\ ~ReadChar(f).eof => row + 1 <= ReadChar(f).pos
  <2>1. ReadChar(f) \in FileState
    BY <1>1, ReadCharKeeps
  <2>2. ReadChar(f).pos \in Int
    BY <2>1 DEF FileState
  <2>. QED
    BY <1>1, <2>2, ReadCharKeeps
<1>4. Files'
  <2>1. file' \in [{0, 1} -> FileState] /\ frames' = frames /\ row' = row
    BY <1>1, <1>3
  <2>2. Complete' = Complete
    BY <2>1 DEF Complete
  <2>3. /\ \A f \in {0, 1} : file'[f].pos <= Len(frames'[f].text) /\ file'[f].pos >= -1
        /\ Complete' => \A f \in {0, 1} : file'[f].pos >= 0
    BY <1>3, <2>1, <2>2
  <2>4. ASSUME NEW f \in {0, 1} PROVE Reading(file[f])'
    <3>1. Complete /\ ReadChar(f).c # NL => row' + col' <= ReadChar(f).pos
      <4>1. CASE col' = col
        BY <1>2, <1>3, <2>1, <4>1
      <4>2. CASE col' = col + 1
        BY <1>2, <1>3, <2>1, <4>2
      <4>. QED
        BY <1>1, <4>1, <4>2
    <3>. QED
      BY <1>3, <2>1, <2>2, <3>1 DEF Reading
  <2>5. pc' = "endrow" => \A f \in {0, 1} : file'[f].c = NL
    BY <1>1, <1>3
  <2>6. pc' # "open"
    BY <1>1
  <2>. QED
    BY <2>1, <2>3, <2>4, <2>5, <2>6 DEF Files
<1>5. Control'
  BY <1>1, <1>2 DEF Control
<1>6. OrBlank(c0) \in Chars /\ OrBlank(c1) \in Chars
  <2>1. \A f \in {0, 1} : ReadChar(f).c # NL => ReadChar(f).c \in Chars
    BY <1>1, ReadCharKeeps
  <2>. QED
    BY <2>1, CharsFacts DEF OrBlank
<1>7. loc \in Nat /\ loc >= 1 /\ loc < SHORT
  <2>1. COLS \in Nat /\ OFFSET \in Nat /\ OFFSET >= 1
    BY Sizes
  <2>2. row * COLS \in Nat
    BY <1>2, <2>1
  <2> DEFINE x == row * COLS
  <2>3. x \in Nat /\ loc = x + col + OFFSET
    BY <2>2
  <2> HIDE DEF x, loc
  <2>4. loc \in Nat /\ loc >= 1
    BY <1>2, <2>1, <2>3
  <2>. QED
    BY <1>1, <2>4
<1>8. PICK m, s : Chain(blink_array, mp1_list_head, m, s)
  BY DEF IInv, Linked
<1>9. /\ blink_array' \in [Cells -> Cell] /\ mp1_list_head' \in Cells \union {NULL}
      /\ screen' \in [0..SIZE - 1 -> Chars]
      /\ \E m2, s2 : Chain(blink_array', mp1_list_head', m2, s2)
      /\ Shows(blink_array', screen')
  <2>1. CASE UNCHANGED list
    <3>1. UNCHANGED <<blink_array, mp1_list_head, screen>>
      BY <2>1 DEF list
    <3>2. Chain(blink_array', mp1_list_head', m, s) /\ Shows(blink_array', screen')
      BY <1>2, <1>8, <3>1
    <3>. QED
      BY <1>2, <3>1, <3>2 DEF Types
  <2>2. CASE ~({c0, c1} \subseteq {Blank, NL}) /\ Adds
    <3>1. loc \in Nat /\ loc >= 1 /\ loc < SHORT
      BY <1>7
    <3>2. LENGTH \in 0..HALF - 1
      BY Sizes
    <3>3. /\ blink_array \in [Cells -> Cell] /\ mp1_list_head \in Cells \union {NULL}
          /\ screen \in [0..SIZE - 1 -> Chars]
      BY <1>2 DEF Types
    <3> HIDE DEF loc, c0, c1
    <3>. QED
      BY <1>2, <1>6, <1>8, <2>2, <3>1, <3>2, <3>3, AddEffect
  <2>. QED
    BY <1>1, <2>1, <2>2
<1>10. Types'
  <2>1. col' \in Nat
    BY <1>1, <1>2
  <2>. QED
    BY <1>1, <1>2, <1>9, <2>1 DEF Types
<1>11. Linked'
  <2>1. PICK m2, s2 : Chain(blink_array', mp1_list_head', m2, s2)
    BY <1>9
  <2>2. m2 + 1 \in 1..m2 + 1
    BY <2>1 DEF Chain
  <2>3. pc' # "tasklet" /\ loop' # 2
    BY <1>1, <1>2
  <2>. QED
    BY <2>1, <2>2, <2>3 DEF Linked
<1>. QED
  BY <1>4, <1>5, <1>9, <1>10, <1>11 DEF IInv

----------------------------------------------------------------------------
(* Synchronising and removing the character that main added *)

\* The synchronisation changes no link, and the two cells agree after it
LEMMA SyncEffect ==
  ASSUME blink_array \in [Cells -> Cell], screen \in [0..SIZE - 1 -> Chars],
         NEW m, NEW s, Chain(blink_array, mp1_list_head, m, s),
         mp1_ioctl_sync(OFFSET, LOCATION)
  PROVE  /\ blink_array' \in [Cells -> Cell] /\ screen' \in [0..SIZE - 1 -> Chars]
         /\ synced' = synced \/ synced' = 0
         /\ Chain(blink_array', mp1_list_head, m, s)
         /\ synced' = synced \/ InStep(blink_array', m, s, m + 1)
<1> DEFINE esi == mp1_find_helper(OFFSET)
           edi == mp1_find_helper(LOCATION)
           src == blink_array[esi]
           dst == blink_array[edi]
           new == [dst EXCEPT !.on_length = src.on_length, !.off_length = src.off_length,
                              !.countdown = src.countdown, !.status = src.status]
<1>1. CASE esi = NULL \/ edi = NULL
  <2>1. UNCHANGED <<blink_array, screen, synced>>
    BY <1>1 DEF mp1_ioctl_sync
  <2>. QED
    BY <2>1
<1>2. CASE esi # NULL /\ edi # NULL
  <2>1. /\ blink_array' = [blink_array EXCEPT ![edi].on_length = src.on_length,
                ![edi].off_length = src.off_length, ![edi].countdown = src.countdown,
                ![edi].status = src.status]
        /\ screen' = [screen EXCEPT ![dst.location] = dst.off_char]
        /\ synced' = 0
    BY <1>2 DEF mp1_ioctl_sync, mp1_poke
  <2>2. PICK p : First(blink_array, m, s, OFFSET, p)
    BY <1>2, FindIs
  <2>3. PICK q : First(blink_array, m, s, LOCATION, q)
    BY <1>2, FindIs
  <2>4. /\ p \in 1..m /\ q \in 1..m /\ esi = s[p] /\ edi = s[q] /\ esi \in Cells /\ edi \in Cells
        /\ m \in Nat
    <3>1. p \in 1..m /\ q \in 1..m /\ m \in Nat
      BY <2>2, <2>3 DEF First, Chain
    <3>2. esi = s[p] /\ esi \in Cells
      BY <1>2, <2>2, FindIs
    <3>3. edi = s[q] /\ edi \in Cells
      BY <1>2, <2>3, FindIs
    <3>. QED
      BY <3>1, <3>2, <3>3
  <2>5. src \in Cell /\ dst \in Cell
    BY <2>4
  <2> HIDE DEF esi, edi
  <2>6. blink_array' = [blink_array EXCEPT ![edi] = new]
    BY <2>1, <2>4
  <2>7. new \in Cell /\ new.location = dst.location /\ new.next = dst.next /\ Same(src, new)
    BY <2>5 DEF Cell, Same
  <2>8. dst.location \in 0..SIZE - 1 /\ dst.off_char \in Chars
    BY <2>5 DEF Cell
  <2> HIDE DEF new, src
  <2>9. /\ blink_array' \in [Cells -> Cell] /\ blink_array'[edi] = new
        /\ \A n \in Cells : n # edi => blink_array'[n] = blink_array[n]
    BY <2>4, <2>6, <2>7
  <2>10. screen' \in [0..SIZE - 1 -> Chars]
    BY <2>1, <2>8
  <2>11. SameLinks(blink_array, blink_array')
    BY <2>7, <2>9 DEF SameLinks
  <2>12. /\ Chain(blink_array', mp1_list_head, m, s)
         /\ First(blink_array', m, s, OFFSET, p) /\ First(blink_array', m, s, LOCATION, q)
    BY <2>2, <2>3, <2>11, SameChain
  <2>13. Same(blink_array'[s[p]], blink_array'[s[q]])
    <3>1. CASE esi = edi
      BY <2>4, <3>1 DEF Same
    <3>2. CASE esi # edi
      BY <2>4, <2>7, <2>9, <3>2 DEF src
    <3>. QED
      BY <3>1, <3>2
  <2>14. p < m + 1 /\ q < m + 1
    BY <2>4
  <2>15. Same(Due(blink_array', s, m + 1, p), Due(blink_array', s, m + 1, q))
    BY <2>13, <2>14 DEF Due
  <2>16. InStep(blink_array', m, s, m + 1)
    BY <2>4, <2>12, <2>15 DEF InStep
  <2>. QED
    BY <2>1, <2>9, <2>10, <2>12, <2>16
<1>. QED
  BY <1>1, <1>2

\* The removal takes one cell off the list, wherever on it the cell is
LEMMA RemoveEffect ==
  ASSUME blink_array \in [Cells -> Cell], mp1_list_head \in Cells \union {NULL},
         NEW m, NEW s, Chain(blink_array, mp1_list_head, m, s),
         mp1_ioctl_remove(LOCATION)
  PROVE  /\ blink_array' \in [Cells -> Cell] /\ mp1_list_head' \in Cells \union {NULL}
         /\ \E m2, s2 : Chain(blink_array', mp1_list_head', m2, s2)
<1> DEFINE cell == mp1_find_helper(LOCATION)
           next == blink_array[cell].next
<1>1. CASE cell = NULL
  <2>1. UNCHANGED <<blink_array, mp1_list_head>>
    BY <1>1 DEF mp1_ioctl_remove
  <2>2. Chain(blink_array', mp1_list_head', m, s)
    BY <2>1
  <2>. QED
    BY <2>1, <2>2
<1>2. CASE cell # NULL
  <2>1. /\ mp1_list_head' = IF mp1_list_head = cell THEN next ELSE mp1_list_head
        /\ blink_array' = [n \in Cells |->
                CASE n = cell -> free
                  [] n # cell /\ n \in Listed /\ blink_array[n].next = cell ->
                       [blink_array[n] EXCEPT !.next = next]
                  [] OTHER -> blink_array[n]]
    BY <1>2 DEF mp1_ioctl_remove
  <2>2. PICK k : First(blink_array, m, s, LOCATION, k)
    BY <1>2, FindIs
  <2>3. k \in 1..m /\ cell = s[k] /\ cell \in Cells
    BY <1>2, <2>2, FindIs DEF First
  <2>4. next \in Cells \union {NULL}
    BY <2>3 DEF Cell
  <2>5. \A n \in Cells : n \in Listed <=> blink_array[n].location # 0
    BY ListedIs
  <2> HIDE DEF cell, next
  <2>6. blink_array'[cell] = free
    BY <2>1, <2>3
  <2>7. ASSUME NEW n \in Cells, n # cell
        PROVE  /\ blink_array'[n] \in Cell
               /\ blink_array'[n].location = blink_array[n].location
               /\ blink_array'[n].next = IF blink_array[n].location # 0 /\ blink_array[n].next = cell
                                         THEN next ELSE blink_array[n].next
    <3>1. blink_array[n] \in Cell
      OBVIOUS
    <3>2. CASE blink_array[n].location # 0 /\ blink_array[n].next = cell
      <4>1. blink_array'[n] = [blink_array[n] EXCEPT !.next = next]
        BY <2>1, <2>5, <2>7, <3>2
      <4>. QED
        BY <2>4, <3>1, <3>2, <4>1 DEF Cell
    <3>3. CASE ~(blink_array[n].location # 0 /\ blink_array[n].next = cell)
      <4>1. blink_array'[n] = blink_array[n]
        BY <2>1, <2>5, <2>7, <3>3
      <4>. QED
        BY <3>1, <3>3, <4>1
    <3>. QED
      BY <3>2, <3>3
  <2>8. \A n \in Cells : blink_array'[n] \in Cell
    BY <2>6, <2>7, FreeCell
  <2>9. blink_array' \in [Cells -> Cell]
    BY <2>1, <2>8
  <2>10. mp1_list_head' \in Cells \union {NULL}
    BY <2>1, <2>4
  <2>11. blink_array'[s[k]].location = 0
    BY <2>3, <2>6, FreeCell
  <2>12. next = blink_array[s[k]].next
    BY <2>3 DEF next
  <2>13. \A n \in Cells : n # s[k] =>
           /\ blink_array'[n].location = blink_array[n].location
           /\ blink_array'[n].next =
                IF blink_array[n].location # 0 /\ blink_array[n].next = s[k]
                THEN blink_array[s[k]].next ELSE blink_array[n].next
    BY <2>3, <2>7, <2>12
  <2>14. \E m2, s2 : Chain(blink_array', IF mp1_list_head = s[k] THEN blink_array[s[k]].next
                                         ELSE mp1_list_head, m2, s2)
    BY <2>3, <2>11, <2>13, RemoveChain
  <2>15. mp1_list_head' = IF mp1_list_head = s[k] THEN blink_array[s[k]].next ELSE mp1_list_head
    BY <2>1, <2>3, <2>12
  <2>. QED
    BY <2>9, <2>10, <2>14, <2>15
<1>. QED
  BY <1>1, <1>2

\* One case for each of the four ends of a waiting loop
LEMMA BetweenStep == IInv /\ Between => IInv'
<1> SUFFICES ASSUME IInv, Between PROVE IInv'
  OBVIOUS
<1>1. /\ pc = "wait" /\ i' = 0 /\ loop' = loop + 1
      /\ pc' = IF loop = 3 THEN "done" ELSE "wait"
      /\ UNCHANGED <<frames, file, row, col, ebx>>
  BY DEF Between, reading
<1>2. loop \in 0..3 /\ Types
  <2>1. loop \in 0..4 /\ loop <= 3 /\ Types
    BY <1>1 DEF IInv, Types, Control
  <2>. QED
    BY <2>1
<1>3. loop' \in 0..4 /\ loop' \in Nat /\ 0 \in 0..WAIT
  BY <1>1, <1>2, Sizes
<1>4. PICK m, s :
        /\ Chain(blink_array, mp1_list_head, m, s)
        /\ loop = 2 /\ synced = 0 => InStep(blink_array, m, s, m + 1)
  BY <1>1 DEF IInv, Linked
<1>5. /\ blink_array \in [Cells -> Cell] /\ mp1_list_head \in Cells \union {NULL}
      /\ screen \in [0..SIZE - 1 -> Chars] /\ synced \in {-1, 0}
  BY <1>2 DEF Types
<1>6. /\ blink_array' \in [Cells -> Cell] /\ mp1_list_head' \in Cells \union {NULL}
      /\ screen' \in [0..SIZE - 1 -> Chars] /\ synced' \in {-1, 0}
      /\ loop' <= 1 => synced' = -1 /\ Shows(blink_array', screen')
      /\ \E m2, s2 : /\ Chain(blink_array', mp1_list_head', m2, s2)
                     /\ loop' = 2 /\ synced' = 0 => InStep(blink_array', m2, s2, m2 + 1)
  <2>1. CASE loop = 0
    <3>1. /\ mp1_ioctl_add(LOCATION, "I", "M", ON_LENGTH, OFF_LENGTH) /\ synced' = synced
      BY <2>1 DEF Between
    <3>2. synced = -1 /\ Shows(blink_array, screen)
      BY <2>1 DEF IInv, Control
    <3>3. /\ LOCATION \in Nat /\ LOCATION >= 1 /\ LOCATION < SHORT
          /\ ON_LENGTH \in 0..HALF - 1 /\ OFF_LENGTH \in 0..HALF - 1
      BY Sizes
    <3>4. "I" \in Chars /\ "M" \in Chars
      BY CharsFacts
    <3>5. /\ blink_array' \in [Cells -> Cell] /\ mp1_list_head' \in Cells \union {NULL}
          /\ screen' \in [0..SIZE - 1 -> Chars]
          /\ \E m2, s2 : Chain(blink_array', mp1_list_head', m2, s2)
          /\ Shows(blink_array', screen')
      BY <1>4, <1>5, <3>1, <3>2, <3>3, <3>4, AddEffect
    <3>6. loop' # 2
      BY <1>1, <2>1
    <3>. QED
      BY <1>5, <3>1, <3>2, <3>5, <3>6
  <2>2. CASE loop = 1
    <3>1. mp1_ioctl_sync(OFFSET, LOCATION) /\ mp1_list_head' = mp1_list_head
      BY <2>2 DEF Between
    <3>2. synced = -1
      BY <2>2 DEF IInv, Control
    <3>3. /\ blink_array' \in [Cells -> Cell] /\ screen' \in [0..SIZE - 1 -> Chars]
          /\ synced' = synced \/ synced' = 0
          /\ Chain(blink_array', mp1_list_head, m, s)
          /\ synced' = synced \/ InStep(blink_array', m, s, m + 1)
      BY <1>4, <1>5, <3>1, SyncEffect
    <3>4. ~(loop' <= 1)
      BY <1>1, <2>2
    <3>5. synced' = 0 => InStep(blink_array', m, s, m + 1)
      BY <3>2, <3>3
    <3>6. Chain(blink_array', mp1_list_head', m, s)
      BY <3>1, <3>3
    <3>. QED
      BY <1>5, <3>1, <3>3, <3>4, <3>5, <3>6
  <2>3. CASE loop = 2
    <3>1. mp1_ioctl_remove(LOCATION) /\ UNCHANGED <<screen, synced>>
      BY <2>3 DEF Between
    <3>2. /\ blink_array' \in [Cells -> Cell] /\ mp1_list_head' \in Cells \union {NULL}
          /\ \E m2, s2 : Chain(blink_array', mp1_list_head', m2, s2)
      BY <1>4, <1>5, <3>1, RemoveEffect
    <3>3. ~(loop' <= 1) /\ loop' # 2
      BY <1>1, <2>3
    <3>. QED
      BY <1>5, <3>1, <3>2, <3>3
  <2>4. CASE loop = 3
    <3>1. UNCHANGED <<blink_array, mp1_list_head, screen, synced>>
      BY <2>4 DEF Between, list
    <3>2. Chain(blink_array', mp1_list_head', m, s)
      BY <1>4, <3>1
    <3>3. ~(loop' <= 1) /\ loop' # 2
      BY <1>1, <2>4
    <3>. QED
      BY <1>5, <3>1, <3>2, <3>3
  <2>. QED
    BY <1>2, <2>1, <2>2, <2>3, <2>4
<1>7. Types'
  BY <1>1, <1>2, <1>3, <1>6 DEF Types
<1>8. Files'
  <2>1. pc' \notin {"open", "frames", "endrow"}
    BY <1>1
  <2>. QED
    BY <1>1, <2>1 DEF IInv, Files, Complete
<1>9. Control'
  <2>1. pc' = "wait" => loop' <= 3
    BY <1>1, <1>2
  <2>. QED
    BY <1>1, <1>6, <2>1 DEF Control
<1>10. Linked'
  <2>1. PICK m2, s2 : /\ Chain(blink_array', mp1_list_head', m2, s2)
                      /\ loop' = 2 /\ synced' = 0 => InStep(blink_array', m2, s2, m2 + 1)
    BY <1>6
  <2>2. m2 + 1 \in 1..m2 + 1
    BY <2>1 DEF Chain
  <2>3. pc' # "tasklet"
    BY <1>1
  <2>. QED
    BY <2>1, <2>2, <2>3 DEF Linked
<1>. QED
  BY <1>6, <1>7, <1>8, <1>9, <1>10 DEF IInv

----------------------------------------------------------------------------
(* The results *)

\* Every step of the program keeps the invariant
LEMMA NextIInv == IInv /\ [Next]_vars => IInv'
<1> SUFFICES ASSUME IInv, [Next]_vars PROVE IInv'
  OBVIOUS
<1>1. CASE OpenFrames
  BY <1>1, OpenStep
<1>2. CASE AddColumn
  BY <1>2, AddColumnStep
<1>3. CASE EndRow
  BY <1>3, EndRowStep
<1>4. CASE Wait
  BY <1>4, WaitStep
<1>5. CASE mp1_rtc_tasklet
  BY <1>5, TaskletStep
<1>6. CASE tasklet_end
  BY <1>6, EndStep
<1>7. CASE Between
  BY <1>7, BetweenStep
<1>8. CASE Overrun \/ UNCHANGED vars
  <2>1. UNCHANGED <<frames, file, row, col, blink_array, mp1_list_head, screen, pc, loop, i, ebx,
                    synced>>
    BY <1>8 DEF Overrun, vars
  <2>2. Types'
    BY <2>1 DEF IInv, Types
  <2>3. Files'
    BY <2>1 DEF IInv, Files, Reading, Complete
  <2>4. Control'
    BY <2>1 DEF IInv, Control
  <2>5. Linked'
    BY <2>1 DEF IInv, Linked
  <2>6. loop' <= 1 => Shows(blink_array, screen)'
    BY <2>1 DEF IInv
  <2>. QED
    BY <2>2, <2>3, <2>4, <2>5, <2>6 DEF IInv
<1>. QED
  BY <1>1, <1>2, <1>3, <1>4, <1>5, <1>6, <1>7, <1>8 DEF Next, Done

(***************************************************************************)
(* Every reachable state satisfies the invariant: blink_array holds one    *)
(* list of just the cells in use, the tasklet is on it, two files without  *)
(* a missing block have been read as far as row and col say, and each      *)
(* location of the screen shows a cell that is there.                      *)
(***************************************************************************)
THEOREM Invariance == Spec => []IInv
BY InitIInv, NextIInv, PTL DEF Spec

\* The invariant gives the three properties
LEMMA IInvListExact == IInv => ListExact
<1> SUFFICES ASSUME IInv PROVE ListExact
  OBVIOUS
<1>1. TypeOK
  <2>1. \A f \in {0, 1} : file[f].pos \in -1..Len(frames[f].text) /\ file[f].eof \in BOOLEAN
    <3> SUFFICES ASSUME NEW f \in {0, 1}
                 PROVE  file[f].pos \in -1..Len(frames[f].text) /\ file[f].eof \in BOOLEAN
      OBVIOUS
    <3>1. /\ file[f] \in FileState /\ file[f].pos <= Len(frames[f].text) /\ file[f].pos >= -1
          /\ frames[f] \in Frames
      BY DEF IInv, Files, Types
    <3>2. Len(frames[f].text) \in Nat
      BY <3>1, TextFacts
    <3>3. file[f].pos \in Int /\ file[f].eof \in BOOLEAN
      BY <3>1 DEF FileState
    <3>. QED
      BY <3>1, <3>2, <3>3
  <2>2. 0..HALF - 1 \subseteq Nat
    BY Sizes
  <2>3. Cell \subseteq [location : 0..SIZE - 1, on_char : Chars, off_char : Chars,
        on_length : Nat, off_length : Nat, countdown : 0..SHORT - 1, status : {0, 1},
        next : Cells \union {NULL}]
    BY <2>2 DEF Cell
  <2>4. blink_array \in [Cells -> Cell]
    BY DEF IInv, Types
  <2>5. blink_array \in [Cells -> [location : 0..SIZE - 1, on_char : Chars, off_char : Chars,
        on_length : Nat, off_length : Nat, countdown : 0..SHORT - 1, status : {0, 1},
        next : Cells \union {NULL}]]
    BY <2>3, <2>4
  <2>. QED
    BY <2>1, <2>5, Zenon DEF IInv, Types, TypeOK
<1>2. PICK m, s : Chain(blink_array, mp1_list_head, m, s)
  BY DEF IInv, Linked
<1>. QED
  BY <1>1, <1>2, ListedIs DEF ListExact

(***************************************************************************)
(* The list of blinking characters ends and holds exactly the cells that   *)
(* mp1_malloc will not give out, for every screen and every pair of        *)
(* frames, through every add, tick, synchronisation and removal.           *)
(***************************************************************************)
THEOREM ListExactAlways == Spec => []ListExact
BY Invariance, IInvListExact, PTL

LEMMA IInvScreenCurrent == IInv => ScreenCurrent
<1> SUFFICES ASSUME IInv, loop <= 1, NEW l \in 0..SIZE - 1
             PROVE  LET there == {n \in Listed : blink_array[n].location = l}
                    IN  IF there = {} THEN screen[l] = Blank
                        ELSE \E n \in there : screen[l] = Shown(blink_array[n])
  BY Zenon DEF ScreenCurrent
<1>1. Listed = {n \in Cells : blink_array[n].location # 0}
  BY IInvListExact DEF ListExact
<1>2. \/ screen[l] = Blank /\ \A n \in Cells : ~Holds(blink_array, n, l)
      \/ \E n \in Cells : Holds(blink_array, n, l) /\ screen[l] = Shown(blink_array[n])
  BY DEF IInv, Shows
<1> DEFINE there == {n \in Listed : blink_array[n].location = l}
<1>3. \A n : n \in there <=> n \in Cells /\ Holds(blink_array, n, l)
  BY <1>1 DEF Holds
<1> HIDE DEF there
<1>4. IF there = {} THEN screen[l] = Blank ELSE \E n \in there : screen[l] = Shown(blink_array[n])
  BY <1>2, <1>3
<1>. QED
  BY <1>4, Zenon DEF there

(***************************************************************************)
(* Until the synchronisation every location of the screen shows the        *)
(* current character of a cell that blinks there and every other one is    *)
(* blank, at every point of a tasklet's walk as well.                      *)
(***************************************************************************)
THEOREM ScreenCurrentAlways == Spec => []ScreenCurrent
BY Invariance, IInvScreenCurrent, PTL

LEMMA IInvInPhase == IInv => InPhase
<1> SUFFICES ASSUME IInv, pc = "wait", loop = 2, synced = 0
             PROVE  LET a == blink_array[mp1_find_helper(OFFSET)]
                        b == blink_array[mp1_find_helper(LOCATION)]
                    IN  a.countdown = b.countdown /\ a.status = b.status
  BY Zenon DEF InPhase
<1>1. PICK m, s, e :
        /\ Chain(blink_array, mp1_list_head, m, s)
        /\ e = m + 1
        /\ InStep(blink_array, m, s, e)
  BY DEF IInv, Linked
<1>2. PICK p, q \in 1..m :
        /\ First(blink_array, m, s, OFFSET, p) /\ First(blink_array, m, s, LOCATION, q)
        /\ Same(Due(blink_array, s, e, p), Due(blink_array, s, e, q))
  BY <1>1 DEF InStep
<1>3. m \in Nat /\ p < e /\ q < e
  BY <1>1, <1>2 DEF Chain
<1>4. Same(blink_array[s[p]], blink_array[s[q]])
  BY <1>2, <1>3 DEF Due
<1>5. mp1_find_helper(OFFSET) = s[p]
  BY <1>1, <1>2, FindIs
<1>6. mp1_find_helper(LOCATION) = s[q]
  BY <1>1, <1>2, FindIs
<1>. QED
  BY <1>4, <1>5, <1>6 DEF Same

(***************************************************************************)
(* Two characters that RTC_SYNC has synchronised change at the same ticks  *)
(* until one is removed, wherever the two are on the list and whatever     *)
(* their lengths.                                                          *)
(***************************************************************************)
THEOREM InPhaseAlways == Spec => []InPhase
BY Invariance, IInvInPhase, PTL

----------------------------------------------------------------------------
(* What add_frames has made of the two texts *)

\* The newlines among the first p characters of a text
Newlines(t, p) == {e \in 1..p : t[e] = NL}

\* After p characters of a text the next one is in row r and column c
Reached(t, p, r, c) ==
  /\ Cardinality(Newlines(t, p)) = r
  /\ p - c \in Newlines(t, p) \union {0}
  /\ \A e \in Newlines(t, p) : e <= p - c

\* The n-th character is in row r and column c
At(t, n, r, c) == t[n] # NL /\ Reached(t, n - 1, r, c)

\* Row r has nothing from column c on, and no row after it has anything
RowEnds(t, r, c) == \A n \in 1..Len(t), d \in Nat : d >= c => ~At(t, n, r, d)
TextEnds(t, r) == \A n \in 1..Len(t), q, d \in Nat : q > r => ~At(t, n, q, d)

\* How far a file has been read, and what is left of its row
Scanning(f) ==
  LET s == file[f]
      t == frames[f].text
  IN  /\ s.c # NL => Reached(t, s.pos, row, col)
      /\ s.c = NL => RowEnds(t, row, col)
      /\ s.c = NL /\ ~s.eof => Reached(t, s.pos, row + 1, 0)
      /\ s.eof => TextEnds(t, row)

Seen == {v \in Visible : v[1] < row \/ (v[1] = row /\ v[2] < col)}
Used(a) == {n \in Cells : a[n].location # 0}
From(cell, v) ==
  /\ cell.location = LocationOf(v)
  /\ cell.on_char = CharAt(0, v[1], v[2]) /\ cell.off_char = CharAt(1, v[1], v[2])

\* The cells are those of the positions seen.  There are no more cells than
\* positions, so that mp1_malloc can fail only if the frames overlap
Collected ==
  /\ \A n \in Used(blink_array) : \E v \in Seen : From(blink_array[n], v)
  /\ Cardinality(Used(blink_array)) <= Cardinality(Seen)
  /\ Cardinality(Visible) <= SIZE =>
       \A v \in Seen : LocationOf(v) < SIZE =>
         \E n \in Used(blink_array) : From(blink_array[n], v)

Scanned ==
  Complete =>
    /\ pc \in {"open", "frames", "endrow"} => Collected /\ \A f \in {0, 1} : Scanning(f)
    /\ pc = "wait" /\ loop = 0 /\ i = 0 => Collected /\ Seen = Visible

\* Newlines of a longer part of the text: as many as the shorter one has, and
\* the same ones if there are no more
LEMMA MoreNewlines ==
  ASSUME NEW t, NEW p \in Nat, NEW q \in Nat, p <= q
  PROVE  /\ IsFiniteSet(Newlines(t, q)) /\ Cardinality(Newlines(t, q)) \in Nat
         /\ Newlines(t, p) \subseteq Newlines(t, q)
         /\ Cardinality(Newlines(t, p)) <= Cardinality(Newlines(t, q))
         /\ Cardinality(Newlines(t, p)) = Cardinality(Newlines(t, q))
              => Newlines(t, p) = Newlines(t, q)
<1>1. IsFiniteSet(1..q)
  BY FS_Interval
<1>2. Newlines(t, q) \subseteq 1..q
  BY DEF Newlines
<1>3. IsFiniteSet(Newlines(t, q))
  BY <1>1, <1>2, FS_Subset
<1>4. Newlines(t, p) \subseteq Newlines(t, q)
  BY DEF Newlines
<1>5. Cardinality(Newlines(t, q)) \in Nat
  BY <1>3, FS_CardinalityType
<1>. QED
  BY <1>3, <1>4, <1>5, FS_Subset, Zenon

\* One more character adds itself if it is a newline
LEMMA NextNewlines ==
  ASSUME NEW t, NEW p \in Nat
  PROVE  /\ t[p + 1] # NL => Newlines(t, p + 1) = Newlines(t, p)
         /\ t[p + 1] = NL => /\ p + 1 \in Newlines(t, p + 1)
                             /\ Cardinality(Newlines(t, p + 1)) = Cardinality(Newlines(t, p)) + 1
<1>1. \A e : e \in 1..p + 1 <=> e \in 1..p \/ e = p + 1
  OBVIOUS
<1>2. t[p + 1] # NL => Newlines(t, p + 1) = Newlines(t, p)
  BY <1>1 DEF Newlines
<1>3. ASSUME t[p + 1] = NL
      PROVE  /\ p + 1 \in Newlines(t, p + 1)
             /\ Cardinality(Newlines(t, p + 1)) = Cardinality(Newlines(t, p)) + 1
  <2>1. Newlines(t, p + 1) = Newlines(t, p) \union {p + 1}
    BY <1>1, <1>3 DEF Newlines
  <2>2. p + 1 \notin Newlines(t, p)
    BY DEF Newlines
  <2>3. IsFiniteSet(Newlines(t, p))
    BY MoreNewlines
  <2>4. Cardinality(Newlines(t, p) \union {p + 1}) = Cardinality(Newlines(t, p)) + 1
    BY <2>2, <2>3, FS_AddElement
  <2>. QED
    BY <2>1, <2>4
<1>. QED
  BY <1>2, <1>3

\* No character that has been passed is in the row at the column reached, or
\* after it
LEMMA PassedBefore ==
  ASSUME NEW t, NEW p \in Nat, NEW q \in Nat, q < p,
         NEW r \in Nat, NEW c \in Nat, NEW d \in Nat, d >= c,
         Reached(t, p, r, c), Reached(t, q, r, d)
  PROVE  FALSE
<1>1. Newlines(t, q) = Newlines(t, p)
  BY MoreNewlines DEF Reached
<1>2. /\ p - c \in Newlines(t, p) \union {0} /\ \A e \in Newlines(t, p) : e <= q - d
      /\ q - d \in Newlines(t, q) \union {0}
  BY <1>1 DEF Reached
<1>3. q - d >= 0
  BY <1>2 DEF Newlines
<1>4. p - c > q - d
  OBVIOUS
<1>5. p - c \in Newlines(t, p)
  BY <1>2, <1>3, <1>4
<1>. QED
  BY <1>2, <1>4, <1>5

\* so each position holds one character
LEMMA OnePlace ==
  ASSUME NEW t, NEW n \in Nat \ {0}, NEW k \in Nat \ {0}, NEW r \in Nat, NEW c \in Nat,
         Reached(t, n - 1, r, c), Reached(t, k - 1, r, c)
  PROVE  n = k
<1>1. n - 1 \in Nat /\ k - 1 \in Nat
  OBVIOUS
<1>2. ~(n - 1 < k - 1)
  BY <1>1, PassedBefore
<1>3. ~(k - 1 < n - 1)
  BY <1>1, PassedBefore
<1>. QED
  BY <1>1, <1>2, <1>3

\* Reading a character that goes on with the row
LEMMA NextColumn ==
  ASSUME NEW t, NEW p \in Nat, NEW r \in Nat, NEW c \in Nat, Reached(t, p, r, c),
         t[p + 1] # NL
  PROVE  Reached(t, p + 1, r, c + 1)
<1>1. Newlines(t, p + 1) = Newlines(t, p)
  BY NextNewlines
<1>2. (p + 1) - (c + 1) = p - c
  OBVIOUS
<1>. QED
  BY <1>1, <1>2 DEF Reached

\* Reading the newline that ends the row
LEMMA NextRow ==
  ASSUME NEW t, NEW p \in Nat, NEW r \in Nat, NEW c \in Nat, Reached(t, p, r, c),
         t[p + 1] = NL
  PROVE  Reached(t, p + 1, r + 1, 0) /\ RowEnds(t, r, c)
<1>1. p + 1 \in Newlines(t, p + 1) /\ Cardinality(Newlines(t, p + 1)) = r + 1
  BY NextNewlines DEF Reached
<1>2. (p + 1) - 0 = p + 1 /\ \A e \in Newlines(t, p + 1) : e <= p + 1
  BY DEF Newlines
<1>3. Reached(t, p + 1, r + 1, 0)
  BY <1>1, <1>2 DEF Reached
<1>4. ASSUME NEW n \in 1..Len(t), NEW d \in Nat, d >= c, At(t, n, r, d) PROVE FALSE
  <2>1. /\ n \in Nat /\ n - 1 \in Nat /\ t[n] # NL /\ Reached(t, n - 1, r, d)
    BY <1>4 DEF At
  <2>2. CASE n - 1 < p
    BY <1>4, <2>1, <2>2, PassedBefore
  <2>3. CASE n - 1 = p
    BY <2>1, <2>3
  <2>4. CASE n - 1 >= p + 1
    <3>1. Cardinality(Newlines(t, p + 1)) <= Cardinality(Newlines(t, n - 1))
      BY <2>1, <2>4, MoreNewlines
    <3>. QED
      BY <1>1, <2>1, <3>1 DEF Reached
  <2>. QED
    BY <2>1, <2>2, <2>3, <2>4
<1>. QED
  BY <1>3, <1>4 DEF RowEnds

\* The end of the text ends the row and the rows
LEMMA LastRow ==
  ASSUME NEW t, Len(t) \in Nat, NEW r \in Nat, NEW c \in Nat, Reached(t, Len(t), r, c)
  PROVE  RowEnds(t, r, c) /\ TextEnds(t, r)
<1>1. ASSUME NEW n \in 1..Len(t), NEW d \in Nat, d >= c, At(t, n, r, d) PROVE FALSE
  <2>1. n - 1 \in Nat /\ n - 1 < Len(t) /\ Reached(t, n - 1, r, d)
    BY <1>1 DEF At
  <2>. QED
    BY <1>1, <2>1, PassedBefore
<1>2. ASSUME NEW n \in 1..Len(t), NEW q \in Nat, NEW d \in Nat, q > r, At(t, n, q, d) PROVE FALSE
  <2>1. n - 1 \in Nat /\ n - 1 <= Len(t) /\ Reached(t, n - 1, q, d)
    BY <1>2 DEF At
  <2>2. Cardinality(Newlines(t, n - 1)) <= Cardinality(Newlines(t, Len(t)))
    BY <2>1, MoreNewlines
  <2>. QED
    BY <1>2, <2>1, <2>2 DEF Reached
<1>. QED
  BY <1>1, <1>2 DEF RowEnds, TextEnds

\* The character at a position is the one there, or the blank
LEMMA CharAtIs ==
  ASSUME NEW f \in {0, 1}, frames \in [{0, 1} -> Frames], NEW r \in Nat, NEW c \in Nat
  PROVE  /\ \A n \in 1..Len(frames[f].text) :
              At(frames[f].text, n, r, c) => CharAt(f, r, c) = frames[f].text[n]
         /\ CharAt(f, r, c) # Blank =>
              \E n \in 1..Len(frames[f].text) : At(frames[f].text, n, r, c)
<1> DEFINE text == frames[f].text
           newlines(n) == {e \in 1..n - 1 : text[e] = NL}
           there == {n \in 1..Len(text) :
                  /\ text[n] # NL
                  /\ Cardinality(newlines(n)) = r
                  /\ {m \in newlines(n) : m > n - c - 1} = {}
                  /\ n - c - 1 \in newlines(n) \union {0}}
<1>1. Len(text) \in Nat
  BY TextFacts
<1>2. CharAt(f, r, c) = IF there = {} THEN Blank ELSE text[CHOOSE n \in there : TRUE]
  BY Zenon DEF CharAt
<1>3. \A n \in 1..Len(text) : n \in there <=> At(text, n, r, c)
  <2> SUFFICES ASSUME NEW n \in 1..Len(text) PROVE n \in there <=> At(text, n, r, c)
    OBVIOUS
  <2>1. newlines(n) = Newlines(text, n - 1)
    BY DEF Newlines
  <2> DEFINE N == newlines(n)
  <2>2. n \in there <=> /\ text[n] # NL /\ Cardinality(N) = r
                        /\ {m \in N : m > n - c - 1} = {} /\ n - c - 1 \in N \union {0}
    BY Zenon
  <2>3. (n - 1) - c = n - c - 1
    BY <1>1
  <2>4. \A m \in N : m \in Int
    BY <1>1
  <2> HIDE DEF N, there
  <2>5. {m \in N : m > n - c - 1} = {} <=> \A e \in N : e <= (n - 1) - c
    BY <1>1, <2>3, <2>4
  <2>6. N = Newlines(text, n - 1)
    BY <2>1 DEF N
  <2> HIDE DEF newlines, text
  <2>. QED
    BY <2>2, <2>3, <2>5, <2>6 DEF At, Reached
<1>4. there \subseteq 1..Len(text)
  BY Zenon
<1> HIDE DEF there, text
<1>5. ASSUME NEW n \in there, NEW k \in there PROVE n = k
  <2>1. /\ n \in 1..Len(text) /\ k \in 1..Len(text)
        /\ Reached(text, n - 1, r, c) /\ Reached(text, k - 1, r, c)
    BY <1>3, <1>4 DEF At
  <2>2. n \in Nat \ {0} /\ k \in Nat \ {0}
    BY <1>1, <2>1
  <2>. QED
    BY <2>1, <2>2, OnePlace
<1>6. ASSUME NEW n \in 1..Len(text), At(text, n, r, c) PROVE CharAt(f, r, c) = text[n]
  <2>1. n \in there
    BY <1>3, <1>6
  <2>2. (CHOOSE k \in there : TRUE) \in there
    BY <2>1, Zenon
  <2>3. (CHOOSE k \in there : TRUE) = n
    BY <1>5, <2>1, <2>2
  <2>. QED
    BY <1>2, <2>1, <2>3
<1>7. CharAt(f, r, c) # Blank => \E n \in 1..Len(text) : At(text, n, r, c)
  BY <1>2, <1>3, <1>4
<1>. QED
  BY <1>6, <1>7 DEF text

\* There are finitely many visible positions
LEMMA VisibleFinite ==
  ASSUME frames \in [{0, 1} -> Frames]
  PROVE  IsFiniteSet(Visible)
<1>1. IsFiniteSet(0..Longest)
  BY LongestIs, FS_Interval
<1>2. IsFiniteSet((0..Longest) \X (0..Longest))
  BY <1>1, FS_Product
<1>3. Visible \subseteq (0..Longest) \X (0..Longest)
  BY DEF Visible
<1>. QED
  BY <1>2, <1>3, FS_Subset

\* Where a text ends, nothing is visible
LEMMA EndsBlank ==
  ASSUME NEW f \in {0, 1}, frames \in [{0, 1} -> Frames], NEW r \in Nat, NEW c \in Nat
  PROVE  /\ \A d \in Nat : RowEnds(frames[f].text, r, c) /\ d >= c => CharAt(f, r, d) = Blank
         /\ \A q, d \in Nat : TextEnds(frames[f].text, r) /\ q > r => CharAt(f, q, d) = Blank
<1>1. ASSUME NEW d \in Nat, RowEnds(frames[f].text, r, c), d >= c PROVE CharAt(f, r, d) = Blank
  <2>1. CharAt(f, r, d) # Blank =>
          \E n \in 1..Len(frames[f].text) : At(frames[f].text, n, r, d)
    BY CharAtIs
  <2>. QED
    BY <1>1, <2>1 DEF RowEnds
<1>2. ASSUME NEW q \in Nat, NEW d \in Nat, TextEnds(frames[f].text, r), q > r
      PROVE  CharAt(f, q, d) = Blank
  <2>1. CharAt(f, q, d) # Blank =>
          \E n \in 1..Len(frames[f].text) : At(frames[f].text, n, q, d)
    BY CharAtIs
  <2>. QED
    BY <1>2, <2>1 DEF TextEnds
<1>. QED
  BY <1>1, <1>2

\* A character is read into the column it stands in
LEMMA ReadCharScans ==
  ASSUME IInv, Complete, pc = "frames", NEW f \in {0, 1}, Scanning(f)
  PROVE  /\ OrBlank(ReadChar(f).c) = CharAt(f, row, col)
         /\ ReadChar(f).c # NL => Reached(frames[f].text, ReadChar(f).pos, row, col + 1)
         /\ ReadChar(f).c = NL => RowEnds(frames[f].text, row, col)
         /\ ReadChar(f).c = NL /\ ~ReadChar(f).eof =>
              Reached(frames[f].text, ReadChar(f).pos, row + 1, 0)
         /\ ReadChar(f).eof => TextEnds(frames[f].text, row)
<1> DEFINE s == file[f]
           text == frames[f].text
<1>1. /\ s \in FileState /\ s.pos \in Nat /\ s.pos <= Len(text) /\ Reading(s)
      /\ row \in Nat /\ col \in Nat /\ Len(text) \in Nat /\ frames \in [{0, 1} -> Frames]
  <2>1. s \in FileState /\ s.pos >= 0 /\ s.pos <= Len(text) /\ Reading(s)
    BY DEF IInv, Files
  <2>2. row \in Nat /\ col \in Nat /\ frames[f] \in Frames /\ frames \in [{0, 1} -> Frames]
    BY DEF IInv, Types
  <2>3. Len(text) \in Nat
    BY <2>2, TextFacts
  <2>4. s.pos \in Nat
    BY <2>1 DEF FileState
  <2>. QED
    BY <2>1, <2>2, <2>3, <2>4
<1>2. ReadChar(f) = CASE s.c = NL \/ ~s.open -> s
        [] s.c # NL /\ s.open /\ s.pos = Len(text) -> [s EXCEPT !.c = NL, !.eof = TRUE]
        [] OTHER -> [s EXCEPT !.c = text[s.pos + 1], !.pos = s.pos + 1]
  <2>1. frames[f].missing = {}
    BY DEF Complete
  <2>2. s.pos \notin 0..Len(text) - 1 <=> s.pos = Len(text)
    BY <1>1
  <2>. QED
    BY <2>1, <2>2 DEF ReadChar, InText
<1>3. /\ s.c # NL => Reached(text, s.pos, row, col)
      /\ s.c = NL => RowEnds(text, row, col)
      /\ s.c = NL /\ ~s.eof => Reached(text, s.pos, row + 1, 0)
      /\ s.eof => TextEnds(text, row)
  BY DEF Scanning
<1>4. RowEnds(text, row, col) => CharAt(f, row, col) = Blank
  BY <1>1, EndsBlank
<1>5. \A n \in 1..Len(text) : At(text, n, row, col) => CharAt(f, row, col) = text[n]
  BY <1>1, CharAtIs
<1> SUFFICES /\ OrBlank(ReadChar(f).c) = CharAt(f, row, col)
             /\ ReadChar(f).c # NL => Reached(text, ReadChar(f).pos, row, col + 1)
             /\ ReadChar(f).c = NL => RowEnds(text, row, col)
             /\ ReadChar(f).c = NL /\ ~ReadChar(f).eof => Reached(text, ReadChar(f).pos, row + 1, 0)
             /\ ReadChar(f).eof => TextEnds(text, row)
  OBVIOUS
<1> HIDE DEF s, text
<1>6. CASE s.c = NL \/ ~s.open
  <2>1. ReadChar(f) = s
    BY <1>2, <1>6
  <2>2. s.c = NL
    BY <1>1, <1>6 DEF Reading
  <2>3. OrBlank(s.c) = Blank
    BY <2>2 DEF OrBlank
  <2>. QED
    BY <1>3, <1>4, <2>1, <2>2, <2>3
<1>7. CASE s.c # NL /\ s.open /\ s.pos = Len(text)
  <2>1. ReadChar(f) = [s EXCEPT !.c = NL, !.eof = TRUE]
    BY <1>2, <1>7
  <2>2. ReadChar(f).c = NL /\ ReadChar(f).eof = TRUE
    BY <1>1, <2>1 DEF FileState
  <2>3. RowEnds(text, row, col) /\ TextEnds(text, row)
    BY <1>1, <1>3, <1>7, LastRow
  <2>4. OrBlank(ReadChar(f).c) = Blank
    BY <2>2 DEF OrBlank
  <2>. QED
    BY <1>4, <2>2, <2>3, <2>4
<1>8. CASE s.c # NL /\ s.open /\ s.pos # Len(text)
  <2>1. ReadChar(f) = [s EXCEPT !.c = text[s.pos + 1], !.pos = s.pos + 1]
    BY <1>2, <1>8
  <2>2. s.pos + 1 \in 1..Len(text) /\ (s.pos + 1) - 1 = s.pos
    BY <1>1, <1>8
  <2>3. /\ ReadChar(f).pos = s.pos + 1 /\ ReadChar(f).c = text[s.pos + 1]
        /\ ReadChar(f).eof = s.eof
    BY <1>1, <2>1 DEF FileState
  <2>4. ~s.eof /\ Reached(text, s.pos, row, col)
    BY <1>1, <1>3, <1>8 DEF Reading
  <2>5. CASE text[s.pos + 1] = NL
    <3>1. Reached(text, s.pos + 1, row + 1, 0) /\ RowEnds(text, row, col)
      BY <1>1, <2>4, <2>5, NextRow
    <3>2. OrBlank(ReadChar(f).c) = Blank
      BY <2>3, <2>5 DEF OrBlank
    <3>. QED
      BY <1>4, <2>3, <2>4, <2>5, <3>1, <3>2
  <2>6. CASE text[s.pos + 1] # NL
    <3>1. Reached(text, s.pos + 1, row, col + 1)
      BY <1>1, <2>4, <2>6, NextColumn
    <3>2. At(text, s.pos + 1, row, col)
      BY <2>2, <2>4, <2>6 DEF At
    <3>3. CharAt(f, row, col) = text[s.pos + 1]
      BY <1>5, <2>2, <3>2
    <3>4. OrBlank(ReadChar(f).c) = CharAt(f, row, col)
      BY <2>3, <2>6, <3>3 DEF OrBlank
    <3>. QED
      BY <2>3, <2>4, <2>6, <3>1, <3>4
  <2>. QED
    BY <2>5, <2>6
<1>. QED
  BY <1>6, <1>7, <1>8

\* Adding the character of a position: its cell, or nothing if it is off the
\* screen or no cell is free
LEMMA AddCell ==
  ASSUME NEW location \in Nat, location >= 1, location < SHORT,
         NEW on_char, NEW off_char, NEW on_length, NEW off_length,
         blink_array \in [Cells -> Cell],
         mp1_ioctl_add(location, on_char, off_char, on_length, off_length)
  PROVE  \/ /\ blink_array' = blink_array
            /\ location >= SIZE \/ Used(blink_array) = Cells
         \/ \E c \in Cells :
              /\ c \notin Used(blink_array)
              /\ Used(blink_array') = Used(blink_array) \union {c}
              /\ \A n \in Cells : n # c => blink_array'[n] = blink_array[n]
              /\ blink_array'[c].location = location
              /\ blink_array'[c].on_char = on_char /\ blink_array'[c].off_char = off_char
<1> DEFINE c == mp1_malloc
           new == [location |-> location, on_char |-> on_char, off_char |-> off_char,
                   on_length |-> on_length, off_length |-> off_length,
                   countdown |-> on_length, status |-> 1, next |-> mp1_list_head]
           unused == {n \in Cells : blink_array[n].location = 0}
<1>1. location % SHORT = location
  BY Sizes
<1>2. IF ~OnScreen(location) \/ c = NULL THEN UNCHANGED list
      ELSE blink_array' = [blink_array EXCEPT ![c] = new]
  BY <1>1, Zenon DEF mp1_ioctl_add
<1>3. c # NULL => c \in Cells /\ blink_array[c].location = 0
  BY MallocFree
<1>4. c = NULL => Used(blink_array) = Cells
  <2>1. c = IF unused = {} THEN NULL ELSE CHOOSE n \in unused : \A x \in unused : n <= x
    BY DEF mp1_malloc
  <2>2. unused \in SUBSET Nat /\ NULL \notin unused
    BY Sizes DEF Cells, NULL
  <2>3. Used(blink_array) # Cells => unused # {}
    BY DEF Used
  <2> HIDE DEF unused, c
  <2>4. unused # {} => c \in unused
    BY <2>1, <2>2, LeastExists
  <2>. QED
    BY <2>2, <2>3, <2>4
<1>5. new.location = location /\ new.on_char = on_char /\ new.off_char = off_char
  OBVIOUS
<1> HIDE DEF c, new, unused
<1>6. CASE ~OnScreen(location) \/ c = NULL
  <2>1. blink_array' = blink_array
    BY <1>2, <1>6 DEF list
  <2>2. ~OnScreen(location) => location >= SIZE
    BY Sizes DEF OnScreen
  <2>. QED
    BY <1>4, <1>6, <2>1, <2>2
<1>7. CASE OnScreen(location) /\ c # NULL
  <2>1. blink_array' = [blink_array EXCEPT ![c] = new] /\ c \in Cells /\ blink_array[c].location = 0
    BY <1>2, <1>3, <1>7
  <2>2. blink_array'[c] = new /\ \A n \in Cells : n # c => blink_array'[n] = blink_array[n]
    BY <2>1
  <2>3. c \notin Used(blink_array) /\ location # 0
    BY <2>1 DEF Used
  <2>4. Used(blink_array') = Used(blink_array) \union {c}
    BY <1>5, <2>1, <2>2, <2>3 DEF Used
  <2>. QED
    BY <1>5, <2>1, <2>2, <2>3, <2>4
<1>. QED
  BY <1>6, <1>7

\* Nothing writes to the frames' files
LEMMA SameFrames ==
  ASSUME frames' = frames
  PROVE  /\ \A f, r, c : CharAt(f, r, c)' = CharAt(f, r, c)
         /\ Visible' = Visible
<1>1. ASSUME NEW f, NEW r, NEW c PROVE CharAt(f, r, c)' = CharAt(f, r, c)
  BY DEF CharAt
<1>2. Longest' = Longest
  BY DEF Longest
<1>3. \A p : (\E f \in {0, 1} : CharAt(f, p[1], p[2])' # Blank)
               <=> (\E f \in {0, 1} : CharAt(f, p[1], p[2]) # Blank)
  BY <1>1
<1>4. Visible' = {p \in (0..Longest) \X (0..Longest) :
                    \E f \in {0, 1} : CharAt(f, p[1], p[2])' # Blank}
  BY <1>2 DEF Visible
<1>5. Visible' = Visible
  BY <1>3, <1>4 DEF Visible
<1>. QED
  BY <1>1, <1>5

\* The positions seen and the cells used are finitely many
LEMMA Finite ==
  ASSUME frames \in [{0, 1} -> Frames]
  PROVE  /\ IsFiniteSet(Seen) /\ Cardinality(Seen) \in Nat
         /\ Cardinality(Seen) <= Cardinality(Visible) /\ Cardinality(Visible) \in Nat
         /\ \A a : IsFiniteSet(Used(a)) /\ Cardinality(Used(a)) \in Nat
         /\ Cardinality(Cells) = SIZE
<1>1. IsFiniteSet(Visible)
  BY VisibleFinite
<1>2. Seen \subseteq Visible
  BY DEF Seen
<1>3. IsFiniteSet(Seen) /\ Cardinality(Seen) <= Cardinality(Visible)
  BY <1>1, <1>2, FS_Subset, Zenon
<1>4. Cardinality(Seen) \in Nat /\ Cardinality(Visible) \in Nat
  BY <1>1, <1>3, FS_CardinalityType
<1>5. SIZE \in Nat /\ SIZE >= 1
  BY Sizes
<1>6. IsFiniteSet(1..SIZE) /\ Cardinality(1..SIZE) = IF 1 > SIZE THEN 0 ELSE SIZE - 1 + 1
  BY <1>5, FS_Interval
<1>7. IsFiniteSet(Cells) /\ Cardinality(Cells) = SIZE
  BY <1>5, <1>6 DEF Cells
<1>8. ASSUME NEW a PROVE IsFiniteSet(Used(a)) /\ Cardinality(Used(a)) \in Nat
  <2>1. Used(a) \subseteq Cells
    BY DEF Used
  <2>2. IsFiniteSet(Used(a))
    BY <1>7, <2>1, FS_Subset
  <2>. QED
    BY <2>2, FS_CardinalityType
<1>. QED
  BY <1>3, <1>4, <1>7, <1>8

\* Where no position is seen anew and no cell changes
LEMMA CollectedIdle ==
  ASSUME Collected, frames' = frames, blink_array' = blink_array, Seen' = Seen
  PROVE  Collected'
<1>1. /\ \A f, r, c : CharAt(f, r, c)' = CharAt(f, r, c)
      /\ Visible' = Visible
  BY SameFrames
<1>2. ASSUME NEW n, NEW v PROVE From(blink_array[n], v)' <=> From(blink_array[n], v)
  BY <1>1 DEF From
<1>. QED
  BY <1>1, <1>2 DEF Collected

\* The files are at their start and no cell is in use
LEMMA InitScanned == Init => Scanned
<1> SUFFICES ASSUME Init, Complete PROVE Scanned
  BY DEF Scanned
<1>1. /\ pc = "open" /\ row = 0 /\ col = 0 /\ frames \in [{0, 1} -> Frames]
      /\ \A f \in {0, 1} : file[f].pos = 0 /\ ~file[f].eof /\ file[f].c = "0"
      /\ blink_array = [n \in Cells |-> free]
  BY DEF Init
<1>2. ASSUME NEW f \in {0, 1} PROVE Scanning(f)
  <2> DEFINE t == frames[f].text
  <2>1. Newlines(t, 0) = {}
    BY DEF Newlines
  <2>2. Reached(t, 0, 0, 0)
    BY <2>1, FS_EmptySet DEF Reached
  <2>3. "0" # NL
    BY DEF NL
  <2>. QED
    BY <1>1, <2>2, <2>3 DEF Scanning
<1>3. Seen = {}
  <2>1. \A v \in Visible : v[1] \in Nat /\ v[2] \in Nat
    BY <1>1, LongestIs DEF Visible
  <2>. QED
    BY <1>1, <2>1 DEF Seen
<1>4. Used(blink_array) = {}
  BY <1>1, FreeCell DEF Used
<1>5. Collected
  BY <1>3, <1>4, FS_EmptySet DEF Collected
<1>. QED
  BY <1>1, <1>2, <1>5 DEF Scanned

\* The end of a row passes positions that are blank
LEMMA EndRowScans == IInv /\ Scanned /\ EndRow => Scanned'
<1> SUFFICES ASSUME IInv, Scanned, EndRow, Complete PROVE Scanned'
  BY DEF EndRow, Complete, Scanned
<1>1. /\ pc = "endrow" /\ frames' = frames /\ blink_array' = blink_array
      /\ row' = row + 1 /\ col' = 0 /\ loop' = loop /\ i' = i
      /\ file' = [f \in {0, 1} |-> NextLine(file[f])]
      /\ pc' = IF \A f \in {0, 1} : file[f].eof THEN "wait" ELSE "frames"
  BY DEF EndRow, list
<1>2. /\ frames \in [{0, 1} -> Frames] /\ row \in Nat /\ col \in Nat
      /\ file \in [{0, 1} -> FileState]
      /\ \A f \in {0, 1} : Scanning(f) /\ file[f].c = NL /\ Reading(file[f])
      /\ Collected
  BY <1>1 DEF IInv, Types, Files, Scanned
<1>3. \A f \in {0, 1} : /\ RowEnds(frames[f].text, row, col)
                        /\ file[f].eof => TextEnds(frames[f].text, row)
                        /\ ~file[f].eof => Reached(frames[f].text, file[f].pos, row + 1, 0)
  BY <1>2 DEF Scanning
<1>4. \A v \in Visible : /\ v[1] \in Nat /\ v[2] \in Nat
                         /\ \E f \in {0, 1} : CharAt(f, v[1], v[2]) # Blank
  BY <1>2, LongestIs DEF Visible
<1>5. ASSUME NEW v \in Visible, v[1] = row PROVE v[2] < col
  <2>1. PICK f \in {0, 1} : CharAt(f, row, v[2]) # Blank
    BY <1>4, <1>5
  <2>2. ~(v[2] >= col)
    BY <1>2, <1>3, <1>4, <2>1, EndsBlank
  <2>. QED
    BY <1>2, <1>4, <2>2
<1>6. Visible' = Visible
  BY <1>1, SameFrames
<1>7. Seen' = Seen
  <2>1. Seen' = {v \in Visible : v[1] < row + 1 \/ (v[1] = row + 1 /\ v[2] < 0)}
    BY <1>1, <1>6 DEF Seen
  <2>2. \A v \in Visible : (v[1] < row + 1 \/ (v[1] = row + 1 /\ v[2] < 0))
                             <=> (v[1] < row \/ (v[1] = row /\ v[2] < col))
    BY <1>2, <1>4, <1>5
  <2>. QED
    BY <2>1, <2>2 DEF Seen
<1>8. Collected'
  BY <1>1, <1>2, <1>7, CollectedIdle
<1>9. ASSUME \A f \in {0, 1} : file[f].eof PROVE Seen' = Visible'
  <2>1. ASSUME NEW v \in Visible PROVE v[1] <= row
    <3>1. PICK f \in {0, 1} : CharAt(f, v[1], v[2]) # Blank
      BY <1>4
    <3>2. TextEnds(frames[f].text, row)
      BY <1>3, <1>9
    <3>3. ~(v[1] > row)
      BY <1>2, <1>4, <3>1, <3>2, EndsBlank
    <3>. QED
      BY <1>2, <1>4, <3>3
  <2>2. \A v \in Visible : v[1] < row \/ (v[1] = row /\ v[2] < col)
    BY <1>2, <1>4, <1>5, <2>1
  <2>. QED
    BY <1>6, <1>7, <2>2 DEF Seen
<1>10. ASSUME NEW f \in {0, 1} PROVE Scanning(f)'
  <2> DEFINE s == file[f]
             t == frames[f].text
  <2>1. s \in FileState /\ file'[f] = NextLine(s) /\ frames'[f].text = t
    BY <1>1, <1>2
  <2>2. "0" # NL
    BY DEF NL
  <2>3. CASE s.eof
    <3>1. file'[f].c = NL /\ file'[f].eof = TRUE
      BY <2>1, <2>3 DEF NextLine, FileState
    <3>2. TextEnds(t, row)
      BY <1>3, <2>3
    <3>3. RowEnds(t, row + 1, 0) /\ TextEnds(t, row + 1)
      BY <1>2, <3>2 DEF RowEnds, TextEnds
    <3>. QED
      BY <1>1, <2>1, <3>1, <3>3 DEF Scanning
  <2>4. CASE ~s.eof
    <3>1. file'[f].c = "0" /\ file'[f].eof = s.eof /\ file'[f].pos = s.pos
      BY <2>1, <2>4 DEF NextLine, FileState
    <3>2. Reached(t, s.pos, row + 1, 0)
      BY <1>3, <2>4
    <3>. QED
      BY <1>1, <2>1, <2>2, <2>4, <3>1, <3>2 DEF Scanning
  <2>. QED
    BY <2>3, <2>4
<1>. QED
  BY <1>1, <1>8, <1>9, <1>10 DEF Scanned

\* A position that is seen anew: its cell is added if there is room for it
LEMMA CollectedAdd ==
  ASSUME Collected, frames \in [{0, 1} -> Frames], frames' = frames,
         blink_array \in [Cells -> Cell],
         NEW v \in Visible, v \notin Seen, Seen' = Seen \union {v},
         LocationOf(v) \in Nat, LocationOf(v) >= 1, LocationOf(v) < SHORT,
         NEW on_length, NEW off_length,
         mp1_ioctl_add(LocationOf(v), CharAt(0, v[1], v[2]), CharAt(1, v[1], v[2]),
                       on_length, off_length)
  PROVE  Collected'
<1> DEFINE l == LocationOf(v)
           a == CharAt(0, v[1], v[2])
           b == CharAt(1, v[1], v[2])
<1>1. /\ \A f, r, c : CharAt(f, r, c)' = CharAt(f, r, c)
      /\ Visible' = Visible
  BY SameFrames
<1>2. ASSUME NEW n, NEW w, blink_array'[n] = blink_array[n]
      PROVE  From(blink_array[n], w)' <=> From(blink_array[n], w)
  BY <1>1, <1>2 DEF From
<1>3. /\ \A n \in Used(blink_array) : \E w \in Seen : From(blink_array[n], w)
      /\ Cardinality(Used(blink_array)) <= Cardinality(Seen)
      /\ Cardinality(Visible) <= SIZE =>
           \A w \in Seen : LocationOf(w) < SIZE =>
             \E n \in Used(blink_array) : From(blink_array[n], w)
  BY DEF Collected
<1>4. /\ IsFiniteSet(Seen) /\ Cardinality(Seen) \in Nat /\ Cardinality(Visible) \in Nat
      /\ IsFiniteSet(Visible) /\ Cardinality(Cells) = SIZE /\ SIZE \in Nat
      /\ \A x : IsFiniteSet(Used(x)) /\ Cardinality(Used(x)) \in Nat
  BY Finite, VisibleFinite, Sizes
<1>5. Cardinality(Seen \union {v}) = Cardinality(Seen) + 1
  BY <1>4, FS_AddElement
<1>6. Cardinality(Seen \union {v}) <= Cardinality(Visible)
  <2>1. Seen \union {v} \subseteq Visible
    BY DEF Seen
  <2>. QED
    BY <1>4, <2>1, FS_Subset, Zenon
<1>7. \/ /\ blink_array' = blink_array
         /\ l >= SIZE \/ Used(blink_array) = Cells
      \/ \E c \in Cells :
           /\ c \notin Used(blink_array)
           /\ Used(blink_array') = Used(blink_array) \union {c}
           /\ \A n \in Cells : n # c => blink_array'[n] = blink_array[n]
           /\ blink_array'[c].location = l
           /\ blink_array'[c].on_char = a /\ blink_array'[c].off_char = b
  <2>1. l \in Nat /\ l >= 1 /\ l < SHORT /\ mp1_ioctl_add(l, a, b, on_length, off_length)
    OBVIOUS
  <2> HIDE DEF l, a, b
  <2>. QED
    BY <2>1, AddCell
<1>8. CASE blink_array' = blink_array /\ (l >= SIZE \/ Used(blink_array) = Cells)
  <2>1. \A n, w : From(blink_array[n], w)' <=> From(blink_array[n], w)
    BY <1>2, <1>8
  <2>2. Cardinality(Used(blink_array)) <= Cardinality(Seen \union {v})
    BY <1>3, <1>4, <1>5
  <2>3. ASSUME Cardinality(Visible) <= SIZE, NEW w \in Seen \union {v}, LocationOf(w) < SIZE
        PROVE  \E n \in Used(blink_array) : From(blink_array[n], w)
    <3>1. Used(blink_array) # Cells
      BY <1>3, <1>4, <1>5, <1>6, <2>3
    <3>2. w # v
      BY <1>4, <1>8, <2>3, <3>1
    <3>. QED
      BY <1>3, <2>3, <3>2
  <2>. QED
    BY <1>1, <1>3, <1>8, <2>1, <2>2, <2>3 DEF Collected
<1>9. ASSUME NEW c \in Cells,
             /\ c \notin Used(blink_array)
             /\ Used(blink_array') = Used(blink_array) \union {c}
             /\ \A n \in Cells : n # c => blink_array'[n] = blink_array[n]
             /\ blink_array'[c].location = l
             /\ blink_array'[c].on_char = a /\ blink_array'[c].off_char = b
      PROVE  Collected'
  <2>1. From(blink_array[c], v)'
    BY <1>1, <1>9 DEF From
  <2>2. \A n \in Used(blink_array) : n \in Cells /\ n # c
    BY <1>9 DEF Used
  <2>3. \A w : \A n \in Used(blink_array) : From(blink_array[n], w)' <=> From(blink_array[n], w)
    BY <1>2, <1>9, <2>2
  <2>4. Cardinality(Used(blink_array) \union {c}) = Cardinality(Used(blink_array)) + 1
    BY <1>4, <1>9, FS_AddElement
  <2>5. Cardinality(Used(blink_array')) <= Cardinality(Seen \union {v})
    <3> DEFINE u == Cardinality(Used(blink_array))
               e == Cardinality(Seen)
    <3>1. u \in Nat /\ e \in Nat /\ u <= e
      BY <1>3, <1>4
    <3>2. Cardinality(Used(blink_array')) = u + 1 /\ Cardinality(Seen \union {v}) = e + 1
      BY <1>5, <1>9, <2>4
    <3> HIDE DEF u, e
    <3>. QED
      BY <3>1, <3>2
  <2>6. ASSUME NEW n \in Used(blink_array')
        PROVE  \E w \in Seen \union {v} : From(blink_array[n], w)'
    BY <1>3, <1>9, <2>1, <2>3
  <2>7. ASSUME Cardinality(Visible) <= SIZE, NEW w \in Seen \union {v}, LocationOf(w) < SIZE
        PROVE  \E n \in Used(blink_array') : From(blink_array[n], w)'
    <3>1. CASE w = v
      BY <1>9, <2>1, <3>1
    <3>2. CASE w \in Seen
      <4>1. PICK n \in Used(blink_array) : From(blink_array[n], w)
        BY <1>3, <2>7, <3>2
      <4>. QED
        BY <1>9, <2>3, <4>1
    <3>. QED
      BY <3>1, <3>2
  <2>. QED
    BY <1>1, <2>5, <2>6, <2>7 DEF Collected
<1>. QED
  BY <1>7, <1>8, <1>9

\* One column of both texts
LEMMA AddColumnScans == IInv /\ Scanned /\ AddColumn => Scanned'
<1> SUFFICES ASSUME IInv, Scanned, AddColumn, Complete PROVE Scanned'
  BY DEF AddColumn, Complete, Scanned
<1> DEFINE c0 == ReadChar(0).c
           c1 == ReadChar(1).c
           here == <<row, col>>
           Adds == mp1_ioctl_add(LocationOf(here), OrBlank(c0), OrBlank(c1), LENGTH, LENGTH)
<1>1. /\ pc = "frames"
      /\ file' = [f \in {0, 1} |-> ReadChar(f)]
      /\ UNCHANGED <<frames, row, loop, i>>
      /\ \/ /\ c0 = NL /\ c1 = NL /\ pc' = "endrow" /\ col' = col /\ blink_array' = blink_array
         \/ /\ ~(c0 = NL /\ c1 = NL) /\ pc' = "frames" /\ col' = col + 1
            /\ \/ {c0, c1} \subseteq {Blank, NL} /\ blink_array' = blink_array
               \/ ~({c0, c1} \subseteq {Blank, NL}) /\ Adds
  BY DEF AddColumn, Offset, list, LocationOf
<1>2. /\ frames \in [{0, 1} -> Frames] /\ row \in Nat /\ col \in Nat
      /\ blink_array \in [Cells -> Cell] /\ Collected /\ \A f \in {0, 1} : Scanning(f)
  BY <1>1 DEF IInv, Types, Scanned
<1>3. ASSUME NEW f \in {0, 1}
      PROVE  /\ OrBlank(ReadChar(f).c) = CharAt(f, row, col)
             /\ ReadChar(f).c # NL => Reached(frames[f].text, ReadChar(f).pos, row, col + 1)
             /\ ReadChar(f).c = NL => RowEnds(frames[f].text, row, col)
             /\ ReadChar(f).c = NL /\ ~ReadChar(f).eof =>
                  Reached(frames[f].text, ReadChar(f).pos, row + 1, 0)
             /\ ReadChar(f).eof => TextEnds(frames[f].text, row)
  BY <1>1, <1>2, ReadCharScans
<1>4. ASSUME NEW f \in {0, 1} PROVE Scanning(f)'
  <2>1. file'[f] = ReadChar(f) /\ frames' = frames /\ row' = row
    BY <1>1
  <2>2. ReadChar(f).c # NL => col' = col + 1
    BY <1>1
  <2>3. RowEnds(frames[f].text, row, col) => RowEnds(frames[f].text, row, col')
    <3>1. col' \in Nat /\ col' >= col
      BY <1>1, <1>2
    <3>2. \A d \in Nat : d >= col' => d >= col
      BY <1>2, <3>1
    <3>. QED
      BY <3>2 DEF RowEnds
  <2>. QED
    BY <1>3, <2>1, <2>2, <2>3 DEF Scanning
<1>5. /\ c0 # NL => CharAt(0, row, col) = c0
      /\ c0 = NL => CharAt(0, row, col) = Blank
      /\ c1 # NL => CharAt(1, row, col) = c1
      /\ c1 = NL => CharAt(1, row, col) = Blank
      /\ OrBlank(c0) = CharAt(0, row, col) /\ OrBlank(c1) = CharAt(1, row, col)
  BY <1>3 DEF OrBlank
<1>6. /\ Visible' = Visible
      /\ \A v \in Visible : v[1] \in Nat /\ v[2] \in Nat /\ v = <<v[1], v[2]>>
      /\ \A v \in Visible : \E f \in {0, 1} : CharAt(f, v[1], v[2]) # Blank
  BY <1>1, <1>2, LongestIs, SameFrames DEF Visible
<1> DEFINE New == {v \in Visible : v = here}
<1>7. col' = col + 1 => Seen' = Seen \union New
  <2>1. ASSUME col' = col + 1
        PROVE  Seen' = {v \in Visible : v[1] < row \/ (v[1] = row /\ v[2] < col + 1)}
    BY <1>1, <1>6, <2>1 DEF Seen
  <2>2. \A v \in Visible : (v[1] < row \/ (v[1] = row /\ v[2] < col + 1))
                             <=> (v[1] < row \/ (v[1] = row /\ v[2] < col)) \/ v = here
    BY <1>2, <1>6
  <2> HIDE DEF here
  <2>. QED
    BY <2>1, <2>2 DEF Seen
<1>8. col' = col => Seen' = Seen
  BY <1>1, <1>6 DEF Seen
<1>9. Collected'
  <2>1. CASE col' = col /\ blink_array' = blink_array
    BY <1>1, <1>2, <1>8, <2>1, CollectedIdle
  <2>2. CASE col' = col + 1 /\ {c0, c1} \subseteq {Blank, NL} /\ blink_array' = blink_array
    <3>1. CharAt(0, row, col) = Blank /\ CharAt(1, row, col) = Blank
      BY <1>5, <2>2
    <3>2. here \notin Visible
      BY <1>6, <3>1
    <3>3. Seen' = Seen
      BY <1>7, <2>2, <3>2
    <3>. QED
      BY <1>1, <1>2, <2>2, <3>3, CollectedIdle
  <2>3. CASE col' = col + 1 /\ ~({c0, c1} \subseteq {Blank, NL}) /\ Adds
    <3>1. PICK f \in {0, 1} : CharAt(f, row, col) # Blank /\ ReadChar(f).c # NL
      BY <1>5, <2>3
    <3>2. /\ row \in 0..Longest /\ col \in 0..Longest
          /\ LocationOf(here) \in Nat /\ LocationOf(here) >= 1 /\ LocationOf(here) < SHORT
      BY <1>1, <3>1, ColumnFits
    <3>3. here \in Visible
      BY <3>1, <3>2 DEF Visible
    <3>4. here \notin Seen
      BY <1>2 DEF Seen
    <3>5. Seen' = Seen \union {here}
      BY <1>7, <2>3, <3>3
    <3>6. mp1_ioctl_add(LocationOf(here), CharAt(0, here[1], here[2]), CharAt(1, here[1], here[2]),
                        LENGTH, LENGTH)
      BY <1>5, <2>3
    <3>7. frames' = frames
      BY <1>1
    <3> HIDE DEF here
    <3>. QED
      BY <1>2, <3>2, <3>3, <3>4, <3>5, <3>6, <3>7, CollectedAdd
  <2>. QED
    BY <1>1, <2>1, <2>2, <2>3
<1>. QED
  BY <1>1, <1>4, <1>9 DEF Scanned

\* Every step of the program keeps what has been read of the files and what
\* has been added in agreement
LEMMA NextScanned == IInv /\ Scanned /\ [Next]_vars => Scanned'
<1> SUFFICES ASSUME IInv, Scanned, [Next]_vars, Complete PROVE Scanned'
  <2>1. ASSUME OpenFrames \/ AddColumn \/ EndRow PROVE frames' = frames
    BY <2>1 DEF OpenFrames, AddColumn, EndRow
  <2>2. ASSUME Overrun \/ Done \/ UNCHANGED vars PROVE frames' = frames
    BY <2>2 DEF Overrun, Done, vars
  <2>3. ASSUME Wait \/ mp1_rtc_tasklet \/ tasklet_end \/ Between PROVE frames' = frames
    BY <2>3, Zenon DEF Wait, mp1_rtc_tasklet, tasklet_end, Between, reading
  <2>4. ASSUME IInv, Scanned, [Next]_vars PROVE frames' = frames
    BY <2>1, <2>2, <2>3, <2>4 DEF Next
  <2>. QED
    BY <2>4 DEF Complete, Scanned
<1>1. CASE OpenFrames
  <2>1. /\ pc = "open" /\ pc' \in {"frames", "done"}
        /\ UNCHANGED <<frames, row, col, blink_array, loop, i>>
        /\ file' = file \/ file' = [f \in {0, 1} |-> [file[f] EXCEPT !.open = TRUE]]
    BY <1>1 DEF OpenFrames, list
  <2>2. Collected /\ file \in [{0, 1} -> FileState] /\ \A f \in {0, 1} : Scanning(f)
    BY <2>1 DEF Scanned, IInv, Files
  <2>3. Seen' = Seen
    BY <2>1, SameFrames DEF Seen
  <2>4. Collected'
    BY <2>1, <2>2, <2>3, CollectedIdle
  <2>5. ASSUME NEW f \in {0, 1} PROVE Scanning(f)'
    <3>1. /\ file'[f].c = file[f].c /\ file'[f].pos = file[f].pos /\ file'[f].eof = file[f].eof
      BY <2>1, <2>2 DEF FileState
    <3>. QED
      BY <2>1, <2>2, <3>1 DEF Scanning
  <2>. QED
    BY <2>1, <2>4, <2>5 DEF Scanned
<1>2. CASE AddColumn
  BY <1>2, AddColumnScans
<1>3. CASE EndRow
  BY <1>3, EndRowScans
<1>4. CASE Wait \/ mp1_rtc_tasklet
  <2>1. pc' = "tasklet"
    BY <1>4 DEF Wait, mp1_rtc_tasklet
  <2>. QED
    BY <2>1 DEF Scanned
<1>5. CASE tasklet_end
  <2>1. pc' = "wait" /\ i' = i + 1 /\ i \in Nat
    BY <1>5, Sizes DEF tasklet_end, IInv, Types
  <2>2. i' # 0
    BY <2>1
  <2>. QED
    BY <2>1, <2>2 DEF Scanned
<1>6. CASE Between
  <2>1. pc' \in {"wait", "done"} /\ loop' = loop + 1 /\ loop \in 0..4
    BY <1>6 DEF Between, IInv, Types
  <2>2. loop' # 0
    BY <2>1
  <2>. QED
    BY <2>1, <2>2 DEF Scanned
<1>7. CASE Overrun \/ UNCHANGED vars
  <2>1. UNCHANGED <<frames, file, row, col, blink_array, pc, loop, i>>
    BY <1>7 DEF Overrun, vars
  <2>2. Seen' = Seen /\ Visible' = Visible
    BY <2>1, SameFrames DEF Seen
  <2>3. Collected => Collected'
    BY <2>1, <2>2, CollectedIdle
  <2>4. ASSUME NEW f \in {0, 1} PROVE Scanning(f)' <=> Scanning(f)
    BY <2>1 DEF Scanning
  <2>. QED
    BY <2>1, <2>2, <2>3, <2>4 DEF Scanned
<1>. QED
  BY <1>1, <1>2, <1>3, <1>4, <1>5, <1>6, <1>7 DEF Next, Done

\* When the files have ended every visible position has been seen
LEMMA ScannedFramesAdded == IInv /\ Scanned => FramesAdded
<1> SUFFICES ASSUME IInv, Scanned, pc = "wait" /\ loop = 0 /\ i = 0, Complete
             PROVE  FramesAdded
  BY DEF FramesAdded
<1> DEFINE Location(p) == p[1] * COLS + p[2] + OFFSET
           OnScr == {v \in Visible : Location(v) < SIZE}
           Want(p) == <<Location(p), CharAt(0, p[1], p[2]), CharAt(1, p[1], p[2])>>
           Got(n) == <<blink_array[n].location, blink_array[n].on_char, blink_array[n].off_char>>
           wanted == {Want(p) : p \in OnScr}
           added == {Got(n) : n \in Listed}
<1>1. Collected /\ Seen = Visible
  BY DEF Scanned
<1>2. Listed = Used(blink_array)
  BY IInvListExact DEF ListExact, Used
<1>3. \A n, v : From(blink_array[n], v) <=> Got(n) = Want(v)
  BY DEF From, LocationOf
<1>4. \A n \in Used(blink_array) : blink_array[n].location < SIZE
  <2>1. \A n \in Cells : blink_array[n].location \in 0..SIZE - 1
    BY DEF IInv, Types, Cell
  <2>. QED
    BY <2>1, Sizes DEF Used
<1>5. \A v : Location(v) = LocationOf(v)
  BY DEF LocationOf
<1>6. \A n, v : From(blink_array[n], v) => blink_array[n].location = LocationOf(v)
  BY DEF From
<1>7. /\ \A n \in Used(blink_array) : \E v \in Visible : From(blink_array[n], v)
      /\ Cardinality(Visible) <= SIZE =>
           \A v \in Visible : LocationOf(v) < SIZE =>
             \E n \in Used(blink_array) : From(blink_array[n], v)
  BY <1>1 DEF Collected
<1> HIDE DEF Want, Got, Location
<1>8. added \subseteq wanted
  <2> SUFFICES ASSUME NEW n \in Listed PROVE Got(n) \in wanted
    OBVIOUS
  <2>1. PICK v \in Visible : From(blink_array[n], v)
    BY <1>2, <1>7
  <2>2. Location(v) < SIZE
    BY <1>2, <1>4, <1>5, <1>6, <2>1
  <2>. QED
    BY <1>3, <2>1, <2>2
<1>9. ASSUME Cardinality(Visible) <= SIZE PROVE wanted \subseteq added
  <2> SUFFICES ASSUME NEW v \in Visible, Location(v) < SIZE PROVE Want(v) \in added
    OBVIOUS
  <2>1. PICK n \in Used(blink_array) : From(blink_array[n], v)
    BY <1>5, <1>7, <1>9
  <2>. QED
    BY <1>2, <1>3, <2>1
<1>10. added \subseteq wanted /\ (Cardinality(Visible) <= SIZE => added = wanted)
  BY <1>8, <1>9
<1>. QED
  BY <1>10, Zenon DEF FramesAdded, Want, Got, Location

(***************************************************************************)
(* add_frames adds every position where one of the two frames shows        *)
(* something, with the characters of both, and nothing else: whatever the  *)
(* texts, the lengths of their lines and the file that ends first, as long *)
(* as the blocks of both are there.  Only positions off the screen are     *)
(* left out, and if there are more of them than cells, those that come     *)
(* when no cell is free.                                                   *)
(***************************************************************************)
THEOREM FramesAddedAlways == Spec => []FramesAdded
<1>1. Init => Scanned
  BY InitScanned
<1>2. IInv /\ Scanned /\ [Next]_vars => Scanned'
  BY NextScanned
<1>. QED
  BY <1>1, <1>2, Invariance, ScannedFramesAdded, PTL DEF Spec
=============================================================================
