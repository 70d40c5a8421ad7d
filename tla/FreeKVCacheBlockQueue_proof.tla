--------------------- MODULE FreeKVCacheBlockQueue_proof ---------------------
(***************************************************************************)
(* The linked free list implements the queue of free blocks, for any number *)
(* of blocks. The invariant is that the fields of the blocks make a list    *)
(* (Linked) whose length is counted. Every method cuts a stretch out of the *)
(* list and puts another in its place, either of them empty (Splice), so    *)
(* that one lemma, Spliced, shows that the links are right again. That the  *)
(* loops along next_free_block find that list is an induction over the      *)
(* number of steps (WalkIs), by its least counterexample (LeastNat).        *)
(***************************************************************************)
EXTENDS FreeKVCacheBlockQueue, WellFoundedInduction, TLAPS

-----------------------------------------------------------------------------
(* The inductive invariant.                                                 *)

\* The node at place k of list q, between the fake head at place 0 and the fake
\* tail after the last block.
Place(q, k) ==
  IF k = 0 THEN FakeHead ELSE IF k <= Len(q) THEN q[k] ELSE FakeTail

\* The places are different nodes.
Distinct(q) == \A i, j \in 1 .. Len(q) : q[i] = q[j] => i = j

\* The list that the fields nx and pv make is q.
Linked(q, nx, pv) ==
  /\ q \in Seq(Blocks) /\ Distinct(q)
  /\ nx \in [Nodes -> Nodes \cup {None}] /\ pv \in [Nodes -> Nodes \cup {None}]
  /\ \A k \in 0 .. Len(q) : nx[Place(q, k)] = Place(q, k + 1)
  /\ \A k \in 0 .. Len(q) : pv[Place(q, k + 1)] = Place(q, k)
  /\ nx[FakeTail] = None /\ pv[FakeHead] = None
  /\ \A b \in Blocks : (\A i \in 1 .. Len(q) : q[i] # b) => (nx[b] = None /\ pv[b] = None)

\* The inductive invariant: the fields make a list, of the length counted.
IsList(q) == Linked(q, next_free_block, prev_free_block) /\ num_free_blocks = Len(q)
ListInv == \E q \in Seq(Blocks) : IsList(q)

-----------------------------------------------------------------------------
(* Numbers.                                                                 *)

\* A set of natural numbers has a least element.
LEMMA LeastNat ==
  ASSUME NEW T \in SUBSET Nat, T # {}
  PROVE  \E x \in T : \A y \in T : x <= y
<1>1. PICK x \in T : \A y \in T : ~ (<<y, x>> \in OpToRel(<, Nat))
  BY WFMin, NatLessThanWellFounded
<1>2. ASSUME NEW y \in T PROVE x <= y
  <2>1. ~ (<<y, x>> \in OpToRel(<, Nat))
    BY <1>1
  <2>2. x \in Nat /\ y \in Nat
    OBVIOUS
  <2>3. y < x => <<y, x>> \in OpToRel(<, Nat)
    BY <2>2 DEF OpToRel
  <2>4. ~ (y < x)
    BY <2>1, <2>3, Zenon
  <2> QED BY <2>2, <2>4
<1> QED BY <1>2

\* More than m different numbers are not all below m.
LEMMA Pigeonhole ==
  ASSUME NEW m \in Nat, NEW n \in Nat, NEW f \in [1 .. n -> 0 .. (m - 1)],
         \A i, j \in 1 .. n : f[i] = f[j] => i = j
  PROVE  n <= m
<1> DEFINE Crowded(k) == \E p \in Nat : \E g \in [1 .. p -> 0 .. (k - 1)] :
                           p > k /\ \A i, j \in 1 .. p : g[i] = g[j] => i = j
           T == {k \in Nat : Crowded(k)}
<1> SUFFICES ASSUME n > m
             PROVE  FALSE
  OBVIOUS
<1>1. m \in T
  OBVIOUS
<1>2. PICK k \in T : \A y \in T : k <= y
  <2> HIDE DEF T
  <2>1. T \in SUBSET Nat
    BY DEF T
  <2> QED BY <1>1, <2>1, LeastNat
<1>3a. PICK p \in Nat : \E g \in [1 .. p -> 0 .. (k - 1)] :
         p > k /\ \A i, j \in 1 .. p : g[i] = g[j] => i = j
  BY <1>2
<1>3. PICK g \in [1 .. p -> 0 .. (k - 1)] :
        p > k /\ \A i, j \in 1 .. p : g[i] = g[j] => i = j
  BY <1>3a
<1>4. k \in Nat /\ k # 0
  <2>1. k \in Nat /\ p >= 1
    BY <1>2, <1>3
  <2>2. g[1] \in 0 .. (k - 1)
    BY <1>3, <2>1
  <2> QED BY <2>1, <2>2
<1> DEFINE h == [i \in 1 .. (p - 1) |-> IF g[i] = k - 1 THEN g[p] ELSE g[i]]
<1>5. \A i \in 1 .. (p - 1) : g[i] \in 0 .. (k - 1) /\ g[p] \in 0 .. (k - 1) /\ g[i] # g[p]
  BY <1>3, <1>4
<1>6. h \in [1 .. (p - 1) -> 0 .. (k - 2)]
  BY <1>4, <1>5
<1>7. \A i, j \in 1 .. (p - 1) : h[i] = h[j] => i = j
  BY <1>3, <1>4, <1>5
<1>8. Crowded(k - 1)
  <2> HIDE DEF h
  <2>1. p - 1 \in Nat /\ p - 1 > k - 1 /\ (k - 1) - 1 = k - 2
    BY <1>3, <1>4
  <2> QED BY <1>6, <1>7, <2>1
<1>9. k - 1 \in T
  <2> HIDE DEF Crowded
  <2> QED BY <1>4, <1>8
<1> QED
  <2> HIDE DEF T
  <2> QED BY <1>2, <1>4, <1>9

-----------------------------------------------------------------------------
(* Places.                                                                  *)

\* Blocks and the ends of the list are different.
LEMMA NodeFacts ==
  /\ Blocks \subseteq Nat /\ NumBlocks \in Nat /\ NumBlocks >= 1
  /\ FakeHead \in Nodes /\ FakeTail \in Nodes /\ Blocks \subseteq Nodes
  /\ FakeHead \notin Blocks /\ FakeTail \notin Blocks /\ FakeHead # FakeTail
  /\ None \notin Nodes
  /\ Nodes = Blocks \cup {FakeHead, FakeTail}
BY NumBlocksAssumption DEF Blocks, Nodes, FakeHead, FakeTail, None

\* What is at which place.
LEMMA PlaceIs ==
  ASSUME NEW q \in Seq(Blocks)
  PROVE  /\ Len(q) \in Nat
         /\ Place(q, 0) = FakeHead /\ Place(q, Len(q) + 1) = FakeTail
         /\ \A k \in 1 .. Len(q) : Place(q, k) = q[k] /\ q[k] \in Blocks
         /\ \A k \in 0 .. (Len(q) + 1) : Place(q, k) \in Nodes
BY NodeFacts DEF Place

\* No node is at two places.
LEMMA PlacesDiffer ==
  ASSUME NEW q \in Seq(Blocks), Distinct(q),
         NEW j \in 0 .. (Len(q) + 1), NEW k \in 0 .. (Len(q) + 1),
         Place(q, j) = Place(q, k)
  PROVE  j = k
<1>1. Len(q) \in Nat /\ \A i \in 1 .. Len(q) : q[i] \in Blocks
  OBVIOUS
<1>2. FakeHead \notin Blocks /\ FakeTail \notin Blocks /\ FakeHead # FakeTail
  BY NodeFacts
<1> QED BY <1>1, <1>2 DEF Place, Distinct

\* The list is no longer than there are blocks.
LEMMA ListFits ==
  ASSUME NEW q \in Seq(Blocks), Distinct(q)
  PROVE  Len(q) <= NumBlocks
<1>1. q \in [1 .. Len(q) -> Blocks] /\ Len(q) \in Nat
  OBVIOUS
<1>2. \A i, j \in 1 .. Len(q) : q[i] = q[j] => i = j
  BY DEF Distinct
<1>3. Blocks = 0 .. (NumBlocks - 1) /\ NumBlocks \in Nat
  BY NodeFacts DEF Blocks
<1> QED BY <1>1, <1>2, <1>3, Pigeonhole

-----------------------------------------------------------------------------
(* Walking along the list.                                                  *)

\* Walk meets the places of the list in order, and nothing after the fake tail.
LEMMA WalkIs ==
  ASSUME NEW q \in Seq(Blocks), Linked(q, next_free_block, prev_free_block)
  PROVE  \A k \in 0 .. (NumBlocks + 1) :
           Walk[k] = IF k <= Len(q) + 1 THEN Place(q, k) ELSE None
<1> DEFINE D == 0 .. (NumBlocks + 1)
           W(k) == IF k <= Len(q) + 1 THEN Place(q, k) ELSE None
           After(f, k) == IF k = 0 THEN FakeHead
                          ELSE IF f[k - 1] = None THEN None ELSE next_free_block[f[k - 1]]
           w == [k \in D |-> W(k)]
<1>1. /\ Len(q) \in Nat /\ Distinct(q)
      /\ Place(q, 0) = FakeHead /\ Place(q, Len(q) + 1) = FakeTail
      /\ \A k \in 0 .. (Len(q) + 1) : Place(q, k) # None
      /\ next_free_block[FakeTail] = None
      /\ \A k \in 0 .. Len(q) : next_free_block[Place(q, k)] = Place(q, k + 1)
  BY PlaceIs, NodeFacts DEF Linked
<1>2. NumBlocks \in Nat
  BY NodeFacts
<1>3. \A k \in D : k # 0 => W(k) = IF W(k - 1) = None THEN None ELSE next_free_block[W(k - 1)]
  <2> SUFFICES ASSUME NEW k \in D, k # 0
               PROVE  W(k) = IF W(k - 1) = None THEN None ELSE next_free_block[W(k - 1)]
    OBVIOUS
  <2>1. k \in Nat /\ k - 1 \in Nat /\ (k - 1) + 1 = k
    BY <1>2
  <2>2. CASE k <= Len(q) + 1
    BY <1>1, <2>1, <2>2
  <2>3. CASE k = Len(q) + 2
    BY <1>1, <2>1, <2>3
  <2>4. CASE k > Len(q) + 2
    BY <1>1, <2>1, <2>4
  <2> QED BY <1>1, <2>1, <2>2, <2>3, <2>4
<1>4. W(0) = FakeHead
  BY <1>1
<1>5. w = [k \in D |-> After(w, k)]
  <2> HIDE DEF W
  <2>1. \A k \in D : w[k] = After(w, k)
    <3> SUFFICES ASSUME NEW k \in D
                 PROVE  w[k] = After(w, k)
      OBVIOUS
    <3>1. k = 0 \/ k - 1 \in D
      BY <1>2
    <3> QED BY <1>3, <1>4, <3>1
  <2> QED BY <2>1
<1>6. Walk = [k \in D |-> After(Walk, k)]
  <2> HIDE DEF w
  <2> QED BY <1>5 DEF Walk
<1>7. \A k \in D : Walk[k] = W(k)
  <2> DEFINE T == {k \in D : Walk[k] # W(k)}
  <2> SUFFICES ASSUME T # {}
               PROVE  FALSE
    <3> HIDE DEF W
    <3> QED OBVIOUS
  <2>1. PICK k \in T : \A y \in T : k <= y
    <3> HIDE DEF T
    <3>1. T \in SUBSET Nat
      BY <1>2 DEF T
    <3> QED BY <3>1, LeastNat
  <2> HIDE DEF W
  <2>2. k \in D /\ k \in Nat /\ Walk[k] # W(k)
    BY <1>2, <2>1
  <2>3. Walk[k] = After(Walk, k)
    <3> HIDE DEF After
    <3>1. \A f : f = [i \in D |-> After(Walk, i)] => f[k] = After(Walk, k)
      BY <2>2
    <3> QED BY <1>6, <3>1
  <2>4. k # 0
    BY <1>4, <2>2, <2>3
  <2>5. k - 1 \in D
    BY <1>2, <2>2, <2>4
  <2>6. Walk[k - 1] = W(k - 1)
    BY <2>1, <2>2, <2>5
  <2> QED BY <1>3, <2>2, <2>3, <2>4, <2>6
<1> QED BY <1>7

\* What get_all_free_blocks finds is the list.
LEMMA ListFound ==
  ASSUME NEW q \in Seq(Blocks), Linked(q, next_free_block, prev_free_block)
  PROVE  get_all_free_blocks = q
<1>1. Len(q) \in Nat /\ Distinct(q) /\ NumBlocks \in Nat /\ Len(q) <= NumBlocks
  BY ListFits, NodeFacts DEF Linked
<1>2. \A k \in 1 .. Len(q) : Walk[k] = q[k] /\ Walk[k] \in Blocks
  BY <1>1, WalkIs, PlaceIs
<1>3. Walk[Len(q) + 1] = FakeTail /\ FakeTail \notin Blocks
  BY <1>1, WalkIs, PlaceIs, NodeFacts
<1> DEFINE IsEnd(k) == Walk[k + 1] \notin Blocks /\ \A j \in 1 .. k : Walk[j] \in Blocks
           last == CHOOSE k \in 0 .. NumBlocks : IsEnd(k)
<1>4. IsEnd(Len(q)) /\ Len(q) \in 0 .. NumBlocks
  BY <1>1, <1>2, <1>3
<1>5. \A k \in 0 .. NumBlocks : IsEnd(k) => k = Len(q)
  <2> SUFFICES ASSUME NEW k \in 0 .. NumBlocks, IsEnd(k)
               PROVE  k = Len(q)
    OBVIOUS
  <2>1. ~ (k > Len(q))
    BY <1>1, <1>3
  <2>2. ~ (k < Len(q))
    BY <1>1, <1>2
  <2> QED BY <1>1, <2>1, <2>2
<1>6. last = Len(q)
  <2> HIDE DEF IsEnd
  <2> QED BY <1>4, <1>5
<1>7. [k \in 1 .. last |-> Walk[k]] = q
  <2> HIDE DEF last
  <2>1. q = [k \in 1 .. Len(q) |-> q[k]]
    OBVIOUS
  <2> QED BY <1>2, <1>6, <2>1
<1> QED BY <1>7 DEF get_all_free_blocks
-----------------------------------------------------------------------------
(* Every method takes out the blocks between two places of the list and puts *)
(* others there: none are taken out by append and prepend, none are put there *)
(* by popleft and remove.                                                    *)

\* r is q with s in the place of the blocks after place i, up to place j.
Splice(q, i, j, s, r) ==
  /\ r \in Seq(Blocks) /\ Len(r) = Len(q) - (j - i) + Len(s)
  /\ \A k \in 1 .. i : r[k] = q[k]
  /\ \A k \in 1 .. Len(s) : r[i + k] = s[k]
  /\ \A k \in (j + 1) .. Len(q) : r[k - (j - i) + Len(s)] = q[k]

\* The nodes that are linked for it.
Bridge(q, i, j, s, k) ==
  IF k = 0 THEN Place(q, i) ELSE IF k <= Len(s) THEN s[k] ELSE Place(q, j + 1)

\* What becomes of the fields nx and pv.
Relinked(q, i, j, s, nx, pv, nx1, pv1) ==
  /\ nx1 \in [Nodes -> Nodes \cup {None}] /\ pv1 \in [Nodes -> Nodes \cup {None}]
  /\ \A k \in 0 .. Len(s) : nx1[Bridge(q, i, j, s, k)] = Bridge(q, i, j, s, k + 1)
  /\ \A k \in 0 .. Len(s) : pv1[Bridge(q, i, j, s, k + 1)] = Bridge(q, i, j, s, k)
  /\ \A k \in (i + 1) .. j : nx1[q[k]] = None /\ pv1[q[k]] = None
  /\ \A x \in Nodes :
       /\ \A k \in 1 .. Len(s) : x # s[k]
       /\ \A k \in (i + 1) .. j : x # q[k]
       => /\ x # Place(q, i) => nx1[x] = nx[x]
          /\ x # Place(q, j + 1) => pv1[x] = pv[x]

\* The blocks of s are not in q.
Apart(q, s) == \A k \in 1 .. Len(q), m \in 1 .. Len(s) : q[k] # s[m]

\* Where the nodes of the spliced list come from.
Origin(q, i, j, s, r) ==
  /\ \A k \in 0 .. i : Place(r, k) = Place(q, k)
  /\ \A k \in 0 .. (Len(s) + 1) : Place(r, i + k) = Bridge(q, i, j, s, k)
  /\ \A k \in (j + 1) .. (Len(q) + 1) : Place(r, k - (j - i) + Len(s)) = Place(q, k)

LEMMA SplicedPlaces ==
  ASSUME NEW q \in Seq(Blocks), NEW s \in Seq(Blocks), NEW r,
         NEW i \in 0 .. Len(q), NEW j \in i .. Len(q), Splice(q, i, j, s, r)
  PROVE  Origin(q, i, j, s, r)
<1>1. /\ Len(q) \in Nat /\ Len(s) \in Nat /\ i \in Nat /\ j \in Nat /\ i <= j /\ j <= Len(q)
      /\ r \in Seq(Blocks) /\ Len(r) = Len(q) - (j - i) + Len(s)
  BY DEF Splice
<1>2. \A k \in 0 .. i : Place(r, k) = Place(q, k)
  BY <1>1 DEF Splice, Place
<1>3. \A k \in (j + 1) .. (Len(q) + 1) : Place(r, k - (j - i) + Len(s)) = Place(q, k)
  <2> SUFFICES ASSUME NEW k \in (j + 1) .. (Len(q) + 1)
               PROVE  Place(r, k - (j - i) + Len(s)) = Place(q, k)
    OBVIOUS
  <2>1. k \in Nat /\ k - (j - i) + Len(s) \in Nat /\ k - (j - i) + Len(s) # 0 /\ k # 0
    BY <1>1
  <2>2. CASE k = Len(q) + 1
    BY <1>1, <2>1, <2>2 DEF Place
  <2>3. CASE k # Len(q) + 1
    <3>1. k <= Len(q) /\ k - (j - i) + Len(s) <= Len(r) /\ k \in (j + 1) .. Len(q)
      BY <1>1, <2>1, <2>3
    <3>2. r[k - (j - i) + Len(s)] = q[k]
      BY <3>1 DEF Splice
    <3> QED BY <2>1, <3>1, <3>2 DEF Place
  <2> QED BY <2>2, <2>3
<1>4. \A k \in 0 .. (Len(s) + 1) : Place(r, i + k) = Bridge(q, i, j, s, k)
  <2> SUFFICES ASSUME NEW k \in 0 .. (Len(s) + 1)
               PROVE  Place(r, i + k) = Bridge(q, i, j, s, k)
    OBVIOUS
  <2>1. CASE k = 0
    <3>1. i + k = i /\ i \in 0 .. i
      BY <1>1, <2>1
    <3> QED BY <1>2, <2>1, <3>1 DEF Bridge
  <2>2. CASE k \in 1 .. Len(s)
    <3>1. r[i + k] = s[k]
      BY <2>2 DEF Splice
    <3>2. i + k # 0 /\ i + k <= Len(r) /\ k # 0 /\ k <= Len(s)
      BY <1>1, <2>2
    <3> QED BY <3>1, <3>2 DEF Bridge, Place
  <2>3. CASE k = Len(s) + 1
    <3>1. j + 1 \in (j + 1) .. (Len(q) + 1) /\ (j + 1) - (j - i) + Len(s) = i + k
      BY <1>1, <2>3
    <3>2. k # 0 /\ ~ (k <= Len(s))
      BY <1>1, <2>3
    <3> QED BY <1>3, <3>1, <3>2 DEF Bridge
  <2> QED BY <1>1, <2>1, <2>2, <2>3
<1> QED BY <1>2, <1>3, <1>4 DEF Origin
\* Nothing is in the spliced list twice.
LEMMA SplicedDistinct ==
  ASSUME NEW q \in Seq(Blocks), NEW s \in Seq(Blocks), NEW r,
         NEW i \in 0 .. Len(q), NEW j \in i .. Len(q), Splice(q, i, j, s, r),
         Distinct(q), Distinct(s), Apart(q, s)
  PROVE  Distinct(r)
<1>1. /\ Len(q) \in Nat /\ Len(s) \in Nat /\ i \in Nat /\ j \in Nat /\ i <= j /\ j <= Len(q)
      /\ r \in Seq(Blocks) /\ Len(r) = Len(q) - (j - i) + Len(s)
  BY DEF Splice
<1> DEFINE FromQ(a, m) == m \in 1 .. Len(q) /\ r[a] = q[m]
           FromS(a, m) == m \in 1 .. Len(s) /\ a = i + m /\ r[a] = s[m]
<1>2. ASSUME NEW a \in 1 .. Len(r)
      PROVE  \/ a <= i /\ FromQ(a, a)
             \/ \E m \in Nat : FromS(a, m)
             \/ \E m \in Nat : m > j /\ a = m - (j - i) + Len(s) /\ FromQ(a, m)
  <2>1. CASE a <= i
    BY <1>1, <2>1 DEF Splice
  <2>2. CASE i < a /\ a <= i + Len(s)
    <3>1. a - i \in 1 .. Len(s) /\ a = i + (a - i) /\ a - i \in Nat
      BY <1>1, <2>2
    <3>2. r[i + (a - i)] = s[a - i]
      BY <3>1 DEF Splice
    <3>3. FromS(a, a - i)
      BY <3>1, <3>2
    <3> QED BY <3>1, <3>3
  <2>3. CASE a > i + Len(s)
    <3>1. PICK m : m = a - Len(s) + (j - i)
      OBVIOUS
    <3>2. m \in (j + 1) .. Len(q) /\ a = m - (j - i) + Len(s) /\ m > j /\ m \in 1 .. Len(q)
      BY <1>1, <2>3, <3>1
    <3>3. r[a] = q[m]
      BY <3>2 DEF Splice
    <3>4. m \in Nat
      BY <1>1, <3>2
    <3> QED BY <3>2, <3>3, <3>4
  <2> QED BY <1>1, <2>1, <2>2, <2>3
<1> SUFFICES ASSUME NEW a \in 1 .. Len(r), NEW b \in 1 .. Len(r), r[a] = r[b]
             PROVE  a = b
  BY DEF Distinct
<1>3. \A m, n : FromQ(a, m) /\ FromQ(b, n) => m = n
  BY DEF Distinct
<1>4. \A m, n : FromS(a, m) /\ FromS(b, n) => a = b
  BY DEF Distinct
<1>5. \A m, n : ~ (FromQ(a, m) /\ FromS(b, n)) /\ ~ (FromS(a, m) /\ FromQ(b, n))
  BY DEF Apart
<1>6. a \in Nat /\ b \in Nat
  BY <1>1
<1> HIDE DEF FromQ, FromS
<1>7. CASE a <= i /\ FromQ(a, a)
  <2>1. b <= i /\ FromQ(b, b) => a = b
    BY <1>3, <1>7
  <2>2. \A m \in Nat : ~ (m > j /\ FromQ(b, m))
    BY <1>1, <1>3, <1>6, <1>7
  <2> QED BY <1>2, <1>5, <1>7, <2>1, <2>2
<1>8. ASSUME NEW m, FromS(a, m)
      PROVE  a = b
  BY <1>2, <1>4, <1>5, <1>8
<1>9. ASSUME NEW m \in Nat, m > j, a = m - (j - i) + Len(s), FromQ(a, m)
      PROVE  a = b
  <2>1. ~ (b <= i /\ FromQ(b, b))
    BY <1>1, <1>3, <1>6, <1>9
  <2>2. \A n \in Nat : b = n - (j - i) + Len(s) /\ FromQ(b, n) => a = b
    BY <1>3, <1>9
  <2> QED BY <1>2, <1>5, <1>9, <2>1, <2>2
<1> QED BY <1>2, <1>7, <1>8, <1>9

\* Splicing a list and linking the ends makes the spliced list.
LEMMA Spliced ==
  ASSUME NEW q \in Seq(Blocks), NEW s \in Seq(Blocks), NEW r, NEW nx, NEW pv, NEW nx1, NEW pv1,
         NEW i \in 0 .. Len(q), NEW j \in i .. Len(q), Splice(q, i, j, s, r),
         Linked(q, nx, pv), Distinct(s), Apart(q, s),
         Relinked(q, i, j, s, nx, pv, nx1, pv1)
  PROVE  Linked(r, nx1, pv1)
<1>1. /\ Len(q) \in Nat /\ Len(s) \in Nat /\ i \in Nat /\ j \in Nat /\ i <= j /\ j <= Len(q)
      /\ r \in Seq(Blocks) /\ Len(r) \in Nat /\ Len(r) = Len(q) - (j - i) + Len(s)
  BY DEF Splice
<1>2. Distinct(q)
  BY DEF Linked
<1>3. Distinct(r)
  BY <1>2, SplicedDistinct
<1>0. Origin(q, i, j, s, r)
  BY SplicedPlaces
<1>4. \A k \in 0 .. i : Place(r, k) = Place(q, k)
  BY <1>0 DEF Origin
<1>5. \A k \in 0 .. (Len(s) + 1) : Place(r, i + k) = Bridge(q, i, j, s, k)
  BY <1>0 DEF Origin
<1>6. \A k \in (j + 1) .. (Len(q) + 1) : Place(r, k - (j - i) + Len(s)) = Place(q, k)
  BY <1>0 DEF Origin
\* A node at a place of q that stays there has its old links but to the bridge.
<1>7. ASSUME NEW k \in 0 .. (Len(q) + 1), k <= i \/ k > j
      PROVE  /\ Place(q, k) \in Nodes
             /\ \A m \in 1 .. Len(s) : Place(q, k) # s[m]
             /\ \A m \in (i + 1) .. j : Place(q, k) # q[m]
  <2>1. Place(q, k) \in Nodes
    BY PlaceIs
  <2>2. \A m \in 1 .. Len(s) : Place(q, k) # s[m]
    <3>1. \A m \in 1 .. Len(s) : s[m] \in Blocks
      OBVIOUS
    <3> QED BY <1>1, <3>1, NodeFacts DEF Place, Apart
  <2>3. ASSUME NEW m \in (i + 1) .. j
        PROVE  Place(q, k) # q[m]
    <3>1. m \in 1 .. Len(q) /\ m \in 0 .. (Len(q) + 1) /\ m # k
      BY <1>1, <1>7
    <3>2. Place(q, m) = q[m]
      BY <3>1, PlaceIs
    <3> QED BY <1>2, <3>1, <3>2, PlacesDiffer
  <2> QED BY <2>1, <2>2, <2>3
<1>8. ASSUME NEW k \in 0 .. Len(r)
      PROVE  nx1[Place(r, k)] = Place(r, k + 1) /\ pv1[Place(r, k + 1)] = Place(r, k)
  <2>1. CASE k < i
    <3>1. k \in 0 .. i /\ k + 1 \in 0 .. i /\ k \in 0 .. Len(q) /\ k + 1 <= i /\ k <= i
      BY <1>1, <2>1
    <3>2. k \in 0 .. (Len(q) + 1) /\ k + 1 \in 0 .. (Len(q) + 1)
          /\ i \in 0 .. (Len(q) + 1) /\ j + 1 \in 0 .. (Len(q) + 1) /\ k # i /\ k + 1 # j + 1
      BY <1>1, <2>1
    <3>3. Place(q, k) # Place(q, i) /\ Place(q, k + 1) # Place(q, j + 1)
      BY <1>2, <3>2, PlacesDiffer
    <3>4. nx1[Place(q, k)] = nx[Place(q, k)]
      BY <1>7, <3>1, <3>2, <3>3 DEF Relinked
    <3>5. pv1[Place(q, k + 1)] = pv[Place(q, k + 1)]
      BY <1>7, <3>1, <3>2, <3>3 DEF Relinked
    <3> QED BY <1>4, <3>1, <3>4, <3>5 DEF Linked
  <2>2. CASE i <= k /\ k <= i + Len(s)
    <3>1. PICK m \in 0 .. Len(s) : k = i + m /\ k + 1 = i + (m + 1) /\ m \in 0 .. (Len(s) + 1)
                                  /\ m + 1 \in 0 .. (Len(s) + 1)
      <4>1. k - i \in 0 .. Len(s) /\ k = i + (k - i) /\ k + 1 = i + ((k - i) + 1)
        BY <1>1, <2>2
      <4>2. k - i \in 0 .. (Len(s) + 1) /\ (k - i) + 1 \in 0 .. (Len(s) + 1)
        BY <1>1, <4>1
      <4> QED BY <4>1, <4>2
    <3> QED BY <1>5, <3>1 DEF Relinked
  <2>3. CASE k > i + Len(s)
    <3>1. PICK m : m = k - Len(s) + (j - i)
      OBVIOUS
    <3>2. m \in (j + 1) .. Len(q) /\ k = m - (j - i) + Len(s)
          /\ k + 1 = (m + 1) - (j - i) + Len(s) /\ m \in 0 .. Len(q)
          /\ m \in (j + 1) .. (Len(q) + 1) /\ m + 1 \in (j + 1) .. (Len(q) + 1)
      BY <1>1, <2>3, <3>1
    <3>3. m \in 0 .. (Len(q) + 1) /\ m + 1 \in 0 .. (Len(q) + 1) /\ m > j /\ m + 1 > j
          /\ i \in 0 .. (Len(q) + 1) /\ j + 1 \in 0 .. (Len(q) + 1) /\ m # i /\ m + 1 # j + 1
      BY <1>1, <3>2
    <3>4. Place(q, m) # Place(q, i) /\ Place(q, m + 1) # Place(q, j + 1)
      BY <1>2, <3>3, PlacesDiffer
    <3>5. nx1[Place(q, m)] = nx[Place(q, m)]
      BY <1>7, <3>3, <3>4 DEF Relinked
    <3>6. pv1[Place(q, m + 1)] = pv[Place(q, m + 1)]
      BY <1>7, <3>3, <3>4 DEF Relinked
    <3>7. Place(r, k) = Place(q, m) /\ Place(r, k + 1) = Place(q, m + 1)
      BY <1>6, <3>2
    <3> QED BY <3>2, <3>5, <3>6, <3>7 DEF Linked
  <2> QED BY <1>1, <2>1, <2>2, <2>3
<1>9. nx1[FakeTail] = None /\ pv1[FakeHead] = None
  <2>1. 0 \in 0 .. (Len(q) + 1) /\ Len(q) + 1 \in 0 .. (Len(q) + 1) /\ Len(q) + 1 > j
        /\ 0 <= i /\ i \in 0 .. (Len(q) + 1) /\ j + 1 \in 0 .. (Len(q) + 1)
        /\ i # Len(q) + 1 /\ j + 1 # 0
    BY <1>1
  <2>2. Place(q, 0) = FakeHead /\ Place(q, Len(q) + 1) = FakeTail
    BY PlaceIs
  <2>3. FakeTail # Place(q, i) /\ FakeHead # Place(q, j + 1)
    BY <1>2, <2>1, <2>2, PlacesDiffer
  <2>4. nx1[FakeTail] = nx[FakeTail]
    BY <1>7, <2>1, <2>2, <2>3 DEF Relinked
  <2>5. pv1[FakeHead] = pv[FakeHead]
    BY <1>7, <2>1, <2>2, <2>3 DEF Relinked
  <2> QED BY <2>4, <2>5 DEF Linked
<1>10. ASSUME NEW b \in Blocks, \A k \in 1 .. Len(r) : r[k] # b
       PROVE  nx1[b] = None /\ pv1[b] = None
  <2>1. \A k \in 1 .. Len(s) : b # s[k]
    <3> SUFFICES ASSUME NEW k \in 1 .. Len(s)
                 PROVE  b # s[k]
      OBVIOUS
    <3>1. r[i + k] = s[k] /\ i + k \in 1 .. Len(r)
      BY <1>1 DEF Splice
    <3> QED BY <1>10, <3>1
  <2>2. \A k \in 1 .. i : b # q[k]
    <3> SUFFICES ASSUME NEW k \in 1 .. i
                 PROVE  b # q[k]
      OBVIOUS
    <3>1. r[k] = q[k] /\ k \in 1 .. Len(r)
      BY <1>1 DEF Splice
    <3> QED BY <1>10, <3>1
  <2>3. \A k \in (j + 1) .. Len(q) : b # q[k]
    <3> SUFFICES ASSUME NEW k \in (j + 1) .. Len(q)
                 PROVE  b # q[k]
      OBVIOUS
    <3>1. r[k - (j - i) + Len(s)] = q[k] /\ k - (j - i) + Len(s) \in 1 .. Len(r)
      BY <1>1 DEF Splice
    <3> QED BY <1>10, <3>1
  <2>4. CASE \E k \in (i + 1) .. j : b = q[k]
    BY <2>4 DEF Relinked
  <2>5. CASE \A k \in (i + 1) .. j : b # q[k]
    <3>1. \A k \in 1 .. Len(q) : q[k] # b
      BY <1>1, <2>2, <2>3, <2>5
    <3>2. b # Place(q, i) /\ b # Place(q, j + 1) /\ b \in Nodes
      BY <1>1, <3>1, NodeFacts DEF Place
    <3>3. nx1[b] = nx[b] /\ pv1[b] = pv[b]
      BY <2>1, <2>5, <3>2 DEF Relinked
    <3> QED BY <3>1, <3>3 DEF Linked
  <2> QED BY <2>4, <2>5
<1>11. nx1 \in [Nodes -> Nodes \cup {None}] /\ pv1 \in [Nodes -> Nodes \cup {None}]
  BY DEF Relinked
<1> QED BY <1>1, <1>3, <1>8, <1>9, <1>10, <1>11 DEF Linked
-----------------------------------------------------------------------------
(* What LinkNext and LinkPrev do.                                           *)

\* Along a chain of different nodes every next_free_block is set, and no other.
LEMMA LinkNextIs ==
  ASSUME NEW c \in Seq(Nodes), Distinct(c),
         next_free_block \in [Nodes -> Nodes \cup {None}]
  PROVE  /\ LinkNext(c) \in [Nodes -> Nodes \cup {None}]
         /\ \A k \in 1 .. (Len(c) - 1) : LinkNext(c)[c[k]] = c[k + 1]
         /\ \A x \in Nodes : (\A k \in 1 .. (Len(c) - 1) : c[k] # x) =>
              LinkNext(c)[x] = next_free_block[x]
<1> DEFINE D == 1 .. (Len(c) - 1)
           Of(x) == CHOOSE k \in D : c[k] = x
<1>1. Len(c) \in Nat /\ \A k \in 1 .. Len(c) : c[k] \in Nodes
  OBVIOUS
<1>2. \A k \in D : k \in 1 .. Len(c) /\ k + 1 \in 1 .. Len(c)
  BY <1>1
<1>3. \A x \in Nodes : (\E k \in D : c[k] = x) => (Of(x) \in D /\ c[Of(x)] = x)
  OBVIOUS
<1>4. \A k \in D : Of(c[k]) = k
  <2> SUFFICES ASSUME NEW k \in D
               PROVE  Of(c[k]) = k
    OBVIOUS
  <2>1. c[k] \in Nodes
    BY <1>1, <1>2
  <2>2. Of(c[k]) \in D /\ c[Of(c[k])] = c[k]
    BY <1>3, <2>1
  <2> HIDE DEF Of
  <2> QED BY <1>2, <2>2 DEF Distinct
<1>5. LinkNext(c) = [x \in Nodes |-> IF \E k \in D : c[k] = x THEN c[Of(x) + 1]
                                     ELSE next_free_block[x]]
  BY DEF LinkNext
<1> HIDE DEF Of
<1>6. \A x \in Nodes : (\E k \in D : c[k] = x) => c[Of(x) + 1] \in Nodes
  BY <1>1, <1>2, <1>3
<1>7. LinkNext(c) \in [Nodes -> Nodes \cup {None}]
  BY <1>5, <1>6
<1>8. \A k \in D : LinkNext(c)[c[k]] = c[k + 1]
  <2> SUFFICES ASSUME NEW k \in D
               PROVE  LinkNext(c)[c[k]] = c[k + 1]
    OBVIOUS
  <2>1. c[k] \in Nodes
    BY <1>1, <1>2
  <2> QED BY <1>4, <1>5, <2>1
<1>9. \A x \in Nodes : (\A k \in D : c[k] # x) => LinkNext(c)[x] = next_free_block[x]
  BY <1>5
<1> QED BY <1>7, <1>8, <1>9

\* Likewise every prev_free_block.
LEMMA LinkPrevIs ==
  ASSUME NEW c \in Seq(Nodes), Distinct(c),
         prev_free_block \in [Nodes -> Nodes \cup {None}]
  PROVE  /\ LinkPrev(c) \in [Nodes -> Nodes \cup {None}]
         /\ \A k \in 2 .. Len(c) : LinkPrev(c)[c[k]] = c[k - 1]
         /\ \A x \in Nodes : (\A k \in 2 .. Len(c) : c[k] # x) =>
              LinkPrev(c)[x] = prev_free_block[x]
<1> DEFINE D == 2 .. Len(c)
           Of(x) == CHOOSE k \in D : c[k] = x
<1>1. Len(c) \in Nat /\ \A k \in 1 .. Len(c) : c[k] \in Nodes
  OBVIOUS
<1>2. \A k \in D : k \in 1 .. Len(c) /\ k - 1 \in 1 .. Len(c)
  BY <1>1
<1>3. \A x \in Nodes : (\E k \in D : c[k] = x) => (Of(x) \in D /\ c[Of(x)] = x)
  OBVIOUS
<1>4. \A k \in D : Of(c[k]) = k
  <2> SUFFICES ASSUME NEW k \in D
               PROVE  Of(c[k]) = k
    OBVIOUS
  <2>1. c[k] \in Nodes
    BY <1>1, <1>2
  <2>2. Of(c[k]) \in D /\ c[Of(c[k])] = c[k]
    BY <1>3, <2>1
  <2> HIDE DEF Of
  <2> QED BY <1>2, <2>2 DEF Distinct
<1>5. LinkPrev(c) = [x \in Nodes |-> IF \E k \in D : c[k] = x THEN c[Of(x) - 1]
                                     ELSE prev_free_block[x]]
  BY DEF LinkPrev
<1> HIDE DEF Of
<1>6. \A x \in Nodes : (\E k \in D : c[k] = x) => c[Of(x) - 1] \in Nodes
  BY <1>1, <1>2, <1>3
<1>7. LinkPrev(c) \in [Nodes -> Nodes \cup {None}]
  BY <1>5, <1>6
<1>8. \A k \in D : LinkPrev(c)[c[k]] = c[k - 1]
  <2> SUFFICES ASSUME NEW k \in D
               PROVE  LinkPrev(c)[c[k]] = c[k - 1]
    OBVIOUS
  <2>1. c[k] \in Nodes
    BY <1>1, <1>2
  <2> QED BY <1>4, <1>5, <2>1
<1>9. \A x \in Nodes : (\A k \in D : c[k] # x) => LinkPrev(c)[x] = prev_free_block[x]
  BY <1>5
<1> QED BY <1>7, <1>8, <1>9
\* A chain of nodes.
LEMMA ChainOf ==
  ASSUME NEW s \in Seq(Nodes), NEW a \in Nodes, NEW z \in Nodes
  PROVE  /\ <<a>> \o s \o <<z>> \in Seq(Nodes)
         /\ Len(<<a>> \o s \o <<z>>) = Len(s) + 2
         /\ \A k \in 0 .. (Len(s) + 1) : (<<a>> \o s \o <<z>>)[k + 1] =
              IF k = 0 THEN a ELSE IF k <= Len(s) THEN s[k] ELSE z
OBVIOUS

\* The nodes of a bridge are different.
LEMMA BridgeIs ==
  ASSUME NEW q \in Seq(Blocks), Distinct(q), NEW s \in Seq(Blocks), Distinct(s), Apart(q, s),
         NEW i \in 0 .. Len(q), NEW j \in i .. Len(q)
  PROVE  /\ \A k \in 0 .. (Len(s) + 1) : Bridge(q, i, j, s, k) \in Nodes
         /\ \A k, m \in 0 .. (Len(s) + 1) :
              Bridge(q, i, j, s, k) = Bridge(q, i, j, s, m) => k = m
<1>1. /\ Len(q) \in Nat /\ Len(s) \in Nat /\ i \in Nat /\ j \in Nat
      /\ i \in 0 .. (Len(q) + 1) /\ j + 1 \in 0 .. (Len(q) + 1) /\ i # j + 1
  OBVIOUS
<1>2. Place(q, i) \in Nodes /\ Place(q, j + 1) \in Nodes
  BY <1>1, PlaceIs
<1>3. Place(q, i) # Place(q, j + 1)
  BY <1>1, PlacesDiffer
<1>4. \A k \in 1 .. Len(s) : s[k] \in Blocks /\ s[k] \in Nodes
  BY NodeFacts
<1>5. \A k \in 1 .. Len(s) : s[k] # Place(q, i) /\ s[k] # Place(q, j + 1)
  BY <1>1, <1>4, NodeFacts DEF Place, Apart
<1>6. \A k, m \in 1 .. Len(s) : s[k] = s[m] => k = m
  BY DEF Distinct
<1>7. \A k \in 0 .. (Len(s) + 1) : Bridge(q, i, j, s, k) \in Nodes
  BY <1>1, <1>2, <1>4 DEF Bridge
<1>8. \A k, m \in 0 .. (Len(s) + 1) :
        Bridge(q, i, j, s, k) = Bridge(q, i, j, s, m) => k = m
  BY <1>1, <1>3, <1>5, <1>6 DEF Bridge
<1> QED BY <1>7, <1>8

\* c lists the nodes of a bridge.
Spans(c, q, i, j, s) ==
  /\ c \in Seq(Nodes) /\ Len(c) = Len(s) + 2
  /\ \A k \in 0 .. (Len(s) + 1) : c[k + 1] = Bridge(q, i, j, s, k)

\* Linking the nodes of a bridge.
BridgeLinks(c, q, i, j, s) ==
  /\ LinkNext(c) \in [Nodes -> Nodes \cup {None}]
  /\ LinkPrev(c) \in [Nodes -> Nodes \cup {None}]
  /\ \A k \in 0 .. Len(s) :
       /\ LinkNext(c)[Bridge(q, i, j, s, k)] = Bridge(q, i, j, s, k + 1)
       /\ LinkPrev(c)[Bridge(q, i, j, s, k + 1)] = Bridge(q, i, j, s, k)
  /\ \A x \in Nodes : (\A k \in 1 .. Len(s) : x # s[k]) =>
       /\ x # Place(q, i) => LinkNext(c)[x] = next_free_block[x]
       /\ x # Place(q, j + 1) => LinkPrev(c)[x] = prev_free_block[x]

LEMMA BridgeLinked ==
  ASSUME NEW q \in Seq(Blocks), Linked(q, next_free_block, prev_free_block),
         NEW s \in Seq(Blocks), Distinct(s), Apart(q, s),
         NEW i \in 0 .. Len(q), NEW j \in i .. Len(q), NEW c, Spans(c, q, i, j, s)
  PROVE  BridgeLinks(c, q, i, j, s)
<1> DEFINE B(k) == Bridge(q, i, j, s, k)
<1>1. /\ Distinct(q) /\ Len(s) \in Nat /\ c \in Seq(Nodes) /\ Len(c) = Len(s) + 2
      /\ next_free_block \in [Nodes -> Nodes \cup {None}]
      /\ prev_free_block \in [Nodes -> Nodes \cup {None}]
      /\ \A k \in 0 .. (Len(s) + 1) : c[k + 1] = B(k)
  BY DEF Linked, Spans
<1>2. \A k, m \in 0 .. (Len(s) + 1) : B(k) = B(m) => k = m
  BY <1>1, BridgeIs
<1>3. /\ B(0) = Place(q, i) /\ B(Len(s) + 1) = Place(q, j + 1)
      /\ \A k \in 1 .. Len(s) : B(k) = s[k]
  BY <1>1 DEF Bridge
<1> HIDE DEF B
<1>4. \A k \in 1 .. Len(c) : c[k] = B(k - 1) /\ k - 1 \in 0 .. (Len(s) + 1)
  BY <1>1
<1>5. Distinct(c)
  BY <1>1, <1>2, <1>4 DEF Distinct
<1>6. /\ LinkNext(c) \in [Nodes -> Nodes \cup {None}]
      /\ LinkPrev(c) \in [Nodes -> Nodes \cup {None}]
  BY <1>1, <1>5, LinkNextIs, LinkPrevIs
<1>7. ASSUME NEW k \in 0 .. Len(s)
      PROVE  LinkNext(c)[B(k)] = B(k + 1) /\ LinkPrev(c)[B(k + 1)] = B(k)
  <2>1. c[k + 1] = B(k) /\ c[k + 2] = B(k + 1)
    <3>1. k \in 0 .. (Len(s) + 1) /\ k + 1 \in 0 .. (Len(s) + 1) /\ (k + 1) + 1 = k + 2
      BY <1>1
    <3> QED BY <1>1, <3>1
  <2>2. k + 1 \in 1 .. (Len(c) - 1) /\ (k + 1) + 1 = k + 2
        /\ k + 2 \in 2 .. Len(c) /\ (k + 2) - 1 = k + 1
    BY <1>1
  <2>3. LinkNext(c)[c[k + 1]] = c[k + 2]
    BY <1>1, <1>5, <2>2, LinkNextIs
  <2>4. LinkPrev(c)[c[k + 2]] = c[k + 1]
    BY <1>1, <1>5, <2>2, LinkPrevIs
  <2> QED BY <2>1, <2>3, <2>4
<1>8. ASSUME NEW x \in Nodes, \A k \in 1 .. Len(s) : x # s[k]
      PROVE  /\ x # Place(q, i) => LinkNext(c)[x] = next_free_block[x]
             /\ x # Place(q, j + 1) => LinkPrev(c)[x] = prev_free_block[x]
  <2>1. ASSUME x # Place(q, i), NEW k \in 1 .. (Len(c) - 1)
        PROVE  c[k] # x
    <3>1. k \in 1 .. Len(c) /\ k - 1 \in 0 .. Len(s)
      BY <1>1
    <3>2. c[k] = B(k - 1)
      BY <1>4, <3>1
    <3>3. k - 1 = 0 \/ k - 1 \in 1 .. Len(s)
      BY <1>1, <3>1
    <3> QED BY <1>3, <1>8, <2>1, <3>2, <3>3
  <2>2. ASSUME x # Place(q, j + 1), NEW k \in 2 .. Len(c)
        PROVE  c[k] # x
    <3>1. k \in 1 .. Len(c) /\ (k - 1 = Len(s) + 1 \/ k - 1 \in 1 .. Len(s))
      BY <1>1
    <3>2. c[k] = B(k - 1)
      BY <1>4, <3>1
    <3> QED BY <1>3, <1>8, <2>2, <3>1, <3>2
  <2> QED BY <1>1, <1>5, <2>1, <2>2, LinkNextIs, LinkPrevIs
<1> QED BY <1>6, <1>7, <1>8 DEF B, BridgeLinks

\* Putting blocks into the list, after place i.
LEMMA Inserted ==
  ASSUME NEW q \in Seq(Blocks), Linked(q, next_free_block, prev_free_block),
         NEW s \in Seq(Blocks), Distinct(s), Apart(q, s),
         NEW i \in 0 .. Len(q), NEW c, Spans(c, q, i, i, s), NEW r, Splice(q, i, i, s, r)
  PROVE  Linked(r, LinkNext(c), LinkPrev(c))
<1>1. i \in i .. Len(q)
  OBVIOUS
<1>2. \A k : k \notin (i + 1) .. i
  OBVIOUS
<1>3. Relinked(q, i, i, s, next_free_block, prev_free_block, LinkNext(c), LinkPrev(c))
  <2>1. BridgeLinks(c, q, i, i, s)
    BY <1>1, BridgeLinked
  <2> QED BY <1>2, <2>1 DEF Relinked, BridgeLinks
<1> QED BY <1>1, <1>3, Spliced
-----------------------------------------------------------------------------
(* The methods.                                                             *)

\* The blocks outside the list are the ones without a next_free_block.
LEMMA OutsideList ==
  ASSUME NEW q \in Seq(Blocks), Linked(q, next_free_block, prev_free_block), NEW b \in Blocks
  PROVE  /\ next_free_block[b] = None <=> \A k \in 1 .. Len(q) : q[k] # b
         /\ prev_free_block[b] = None <=> \A k \in 1 .. Len(q) : q[k] # b
<1>1. ASSUME NEW k \in 1 .. Len(q), q[k] = b
      PROVE  next_free_block[b] # None /\ prev_free_block[b] # None
  <2>1. /\ k \in 0 .. Len(q) /\ k + 1 \in 0 .. (Len(q) + 1)
        /\ k - 1 \in 0 .. Len(q) /\ k - 1 \in 0 .. (Len(q) + 1) /\ (k - 1) + 1 = k
    OBVIOUS
  <2>2. Place(q, k) = b
    BY <1>1, PlaceIs
  <2>3. next_free_block[b] = Place(q, k + 1) /\ prev_free_block[b] = Place(q, k - 1)
    BY <2>1, <2>2 DEF Linked
  <2> QED BY <2>1, <2>3, PlaceIs, NodeFacts
<1> QED BY <1>1 DEF Linked

\* Blocks to be put into the list.
LEMMA BatchIs ==
  ASSUME NEW q \in Seq(Blocks), Linked(q, next_free_block, prev_free_block), NEW s \in Batches
  PROVE  s \in Seq(Blocks) /\ Distinct(s) /\ Apart(q, s)
<1>1. PICK m \in 0 .. NumBlocks : s \in [1 .. m -> Unlinked]
  BY DEF Batches, SeqOf
<1>2. s \in Seq(Unlinked) /\ Len(s) = m /\ DOMAIN s = 1 .. Len(s)
  BY <1>1, NodeFacts
<1>3. s \in Seq(Blocks)
  BY <1>2 DEF Unlinked
<1>4. Distinct(s)
  BY <1>2 DEF Batches, IsInjective, Distinct
<1>5. Apart(q, s)
  BY <1>2, OutsideList DEF Apart, Unlinked
<1> QED BY <1>3, <1>4, <1>5

\* prepend_n puts the blocks in front of the list.
LEMMA PrependInv ==
  ASSUME NEW q \in Seq(Blocks), IsList(q), NEW s \in Batches, prepend_n(s)
  PROVE  IsList(s \o q)'
<1> DEFINE c == <<FakeHead>> \o s \o <<next_free_block[FakeHead]>>
           r == s \o q
<1>1. Linked(q, next_free_block, prev_free_block) /\ num_free_blocks = Len(q)
  BY DEF IsList
<1>2. s \in Seq(Blocks) /\ Distinct(s) /\ Apart(q, s)
  BY <1>1, BatchIs
<1>3. /\ Len(q) \in Nat /\ Len(s) \in Nat /\ 0 \in 0 .. Len(q)
      /\ Place(q, 0) = FakeHead /\ next_free_block[FakeHead] = Place(q, 1)
      /\ Place(q, 1) \in Nodes /\ FakeHead \in Nodes /\ s \in Seq(Nodes)
  <2>1. Len(q) \in Nat /\ Len(s) \in Nat
    BY <1>2
  <2>2. 0 \in 0 .. Len(q) /\ 1 \in 0 .. (Len(q) + 1) /\ 0 + 1 = 1
    BY <2>1
  <2>3. s \in Seq(Nodes)
    BY <1>2, NodeFacts
  <2> QED BY <1>1, <2>1, <2>2, <2>3, PlaceIs, NodeFacts DEF Linked
<1>4. Spans(c, q, 0, 0, s)
  <2>1. PICK z : z = next_free_block[FakeHead] /\ z \in Nodes /\ z = Place(q, 0 + 1)
    BY <1>3
  <2>2. /\ <<FakeHead>> \o s \o <<z>> \in Seq(Nodes)
        /\ Len(<<FakeHead>> \o s \o <<z>>) = Len(s) + 2
        /\ \A k \in 0 .. (Len(s) + 1) : (<<FakeHead>> \o s \o <<z>>)[k + 1] =
             IF k = 0 THEN FakeHead ELSE IF k <= Len(s) THEN s[k] ELSE z
    BY <1>3, <2>1, ChainOf
  <2> QED BY <1>3, <2>1, <2>2 DEF Spans, Bridge
<1>5. Splice(q, 0, 0, s, r)
  BY <1>2, <1>3 DEF Splice
<1>6. Linked(r, LinkNext(c), LinkPrev(c))
  BY <1>1, <1>2, <1>3, <1>4, <1>5, Inserted
<1>7. /\ next_free_block' = LinkNext(c) /\ prev_free_block' = LinkPrev(c)
      /\ num_free_blocks' = num_free_blocks + Len(s)
  BY DEF prepend_n
<1>8. Len(r) = num_free_blocks + Len(s)
  BY <1>1, <1>2, <1>3
<1> HIDE DEF c, r
<1>9. IsList(r)'
  BY <1>6, <1>7, <1>8 DEF IsList
<1> QED BY <1>9 DEF r

\* append_n, and append, which is append_n of one block.
LEMMA AppendInv ==
  ASSUME NEW q \in Seq(Blocks), IsList(q),
         NEW s \in Seq(Blocks), Distinct(s), Apart(q, s),
         NEW c, c \in Seq(Nodes), Len(c) = Len(s) + 2,
         \A k \in 0 .. (Len(s) + 1) : c[k + 1] =
           IF k = 0 THEN prev_free_block[FakeTail] ELSE IF k <= Len(s) THEN s[k] ELSE FakeTail,
         next_free_block' = LinkNext(c), prev_free_block' = LinkPrev(c),
         num_free_blocks' = num_free_blocks + Len(s)
  PROVE  IsList(q \o s)'
<1> DEFINE r == q \o s
<1>1. Linked(q, next_free_block, prev_free_block) /\ num_free_blocks = Len(q)
  BY DEF IsList
<1>2. /\ Len(q) \in Nat /\ Len(s) \in Nat /\ Len(q) \in 0 .. Len(q)
      /\ Place(q, Len(q) + 1) = FakeTail
      /\ prev_free_block[FakeTail] = Place(q, Len(q))
  <2>1. Len(q) \in Nat /\ Len(s) \in Nat /\ Len(q) \in 0 .. Len(q)
    OBVIOUS
  <2> QED BY <1>1, <2>1, PlaceIs DEF Linked
<1>3. Spans(c, q, Len(q), Len(q), s)
  BY <1>2 DEF Spans, Bridge
<1>4. Splice(q, Len(q), Len(q), s, r)
  BY <1>2 DEF Splice
<1>5. Linked(r, LinkNext(c), LinkPrev(c))
  BY <1>1, <1>2, <1>3, <1>4, Inserted
<1>6. Len(r) = num_free_blocks + Len(s)
  BY <1>1, <1>2
<1> HIDE DEF r
<1>7. IsList(r)'
  BY <1>5, <1>6 DEF IsList
<1> QED BY <1>7 DEF r

\* append_n puts them behind the list.
LEMMA AppendBatchInv ==
  ASSUME NEW q \in Seq(Blocks), IsList(q), NEW s \in Batches, append_n(s)
  PROVE  IsList(q \o s)'
<1>1. Linked(q, next_free_block, prev_free_block)
  BY DEF IsList
<1>2. s \in Seq(Blocks) /\ Distinct(s) /\ Apart(q, s)
  BY <1>1, BatchIs
<1>3. PICK a : a = prev_free_block[FakeTail] /\ a \in Nodes
  <2>1. Len(q) \in 0 .. Len(q) /\ Len(q) \in 0 .. (Len(q) + 1)
    OBVIOUS
  <2> QED BY <1>1, <2>1, PlaceIs DEF Linked
<1>4. PICK c : c = <<a>> \o s \o <<FakeTail>>
  OBVIOUS
<1>5. s \in Seq(Nodes) /\ FakeTail \in Nodes /\ Len(s) \in Nat
  BY <1>2, NodeFacts
<1>6. /\ c \in Seq(Nodes) /\ Len(c) = Len(s) + 2
      /\ \A k \in 0 .. (Len(s) + 1) : c[k + 1] =
           IF k = 0 THEN a ELSE IF k <= Len(s) THEN s[k] ELSE FakeTail
  BY <1>3, <1>4, <1>5, ChainOf
<1>7. /\ next_free_block' = LinkNext(c) /\ prev_free_block' = LinkPrev(c)
      /\ num_free_blocks' = num_free_blocks + Len(s)
  BY <1>3, <1>4 DEF append_n
<1> QED BY <1>2, <1>3, <1>6, <1>7, AppendInv

\* append puts one block there.
LEMMA AppendOneInv ==
  ASSUME NEW q \in Seq(Blocks), IsList(q), NEW b \in Unlinked, append(b)
  PROVE  IsList(q \o <<b>>)'
<1>1. Linked(q, next_free_block, prev_free_block)
  BY DEF IsList
<1>2. b \in Blocks /\ next_free_block[b] = None
  BY DEF Unlinked
<1>3. PICK a : a = prev_free_block[FakeTail] /\ a \in Nodes
  <2>1. Len(q) \in 0 .. Len(q) /\ Len(q) \in 0 .. (Len(q) + 1)
    OBVIOUS
  <2> QED BY <1>1, <2>1, PlaceIs DEF Linked
<1>4. PICK c, s : c = <<a, b, FakeTail>> /\ s = <<b>>
  OBVIOUS
<1>5. s \in Seq(Blocks) /\ Len(s) = 1 /\ s[1] = b
  BY <1>2, <1>4
<1>6. Distinct(s) /\ Apart(q, s)
  BY <1>1, <1>2, <1>5, OutsideList DEF Distinct, Apart
<1>7. c \in Seq(Nodes) /\ Len(c) = 3 /\ c[1] = a /\ c[2] = b /\ c[3] = FakeTail
  BY <1>2, <1>3, <1>4, NodeFacts
<1>8. /\ c \in Seq(Nodes) /\ Len(c) = Len(s) + 2
      /\ \A k \in 0 .. (Len(s) + 1) : c[k + 1] =
           IF k = 0 THEN a ELSE IF k <= Len(s) THEN s[k] ELSE FakeTail
  BY <1>5, <1>7
<1>9. /\ next_free_block' = LinkNext(c) /\ prev_free_block' = LinkPrev(c)
      /\ num_free_blocks' = num_free_blocks + Len(s)
  BY <1>3, <1>4, <1>5 DEF append
<1>10. IsList(q \o s)'
  BY <1>3, <1>5, <1>6, <1>8, <1>9, AppendInv
<1> QED BY <1>4, <1>10
\* Taking out the blocks after place i up to place j and linking its ends.
Shortcut(q, i, j, nx, pv, nx1, pv1) ==
  /\ nx1 \in [Nodes -> Nodes \cup {None}] /\ pv1 \in [Nodes -> Nodes \cup {None}]
  /\ nx1[Place(q, i)] = Place(q, j + 1) /\ pv1[Place(q, j + 1)] = Place(q, i)
  /\ \A k \in (i + 1) .. j : nx1[q[k]] = None /\ pv1[q[k]] = None
  /\ \A x \in Nodes : (\A k \in (i + 1) .. j : x # q[k]) =>
       /\ x # Place(q, i) => nx1[x] = nx[x]
       /\ x # Place(q, j + 1) => pv1[x] = pv[x]

LEMMA TakenOut ==
  ASSUME NEW q \in Seq(Blocks), NEW nx, NEW pv, Linked(q, nx, pv), NEW r,
         NEW i \in 0 .. Len(q), NEW j \in i .. Len(q), Splice(q, i, j, << >>, r),
         NEW nx1, NEW pv1, Shortcut(q, i, j, nx, pv, nx1, pv1)
  PROVE  Linked(r, nx1, pv1)
<1>0. << >> \in Seq(Blocks) /\ Len(<< >>) = 0
  OBVIOUS
<1>1. PICK s : s = << >> /\ s \in Seq(Blocks) /\ Len(s) = 0
  BY <1>0
<1>2. Distinct(s) /\ Apart(q, s)
  BY <1>1 DEF Distinct, Apart
<1>3. Bridge(q, i, j, s, 0) = Place(q, i) /\ Bridge(q, i, j, s, 0 + 1) = Place(q, j + 1)
  BY <1>1 DEF Bridge
<1>4. \A k \in 0 .. Len(s) : k = 0
  BY <1>1
<1>5. Relinked(q, i, j, s, nx, pv, nx1, pv1)
  BY <1>3, <1>4 DEF Relinked, Shortcut
<1> QED BY <1>1, <1>2, <1>5, Spliced

\* The list without its first n blocks.
LEMMA FrontTaken ==
  ASSUME NEW q \in Seq(Blocks), NEW n \in 0 .. Len(q)
  PROVE  /\ Splice(q, 0, n, << >>, SubSeq(q, n + 1, Len(q)))
         /\ Len(SubSeq(q, n + 1, Len(q))) = Len(q) - n
<1>1. PICK r : r = SubSeq(q, n + 1, Len(q))
  OBVIOUS
<1>2. /\ r \in Seq(Blocks) /\ Len(q) \in Nat /\ Len(r) = Len(q) - n
      /\ \A k \in 1 .. (Len(q) - n) : r[k] = q[n + k]
  BY <1>1
<1>3. PICK s : s = << >> /\ Len(s) = 0
  OBVIOUS
<1>4. ASSUME NEW k \in (n + 1) .. Len(q)
      PROVE  r[k - (n - 0) + Len(s)] = q[k]
  <2>1. k - n \in 1 .. (Len(q) - n) /\ n + (k - n) = k /\ k - (n - 0) + 0 = k - n
    BY <1>2
  <2> QED BY <1>2, <1>3, <2>1
<1>5. Len(r) = Len(q) - (n - 0) + Len(s)
  BY <1>2, <1>3
<1>6. Splice(q, 0, n, s, r)
  <2>1. (\A k \in 1 .. 0 : r[k] = q[k]) /\ (\A k \in 1 .. Len(s) : r[0 + k] = s[k])
    BY <1>3
  <2> QED BY <1>2, <1>4, <1>5, <2>1 DEF Splice
<1> QED BY <1>1, <1>2, <1>3, <1>6

\* popleft takes the first block.
LEMMA PopleftInv ==
  ASSUME NEW q \in Seq(Blocks), IsList(q), popleft
  PROVE  Len(q) >= 1 /\ IsList(SubSeq(q, 1 + 1, Len(q)))'
<1>1. Linked(q, next_free_block, prev_free_block) /\ num_free_blocks = Len(q)
  BY DEF IsList
<1>2. PICK first, second :
        /\ first = next_free_block[FakeHead] /\ second = next_free_block[first]
        /\ first # FakeTail
        /\ next_free_block' = [next_free_block EXCEPT ![FakeHead] = second, ![first] = None]
        /\ prev_free_block' = [prev_free_block EXCEPT ![second] = FakeHead, ![first] = None]
        /\ num_free_blocks' = num_free_blocks - 1
  BY DEF popleft
<1>3. Len(q) \in Nat /\ 0 \in 0 .. Len(q) /\ 0 + 1 = 1 /\ Place(q, 0) = FakeHead
  BY PlaceIs
<1>4. first = Place(q, 1)
  BY <1>1, <1>2, <1>3 DEF Linked
<1>5. Len(q) >= 1
  <2>1. Len(q) = 0 => first = FakeTail
    BY <1>3, <1>4, PlaceIs
  <2> QED BY <1>2, <1>3, <2>1
<1>6. 1 \in 0 .. Len(q) /\ 2 = 1 + 1 /\ 1 \in 1 .. Len(q)
  BY <1>3, <1>5
<1>7. second = Place(q, 2) /\ first = q[1] /\ first \in Nodes
  BY <1>1, <1>2, <1>4, <1>6, PlaceIs, NodeFacts DEF Linked
<1>8. 2 \in 0 .. (Len(q) + 1) /\ 0 \in 0 .. (Len(q) + 1) /\ 1 \in 0 .. (Len(q) + 1)
  BY <1>3, <1>5
<1>9. second # FakeHead /\ second # first /\ first # FakeHead /\ second \in Nodes
  BY <1>1, <1>3, <1>4, <1>7, <1>8, PlacesDiffer, PlaceIs DEF Linked
<1>10. /\ next_free_block \in [Nodes -> Nodes \cup {None}]
       /\ prev_free_block \in [Nodes -> Nodes \cup {None}] /\ FakeHead \in Nodes
  BY <1>1, NodeFacts DEF Linked
<1>11. /\ next_free_block' \in [Nodes -> Nodes \cup {None}]
       /\ prev_free_block' \in [Nodes -> Nodes \cup {None}]
  BY <1>2, <1>7, <1>9, <1>10
<1>12. /\ next_free_block'[FakeHead] = second /\ prev_free_block'[second] = FakeHead
       /\ next_free_block'[first] = None /\ prev_free_block'[first] = None
       /\ \A x \in Nodes : x # first =>
            /\ x # FakeHead => next_free_block'[x] = next_free_block[x]
            /\ x # second => prev_free_block'[x] = prev_free_block[x]
  BY <1>2, <1>7, <1>9, <1>10
<1>13. \A k \in (0 + 1) .. 1 : q[k] = first
  BY <1>7
<1>14. PICK r : r = SubSeq(q, 1 + 1, Len(q))
  OBVIOUS
<1>15. Splice(q, 0, 1, << >>, r) /\ Len(r) = Len(q) - 1
  BY <1>6, <1>14, FrontTaken
<1>16. 1 \in (0 + 1) .. 1 /\ 1 \in 0 .. Len(q)
  BY <1>6
<1>17. Linked(r, next_free_block', prev_free_block')
  <2>1. /\ next_free_block'[Place(q, 0)] = Place(q, 1 + 1)
        /\ prev_free_block'[Place(q, 1 + 1)] = Place(q, 0)
    BY <1>3, <1>6, <1>7, <1>12
  <2>2. \A k \in (0 + 1) .. 1 : next_free_block'[q[k]] = None /\ prev_free_block'[q[k]] = None
    BY <1>12, <1>13
  <2>3. \A x \in Nodes : (\A k \in (0 + 1) .. 1 : x # q[k]) =>
          /\ x # Place(q, 0) => next_free_block'[x] = next_free_block[x]
          /\ x # Place(q, 1 + 1) => prev_free_block'[x] = prev_free_block[x]
    BY <1>3, <1>6, <1>7, <1>12, <1>13, <1>16
  <2>4. Shortcut(q, 0, 1, next_free_block, prev_free_block, next_free_block', prev_free_block')
    BY <1>11, <2>1, <2>2, <2>3 DEF Shortcut
  <2> QED BY <1>1, <1>3, <1>15, <1>16, <2>4, TakenOut
<1>18. IsList(r)'
  BY <1>1, <1>2, <1>15, <1>17 DEF IsList
<1> QED BY <1>5, <1>14, <1>18

\* popleft_n takes the first n.
LEMMA PopleftBatchInv ==
  ASSUME NEW q \in Seq(Blocks), IsList(q), NEW n \in 1 .. NumBlocks, popleft_n(n)
  PROVE  n <= Len(q) /\ IsList(SubSeq(q, n + 1, Len(q)))'
<1>1. Linked(q, next_free_block, prev_free_block) /\ num_free_blocks = Len(q)
  BY DEF IsList
<1>2. PICK ret, curr :
        /\ ret = {Walk[k] : k \in 1 .. n} /\ curr = Walk[n + 1]
        /\ num_free_blocks >= n
        /\ num_free_blocks' = num_free_blocks - n
        /\ next_free_block' =
             [x \in Nodes |-> IF x \in ret THEN None
                              ELSE IF x = FakeHead /\ curr # None THEN curr
                              ELSE next_free_block[x]]
        /\ prev_free_block' =
             [x \in Nodes |-> IF x \in ret THEN None
                              ELSE IF x = curr THEN FakeHead
                              ELSE prev_free_block[x]]
  BY DEF popleft_n
<1>3. Len(q) \in Nat /\ n \in Nat /\ n <= Len(q) /\ NumBlocks \in Nat /\ Distinct(q)
  BY <1>1, <1>2, NodeFacts DEF Linked
<1>4. Len(q) <= NumBlocks
  BY <1>3, ListFits
<1>5. \A k \in 1 .. n : Walk[k] = q[k] /\ q[k] \in Blocks
  <2> SUFFICES ASSUME NEW k \in 1 .. n
               PROVE  Walk[k] = q[k] /\ q[k] \in Blocks
    OBVIOUS
  <2>1. k \in 0 .. (NumBlocks + 1) /\ k <= Len(q) + 1 /\ k \in 1 .. Len(q)
    BY <1>3, <1>4
  <2> QED BY <1>1, <2>1, WalkIs, PlaceIs
<1>6. curr = Place(q, n + 1)
  <2>1. n + 1 \in 0 .. (NumBlocks + 1) /\ n + 1 <= Len(q) + 1
    BY <1>3, <1>4
  <2> QED BY <1>1, <1>2, <2>1, WalkIs
<1>7. \A x : x \in ret <=> \E k \in 1 .. n : x = q[k]
  BY <1>2, <1>5
<1>8. /\ 0 \in 0 .. Len(q) /\ n \in 0 .. Len(q) /\ n + 1 \in 0 .. (Len(q) + 1)
      /\ 0 \in 0 .. (Len(q) + 1) /\ n + 1 # 0 /\ Place(q, 0) = FakeHead /\ 0 + 1 = 1
  BY <1>3, PlaceIs
<1>9. curr \in Nodes /\ curr # None /\ curr # FakeHead /\ FakeHead \notin ret /\ FakeHead \in Nodes
  <2>1. curr \in Nodes
    BY <1>6, <1>8, PlaceIs
  <2>2. curr # FakeHead
    BY <1>3, <1>6, <1>8, PlacesDiffer
  <2> QED BY <1>5, <1>7, <2>1, <2>2, NodeFacts
<1>10. curr \notin ret
  <2> SUFFICES ASSUME NEW k \in 1 .. n, curr = q[k]
               PROVE  FALSE
    BY <1>7
  <2>1. k \in 1 .. Len(q) /\ k \in 0 .. (Len(q) + 1) /\ k # n + 1
    BY <1>3
  <2>2. Place(q, k) = Place(q, n + 1)
    BY <1>6, <2>1, PlaceIs
  <2> QED BY <1>3, <1>8, <2>1, <2>2, PlacesDiffer
<1>11. /\ next_free_block \in [Nodes -> Nodes \cup {None}]
       /\ prev_free_block \in [Nodes -> Nodes \cup {None}]
  BY <1>1 DEF Linked
<1>12. /\ next_free_block' \in [Nodes -> Nodes \cup {None}]
       /\ prev_free_block' \in [Nodes -> Nodes \cup {None}]
  BY <1>2, <1>9, <1>11
<1>13. /\ next_free_block'[FakeHead] = curr /\ prev_free_block'[curr] = FakeHead
       /\ \A x \in Nodes : x \in ret => next_free_block'[x] = None /\ prev_free_block'[x] = None
       /\ \A x \in Nodes : x \notin ret =>
            /\ x # FakeHead => next_free_block'[x] = next_free_block[x]
            /\ x # curr => prev_free_block'[x] = prev_free_block[x]
  BY <1>2, <1>9, <1>10, <1>11
<1>14. PICK r : r = SubSeq(q, n + 1, Len(q))
  OBVIOUS
<1>15. Splice(q, 0, n, << >>, r) /\ Len(r) = Len(q) - n
  BY <1>8, <1>14, FrontTaken
<1>16. Linked(r, next_free_block', prev_free_block')
  <2>1. /\ next_free_block'[Place(q, 0)] = Place(q, n + 1)
        /\ prev_free_block'[Place(q, n + 1)] = Place(q, 0)
    BY <1>6, <1>8, <1>13
  <2>2. \A k \in (0 + 1) .. n : next_free_block'[q[k]] = None /\ prev_free_block'[q[k]] = None
    BY <1>5, <1>7, <1>8, <1>13, NodeFacts
  <2>3. \A x \in Nodes : (\A k \in (0 + 1) .. n : x # q[k]) =>
          /\ x # Place(q, 0) => next_free_block'[x] = next_free_block[x]
          /\ x # Place(q, n + 1) => prev_free_block'[x] = prev_free_block[x]
    BY <1>6, <1>7, <1>8, <1>13
  <2>4. Shortcut(q, 0, n, next_free_block, prev_free_block, next_free_block', prev_free_block')
    BY <1>12, <2>1, <2>2, <2>3 DEF Shortcut
  <2> QED BY <1>1, <1>8, <1>15, <2>4, TakenOut
<1>17. IsList(r)'
  BY <1>1, <1>2, <1>15, <1>16 DEF IsList
<1> QED BY <1>3, <1>14, <1>17
\* The list without the block at place p.
LEMMA OneTaken ==
  ASSUME NEW q \in Seq(Blocks), NEW p \in 1 .. Len(q)
  PROVE  /\ Splice(q, p - 1, p, << >>, RemoveAt(q, p))
         /\ Len(RemoveAt(q, p)) = Len(q) - 1
<1>1. PICK a, z : a = SubSeq(q, 1, p - 1) /\ z = SubSeq(q, p + 1, Len(q))
  OBVIOUS
<1>2. Len(q) \in Nat /\ p \in Nat /\ p >= 1 /\ p <= Len(q)
  OBVIOUS
<1>3. a \in Seq(Blocks) /\ Len(a) = p - 1 /\ \A k \in 1 .. (p - 1) : a[k] = q[k]
  BY <1>1, <1>2
<1>4. z \in Seq(Blocks) /\ Len(z) = Len(q) - p /\ \A k \in 1 .. (Len(q) - p) : z[k] = q[p + k]
  BY <1>1, <1>2
<1>5. PICK r : r = a \o z
  OBVIOUS
<1>6. /\ r \in Seq(Blocks) /\ Len(r) = Len(q) - 1
      /\ \A k \in 1 .. Len(a) : r[k] = a[k]
      /\ \A k \in 1 .. Len(z) : r[Len(a) + k] = z[k]
  <2>1. a \in Seq(Blocks) /\ z \in Seq(Blocks)
    BY <1>3, <1>4
  <2>2. /\ r \in Seq(Blocks) /\ Len(r) = Len(a) + Len(z)
        /\ \A k \in 1 .. Len(a) : r[k] = a[k]
        /\ \A k \in 1 .. Len(z) : r[Len(a) + k] = z[k]
    BY <1>5, <2>1
  <2>3. Len(r) = Len(q) - 1
    BY <1>2, <1>3, <1>4, <2>2
  <2> QED BY <2>2, <2>3
<1>7. PICK s : s = << >> /\ Len(s) = 0
  OBVIOUS
<1>8. ASSUME NEW k \in (p + 1) .. Len(q)
      PROVE  r[k - (p - (p - 1)) + Len(s)] = q[k]
  <2>1. /\ k - p \in 1 .. Len(z) /\ k - p \in 1 .. (Len(q) - p) /\ p + (k - p) = k
        /\ k - (p - (p - 1)) + 0 = Len(a) + (k - p)
    BY <1>2, <1>3, <1>4
  <2>2. r[Len(a) + (k - p)] = z[k - p] /\ z[k - p] = q[p + (k - p)]
    BY <1>4, <1>6, <2>1
  <2> QED BY <1>7, <2>1, <2>2
<1>9. Len(r) = Len(q) - (p - (p - 1)) + Len(s)
  BY <1>2, <1>6, <1>7
<1>10. Splice(q, p - 1, p, s, r)
  <2>1. \A k \in 1 .. (p - 1) : r[k] = q[k]
    BY <1>3, <1>6
  <2>2. \A k \in 1 .. Len(s) : r[(p - 1) + k] = s[k]
    BY <1>7
  <2> QED BY <1>6, <1>8, <1>9, <2>1, <2>2 DEF Splice
<1>11. r = RemoveAt(q, p)
  BY <1>1, <1>5 DEF RemoveAt
<1> QED BY <1>6, <1>7, <1>10, <1>11

\* remove takes a block out wherever it is.
LEMMA RemoveInv ==
  ASSUME NEW q \in Seq(Blocks), IsList(q), NEW b \in Blocks, remove(b)
  PROVE  \E p \in 1 .. Len(q) : q[p] = b /\ IsList(RemoveAt(q, p))'
<1>1. Linked(q, next_free_block, prev_free_block) /\ num_free_blocks = Len(q)
  BY DEF IsList
<1>2. PICK c : /\ c = <<prev_free_block[b], next_free_block[b]>>
               /\ next_free_block' = [LinkNext(c) EXCEPT ![b] = None]
               /\ prev_free_block' = [LinkPrev(c) EXCEPT ![b] = None]
               /\ num_free_blocks' = num_free_blocks - 1
               /\ prev_free_block[b] # None
  BY DEF remove
<1>3. PICK p \in 1 .. Len(q) : q[p] = b
  BY <1>1, <1>2, OutsideList
<1>4. /\ Len(q) \in Nat /\ p \in 0 .. Len(q) /\ p - 1 \in 0 .. Len(q) /\ (p - 1) + 1 = p
      /\ p \in (p - 1) .. Len(q) /\ p \in 0 .. (Len(q) + 1) /\ p - 1 \in 0 .. (Len(q) + 1)
      /\ p + 1 \in 0 .. (Len(q) + 1) /\ p # p - 1 /\ p # p + 1
  OBVIOUS
<1>5. Place(q, p) = b
  BY <1>3, PlaceIs
<1>6. /\ prev_free_block[b] = Place(q, p - 1) /\ next_free_block[b] = Place(q, p + 1)
      /\ Place(q, p - 1) \in Nodes /\ Place(q, p + 1) \in Nodes /\ b \in Nodes
      /\ Place(q, p - 1) # b /\ Place(q, p + 1) # b
  <2>1. prev_free_block[b] = Place(q, p - 1) /\ next_free_block[b] = Place(q, p + 1)
    BY <1>1, <1>4, <1>5 DEF Linked
  <2>2. Place(q, p - 1) \in Nodes /\ Place(q, p + 1) \in Nodes /\ b \in Nodes
    BY <1>4, PlaceIs, NodeFacts
  <2>3. Place(q, p - 1) # b /\ Place(q, p + 1) # b
    BY <1>1, <1>4, <1>5, PlacesDiffer DEF Linked
  <2> QED BY <2>1, <2>2, <2>3
<1>7. PICK s : s = << >> /\ s \in Seq(Blocks) /\ Len(s) = 0
  <2>1. << >> \in Seq(Blocks) /\ Len(<< >>) = 0
    OBVIOUS
  <2> QED BY <2>1
<1>8. Distinct(s) /\ Apart(q, s)
  BY <1>7 DEF Distinct, Apart
<1>9. /\ Bridge(q, p - 1, p, s, 0) = Place(q, p - 1)
      /\ Bridge(q, p - 1, p, s, 1) = Place(q, p + 1) /\ 0 + 1 = 1
  BY <1>7 DEF Bridge
<1>10. Spans(c, q, p - 1, p, s)
  <2>1. c \in Seq(Nodes) /\ Len(c) = 2 /\ c[1] = Place(q, p - 1) /\ c[2] = Place(q, p + 1)
    BY <1>2, <1>6
  <2>2. \A k \in 0 .. (Len(s) + 1) : k = 0 \/ k = 1
    BY <1>7
  <2>3. c[0 + 1] = c[1] /\ c[1 + 1] = c[2] /\ Len(c) = Len(s) + 2
    BY <1>7, <2>1
  <2> QED BY <1>9, <2>1, <2>2, <2>3 DEF Spans
<1>11. /\ LinkNext(c) \in [Nodes -> Nodes \cup {None}]
       /\ LinkPrev(c) \in [Nodes -> Nodes \cup {None}]
       /\ LinkNext(c)[Place(q, p - 1)] = Place(q, p + 1)
       /\ LinkPrev(c)[Place(q, p + 1)] = Place(q, p - 1)
       /\ \A x \in Nodes :
            /\ x # Place(q, p - 1) => LinkNext(c)[x] = next_free_block[x]
            /\ x # Place(q, p + 1) => LinkPrev(c)[x] = prev_free_block[x]
  <2>1. 0 \in 0 .. Len(s) /\ \A k : k \notin 1 .. Len(s)
    BY <1>7
  <2>2. BridgeLinks(c, q, p - 1, p, s)
    BY <1>1, <1>4, <1>7, <1>8, <1>10, BridgeLinked
  <2> QED BY <1>9, <2>1, <2>2 DEF BridgeLinks
<1> DEFINE nx1 == next_free_block'
           pv1 == prev_free_block'
<1>12. Shortcut(q, p - 1, p, next_free_block, prev_free_block, nx1, pv1)
  <2>1. /\ nx1 \in [Nodes -> Nodes \cup {None}] /\ pv1 \in [Nodes -> Nodes \cup {None}]
        /\ nx1[b] = None /\ pv1[b] = None
        /\ \A x \in Nodes : x # b => nx1[x] = LinkNext(c)[x] /\ pv1[x] = LinkPrev(c)[x]
    BY <1>2, <1>6, <1>11
  <2>2. \A k \in ((p - 1) + 1) .. p : k = p
    BY <1>4
  <2>3. p \in ((p - 1) + 1) .. p
    BY <1>4
  <2> HIDE DEF nx1, pv1
  <2>4. nx1[Place(q, p - 1)] = Place(q, p + 1) /\ pv1[Place(q, p + 1)] = Place(q, p - 1)
    BY <1>6, <1>11, <2>1
  <2>5. \A k \in ((p - 1) + 1) .. p : nx1[q[k]] = None /\ pv1[q[k]] = None
    BY <1>3, <2>1, <2>2
  <2>6. \A x \in Nodes : (\A k \in ((p - 1) + 1) .. p : x # q[k]) =>
          /\ x # Place(q, p - 1) => nx1[x] = next_free_block[x]
          /\ x # Place(q, p + 1) => pv1[x] = prev_free_block[x]
    BY <1>3, <1>11, <2>1, <2>3
  <2> QED BY <2>1, <2>4, <2>5, <2>6 DEF Shortcut
<1>13. PICK r : r = RemoveAt(q, p)
  OBVIOUS
<1>14. Splice(q, p - 1, p, << >>, r) /\ Len(r) = Len(q) - 1
  BY <1>13, OneTaken
<1>15. Linked(r, nx1, pv1)
  <2> HIDE DEF nx1, pv1
  <2> QED BY <1>1, <1>4, <1>12, <1>14, TakenOut
<1>16. IsList(r)'
  BY <1>1, <1>2, <1>14, <1>15 DEF IsList
<1> QED BY <1>3, <1>13, <1>16
-----------------------------------------------------------------------------
(* The theorems.                                                            *)

\* The list that __init__ makes.
AllBlocks == [i \in 1 .. NumBlocks |-> i - 1]

LEMMA InitIsList == Init => IsList(AllBlocks) /\ AllBlocks \in Seq(Blocks)
<1> SUFFICES ASSUME Init
             PROVE  IsList(AllBlocks) /\ AllBlocks \in Seq(Blocks)
  OBVIOUS
<1>1. NumBlocks \in Nat /\ NumBlocks >= 1
  BY NodeFacts
<1>2. PICK q : q = AllBlocks
  OBVIOUS
<1>3. /\ q \in Seq(Blocks) /\ Len(q) = NumBlocks
      /\ \A k \in 1 .. NumBlocks : q[k] = k - 1
  <2>1. q \in [1 .. NumBlocks -> Blocks]
    BY <1>1, <1>2 DEF AllBlocks, Blocks
  <2> QED BY <1>1, <1>2, <2>1 DEF AllBlocks
<1>4. Distinct(q)
  BY <1>1, <1>3 DEF Distinct
<1>5. /\ \A x \in Blocks : next_free_block[x] = IF x = NumBlocks - 1 THEN FakeTail ELSE x + 1
      /\ \A x \in Blocks : prev_free_block[x] = IF x = 0 THEN FakeHead ELSE x - 1
      /\ next_free_block[FakeTail] = None /\ next_free_block[FakeHead] = 0
      /\ prev_free_block[FakeHead] = None /\ prev_free_block[FakeTail] = NumBlocks - 1
      /\ next_free_block = [x \in Nodes |-> next_free_block[x]]
      /\ prev_free_block = [x \in Nodes |-> prev_free_block[x]]
  BY <1>1 DEF Init, Nodes, Blocks, FakeHead, FakeTail
<1>6. /\ next_free_block \in [Nodes -> Nodes \cup {None}]
      /\ prev_free_block \in [Nodes -> Nodes \cup {None}]
  BY <1>1, <1>5 DEF Nodes, Blocks, FakeHead, FakeTail, None
<1>7. \A k \in 0 .. (NumBlocks + 1) : Place(q, k) =
        IF k = 0 THEN FakeHead ELSE IF k <= NumBlocks THEN k - 1 ELSE FakeTail
  BY <1>1, <1>3 DEF Place
<1>8. ASSUME NEW k \in 0 .. NumBlocks
      PROVE  /\ next_free_block[Place(q, k)] = Place(q, k + 1)
             /\ prev_free_block[Place(q, k + 1)] = Place(q, k)
  <2>1. k = 0 \/ k - 1 \in Blocks
    BY <1>1 DEF Blocks
  <2>2. k = NumBlocks \/ (k + 1) - 1 \in Blocks
    BY <1>1 DEF Blocks
  <2> QED BY <1>1, <1>5, <1>7, <2>1, <2>2
<1>9. \A b \in Blocks : b + 1 \in 1 .. Len(q) /\ q[b + 1] = b
  BY <1>1, <1>3 DEF Blocks
<1>10. Linked(q, next_free_block, prev_free_block)
  BY <1>3, <1>4, <1>5, <1>6, <1>8, <1>9 DEF Linked
<1> QED BY <1>2, <1>3, <1>10 DEF IsList, Init

\* The list in a state, and in the next.
LEMMA Found ==
  /\ \A q \in Seq(Blocks) : IsList(q) => get_all_free_blocks = q
  /\ \A q \in Seq(Blocks) : IsList(q)' => get_all_free_blocks' = q
<1>1. \A q \in Seq(Blocks) : IsList(q) => get_all_free_blocks = q
  BY ListFound DEF IsList
<1>2. (\A q \in Seq(Blocks) : IsList(q) => get_all_free_blocks = q)'
  BY <1>1, PTL
<1> QED BY <1>1, <1>2

\* The methods do to the list what they do to the queue.
LEMMA Matches == ListInv => MethodsMatch
<1> SUFFICES ASSUME ListInv
             PROVE  MethodsMatch
  OBVIOUS
<1>1. PICK q \in Seq(Blocks) : IsList(q)
  BY DEF ListInv
<1>2. get_all_free_blocks = q /\ Linked(q, next_free_block, prev_free_block)
  BY <1>1, Found DEF IsList
<1>3. Len(q) \in Nat /\ DOMAIN q = 1 .. Len(q)
  OBVIOUS
<1>4. \A r \in Seq(Blocks) : IsList(r)' => get_all_free_blocks' = r
  BY Found
<1>5. Unlinked = Blocks \ ToSet(q)
  BY <1>2, <1>3, OutsideList DEF Unlinked, ToSet
<1>6. Batches = Queue!Batches
  BY <1>2, <1>5 DEF Batches, Queue!Batches, Queue!Blocks, Blocks, SeqOf, Queue!SeqOf,
     ToSet, Queue!ToSet, IsInjective, Queue!IsInjective
<1>7. popleft => Queue!popleft_n(1)
  <2> SUFFICES ASSUME popleft
               PROVE  Queue!popleft_n(1)
    OBVIOUS
  <2>1. 1 <= Len(q) /\ IsList(SubSeq(q, 1 + 1, Len(q)))'
    BY <1>1, <1>3, PopleftInv
  <2>2. SubSeq(q, 1 + 1, Len(q)) \in Seq(Blocks)
    BY <1>3, <2>1
  <2> QED BY <1>2, <1>4, <2>1, <2>2 DEF Queue!popleft_n
<1>8. ASSUME NEW n \in 1 .. NumBlocks, popleft_n(n)
      PROVE  Queue!popleft_n(n)
  <2>1. n <= Len(q) /\ IsList(SubSeq(q, n + 1, Len(q)))'
    BY <1>1, <1>8, PopleftBatchInv
  <2>2. SubSeq(q, n + 1, Len(q)) \in Seq(Blocks)
    BY <1>3, <2>1
  <2> QED BY <1>2, <1>4, <2>1, <2>2 DEF Queue!popleft_n
<1>9. ASSUME NEW b \in Blocks, remove(b)
      PROVE  Queue!remove(b)
  <2>1. PICK k \in 1 .. Len(q) : q[k] = b /\ IsList(RemoveAt(q, k))'
    BY <1>1, <1>9, RemoveInv
  <2>2. RemoveAt(q, k) \in Seq(Blocks)
    BY <1>3, OneTaken DEF Splice
  <2>3. Queue!RemoveAt(q, k) = RemoveAt(q, k)
    BY DEF RemoveAt, Queue!RemoveAt
  <2> QED BY <1>2, <1>3, <1>4, <2>1, <2>2, <2>3 DEF Queue!remove
<1>10. ASSUME NEW b \in Unlinked, append(b)
       PROVE  Queue!append_n(<<b>>)
  <2>1. IsList(q \o <<b>>)' /\ b \in Blocks
    BY <1>1, <1>10, AppendOneInv DEF Unlinked
  <2>2. q \o <<b>> \in Seq(Blocks)
    BY <2>1
  <2>3. <<b>> \in Batches
    <3>1. <<b>> \in [1 .. 1 -> Unlinked] /\ 1 \in 0 .. NumBlocks
      BY NodeFacts
    <3>2. IsInjective(<<b>>)
      BY DEF IsInjective
    <3> QED BY <3>1, <3>2 DEF Batches, SeqOf
  <2> QED BY <1>2, <1>4, <1>6, <2>1, <2>2, <2>3 DEF Queue!append_n
<1>11. ASSUME NEW s \in Batches, prepend_n(s)
       PROVE  Queue!prepend_n(s)
  <2>1. IsList(s \o q)' /\ s \in Seq(Blocks)
    BY <1>1, <1>2, <1>11, PrependInv, BatchIs
  <2>2. s \o q \in Seq(Blocks)
    BY <2>1
  <2> QED BY <1>2, <1>4, <1>6, <2>1, <2>2 DEF Queue!prepend_n
<1>12. ASSUME NEW s \in Batches, append_n(s)
       PROVE  Queue!append_n(s)
  <2>1. IsList(q \o s)' /\ s \in Seq(Blocks)
    BY <1>1, <1>2, <1>12, AppendBatchInv, BatchIs
  <2>2. q \o s \in Seq(Blocks)
    BY <2>1
  <2> QED BY <1>2, <1>4, <1>6, <2>1, <2>2 DEF Queue!append_n
<1> QED BY <1>7, <1>8, <1>9, <1>10, <1>11, <1>12 DEF MethodsMatch

\* Every step leaves a list.
LEMMA ListStep == ListInv /\ [Next]_vars => ListInv'
<1> SUFFICES ASSUME ListInv, [Next]_vars
             PROVE  ListInv'
  OBVIOUS
<1>1. PICK q \in Seq(Blocks) : IsList(q)
  BY DEF ListInv
<1>2. SUFFICES \E r : IsList(r)'
  BY DEF ListInv, IsList, Linked
<1>3. CASE popleft
  BY <1>1, <1>3, PopleftInv
<1>4. ASSUME NEW n \in 1 .. NumBlocks, popleft_n(n)
      PROVE  \E r : IsList(r)'
  BY <1>1, <1>4, PopleftBatchInv
<1>5. ASSUME NEW b \in Blocks, remove(b)
      PROVE  \E r : IsList(r)'
  BY <1>1, <1>5, RemoveInv
<1>6. ASSUME NEW b \in Unlinked, append(b)
      PROVE  \E r : IsList(r)'
  BY <1>1, <1>6, AppendOneInv
<1>7. ASSUME NEW s \in Batches, prepend_n(s)
      PROVE  \E r : IsList(r)'
  BY <1>1, <1>7, PrependInv
<1>8. ASSUME NEW s \in Batches, append_n(s)
      PROVE  \E r : IsList(r)'
  BY <1>1, <1>8, AppendBatchInv
<1>9. CASE UNCHANGED vars
  <2>1. IsList(q)'
    BY <1>1, <1>9 DEF IsList, vars
  <2> QED BY <2>1
<1> QED BY <1>3, <1>4, <1>5, <1>6, <1>7, <1>8, <1>9 DEF Next

\* In every state the fields of the blocks make one list between the fake ends,
\* of num_free_blocks different blocks, and the other blocks have no links.
THEOREM ListInvariant == Spec => []ListInv
<1>1. Init => ListInv
  BY InitIsList DEF ListInv
<1> QED BY <1>1, ListStep, PTL DEF Spec

\* get_all_free_blocks ends at the fake tail, the list is the same backwards, a
\* block outside it has no links, and num_free_blocks is its length: popleft and
\* popleft_n never run off the end of the list that the counter promises.
THEOREM ListAlwaysInSync == Spec => []ListInSync
<1>1. ListInv => ListInSync
  <2> SUFFICES ASSUME NEW q \in Seq(Blocks), IsList(q)
               PROVE  ListInSync
    BY DEF ListInv
  <2>1. /\ Linked(q, next_free_block, prev_free_block) /\ num_free_blocks = Len(q)
        /\ Len(q) \in Nat /\ DOMAIN q = 1 .. Len(q)
    BY DEF IsList
  <2>2. get_all_free_blocks = q
    BY <2>1, ListFound
  <2>3. Walk[Len(q) + 1] = FakeTail
    <3>1. Len(q) + 1 \in 0 .. (NumBlocks + 1)
      BY <2>1, ListFits, NodeFacts DEF Linked
    <3> QED BY <2>1, <3>1, WalkIs, PlaceIs
  <2>4. PICK chain : chain = <<FakeHead>> \o q \o <<FakeTail>>
    OBVIOUS
  <2>5. /\ Len(chain) = Len(q) + 2
        /\ \A k \in 0 .. (Len(q) + 1) : chain[k + 1] = Place(q, k)
    <3>1. q \in Seq(Nodes) /\ FakeHead \in Nodes /\ FakeTail \in Nodes /\ Len(q) \in Nat
      BY NodeFacts
    <3>2. PICK s \in Seq(Nodes), a \in Nodes, z \in Nodes : s = q /\ a = FakeHead /\ z = FakeTail
      BY <3>1
    <3>3. chain = <<a>> \o s \o <<z>>
      BY <2>4, <3>2
    <3>4. /\ Len(chain) = Len(s) + 2
          /\ \A k \in 0 .. (Len(s) + 1) : chain[k + 1] =
               IF k = 0 THEN a ELSE IF k <= Len(s) THEN s[k] ELSE z
      <4>1. /\ <<a>> \o s \o <<z>> \in Seq(Nodes)
            /\ Len(<<a>> \o s \o <<z>>) = Len(s) + 2
            /\ \A k \in 0 .. (Len(s) + 1) : (<<a>> \o s \o <<z>>)[k + 1] =
                 IF k = 0 THEN a ELSE IF k <= Len(s) THEN s[k] ELSE z
        BY ChainOf
      <4> QED BY <3>3, <4>1, Zenon
    <3> QED BY <3>2, <3>4 DEF Place
  <2>6. ASSUME NEW i \in 2 .. Len(chain)
        PROVE  prev_free_block[chain[i]] = chain[i - 1]
    <3>1. PICK k \in 0 .. Len(q) : i = (k + 1) + 1 /\ i - 1 = k + 1
      <4>1. i - 2 \in 0 .. Len(q) /\ i = ((i - 2) + 1) + 1 /\ i - 1 = (i - 2) + 1
        BY <2>1, <2>5
      <4> QED BY <4>1
    <3>2. k \in 0 .. (Len(q) + 1) /\ k + 1 \in 0 .. (Len(q) + 1)
      BY <2>1
    <3>3. chain[i] = Place(q, k + 1) /\ chain[i - 1] = Place(q, k)
      BY <2>5, <3>1, <3>2
    <3> QED BY <2>1, <3>3 DEF Linked
  <2>7. \A b \in Blocks \ ToSet(q) : prev_free_block[b] = None /\ next_free_block[b] = None
    BY <2>1 DEF Linked, ToSet
  <2> QED BY <2>1, <2>2, <2>3, <2>4, <2>6, <2>7 DEF ListInSync
<1> QED BY <1>1, ListInvariant, PTL

\* The linked list implements the queue of free blocks in eviction order, each
\* method being the queue's method of that name.
THEOREM ListImplementsQueue == Spec => ImplementsQueue
<1>1. Init => Queue!Init
  BY InitIsList, Found DEF Queue!Init, AllBlocks
<1>2. ListInv /\ [Next]_vars => [Queue!Next]_get_all_free_blocks
  <2> SUFFICES ASSUME ListInv, [Next]_vars, get_all_free_blocks' # get_all_free_blocks
               PROVE  Queue!Next
    OBVIOUS
  <2>1. MethodsMatch
    BY Matches
  <2>2. ~ UNCHANGED vars
    <3> SUFFICES ASSUME UNCHANGED vars
                 PROVE  get_all_free_blocks' = get_all_free_blocks
      OBVIOUS
    <3>1. PICK q \in Seq(Blocks) : IsList(q)
      BY DEF ListInv
    <3>2. IsList(q)'
      BY <3>1 DEF IsList, vars
    <3> QED BY <3>1, <3>2, Found
  <2>3. CASE popleft
    <3>1. 1 \in 1 .. NumBlocks
      BY NodeFacts
    <3> QED BY <2>1, <2>3, <3>1 DEF Queue!Next, MethodsMatch
  <2>4. ASSUME NEW n \in 1 .. NumBlocks, popleft_n(n)
        PROVE  Queue!Next
    BY <2>1, <2>4 DEF Queue!Next, MethodsMatch
  <2>5. ASSUME NEW b \in Blocks, remove(b)
        PROVE  Queue!Next
    BY <2>1, <2>5 DEF Queue!Next, MethodsMatch, Queue!Blocks, Blocks
  <2>6. ASSUME NEW b \in Unlinked, append(b)
        PROVE  Queue!Next
    <3>1. Queue!append_n(<<b>>)
      BY <2>1, <2>6 DEF MethodsMatch
    <3>2. <<b>> \in Queue!Batches
      BY <3>1 DEF Queue!append_n
    <3> QED BY <3>1, <3>2 DEF Queue!Next
  <2>7. ASSUME NEW s \in Batches, prepend_n(s) \/ append_n(s)
        PROVE  Queue!Next
    <3>1. Queue!prepend_n(s) \/ Queue!append_n(s)
      BY <2>1, <2>7 DEF MethodsMatch
    <3>2. s \in Queue!Batches
      BY <3>1 DEF Queue!append_n, Queue!prepend_n
    <3> QED BY <3>1, <3>2 DEF Queue!Next
  <2> QED BY <2>2, <2>3, <2>4, <2>5, <2>6, <2>7 DEF Next
<1>3. ListInv => MethodsMatch
  BY Matches
<1> QED BY <1>1, <1>2, <1>3, ListInvariant, PTL DEF Spec, ImplementsQueue, Queue!Spec
=============================================================================
