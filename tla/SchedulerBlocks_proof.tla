------------------------ MODULE SchedulerBlocks_proof ------------------------
(***************************************************************************)
(* Proofs about the blocks of Scheduler, for any number of requests, blocks *)
(* and steps in flight and every configuration, on top of what              *)
(* Scheduler_proof shows about its queues, tokens and fences.               *)
(*                                                                          *)
(* BlockInv is about who holds a block. Its heart is ManagerInv: the        *)
(* reference count of a block is the number of tables and deferred frees    *)
(* that hold it, a table or free holds it once, the free queue holds the    *)
(* blocks without a reference, and a block without a hash has at most one   *)
(* holder. The manager's operations preserve it one by one (NewPool,        *)
(* TouchPool, FreePool, CachePool; AllocateManager, CacheManager,           *)
(* FreeManager, PopManager, DrainManager), if the blocks they take are free *)
(* and the blocks they cache are in the table. That the scheduler asks only *)
(* for such needs the rest: a table has room for the computed tokens        *)
(* (HeldBy) and for the step in the making (RoomInv), a request that waits  *)
(* has blocks only from a load, so that a lookup for it never finds blocks  *)
(* on top of those it has, a load writes blocks of the table that are not   *)
(* cached (LoadedBy), and a load that brought nothing has failed            *)
(* (LoadingInv).                                                            *)
(*                                                                          *)
(* PinInv is about the steps in flight with defer_block_free. The steps     *)
(* with tokens have numbers g that grow up to sched_step_seq, and a block   *)
(* of a step is held, beyond that step, by the table of its request as long *)
(* as that runs, because last_sched_seq is not before the step, and after   *)
(* that by a deferred free, because the free took the number of the last    *)
(* step for its fence. Processing a step takes one from all the numbers.    *)
(*                                                                          *)
(* KVInv is about what the blocks hold, for the policy FCFS. Every slot     *)
(* that a table counts as computed, and every slot of a cached block, has   *)
(* the KV of its token or is Pending: the step in the making will write it. *)
(* Blocks are cached when they are allocated, before the step writes them,  *)
(* so the second case is needed, and that a request never leaves the step   *)
(* again (KVRunningPreempt, the only place where the policy matters) keeps  *)
(* it true. Two that write the same slot write the same, because a block    *)
(* with two holders has a hash and Hashes says which tokens it stands for.  *)
(* For a request that loads, Valid counts the tokens up to where the load   *)
(* begins, and those before its first invalid block when it has arrived.    *)
(***************************************************************************)
EXTENDS Scheduler_proof, FunctionTheorems

-----------------------------------------------------------------------------
(* Sequences of different blocks.                                           *)

Different(s) == \A i, j \in 1 .. Len(s) : s[i] = s[j] => i = j

LEMMA SetIs ==
  ASSUME NEW X, NEW s \in Seq(X)
  PROVE  /\ DOMAIN s = 1 .. Len(s) /\ Len(s) \in Nat /\ ToSet(s) \subseteq X
         /\ \A i \in 1 .. Len(s) : s[i] \in ToSet(s)
         /\ \A x \in ToSet(s) : \E i \in 1 .. Len(s) : s[i] = x
<1>1. DOMAIN s = 1 .. Len(s) /\ Len(s) \in Nat /\ \A i \in 1 .. Len(s) : s[i] \in X
  OBVIOUS
<1> QED BY <1>1 DEF ToSet

LEMMA DifferentLen ==
  ASSUME NEW X, NEW s \in Seq(X), Different(s)
  PROVE  IsFiniteSet(ToSet(s)) /\ Cardinality(ToSet(s)) = Len(s)
<1>1. /\ DOMAIN s = 1 .. Len(s) /\ Len(s) \in Nat
      /\ \A i \in 1 .. Len(s) : s[i] \in ToSet(s)
      /\ \A x \in ToSet(s) : \E i \in 1 .. Len(s) : s[i] = x
  BY SetIs
<1>2. PICK T, n : T = ToSet(s) /\ n = Len(s)
  OBVIOUS
<1>3. s \in [1 .. n -> T]
  BY <1>1, <1>2
<1>4. s \in Bijection(1 .. n, T)
  <2>1. \A i, j \in 1 .. n : s[i] = s[j] => i = j
    BY <1>2 DEF Different
  <2>2. \A x \in T : \E i \in 1 .. n : s[i] = x
    BY <1>1, <1>2
  <2> QED BY <1>3, <2>1, <2>2, Fun_IsBij
<1>5. ExistsBijection(1 .. n, T)
  BY <1>4, Fun_ExistsBij
<1>0. n \in Nat
  BY <1>1, <1>2
<1>6. IsFiniteSet(1 .. n) /\ Cardinality(1 .. n) = IF 1 > n THEN 0 ELSE n - 1 + 1
  BY <1>0, FS_Interval
<1>7. Cardinality(1 .. n) = n
  BY <1>0, <1>6
<1>8. IsFiniteSet(T) /\ Cardinality(T) = Cardinality(1 .. n)
  BY <1>5, <1>6, FS_Bijection
<1> QED BY <1>2, <1>7, <1>8

LEMMA FilterDifferent ==
  ASSUME NEW X, NEW s \in Seq(X), Different(s), NEW T
  PROVE  /\ Filter(s, T) \in Seq(X) /\ Different(Filter(s, T))
         /\ ToSet(Filter(s, T)) = ToSet(s) \cap T
<1>1. PICK f : f = Filter(s, T)
  OBVIOUS
<1>2. f \in Seq(X) /\ \E g : Picks(f, g, s, Len(s), T)
  BY <1>1, FilterPicks
<1>3. PICK g : Picks(f, g, s, Len(s), T)
  BY <1>2
<1>4. /\ g \in [1 .. Len(f) -> 1 .. Len(s)]
      /\ \A k \in 1 .. Len(f) : f[k] = s[g[k]] /\ s[g[k]] \in T
      /\ \A k, l \in 1 .. Len(f) : g[k] = g[l] => k = l
      /\ \A j \in 1 .. Len(s) : s[j] \in T => \E k \in 1 .. Len(f) : g[k] = j
  BY <1>3 DEF Picks
<1>5. /\ DOMAIN s = 1 .. Len(s) /\ DOMAIN f = 1 .. Len(f)
      /\ \A i \in 1 .. Len(s) : s[i] \in ToSet(s)
      /\ \A x \in ToSet(s) : \E i \in 1 .. Len(s) : s[i] = x
      /\ \A i \in 1 .. Len(f) : f[i] \in ToSet(f)
      /\ \A x \in ToSet(f) : \E i \in 1 .. Len(f) : f[i] = x
  BY <1>2, SetIs
<1>6. Different(f)
  BY <1>4, <1>5 DEF Different
<1>7. ToSet(f) = ToSet(s) \cap T
  <2>1. ASSUME NEW x \in ToSet(f) PROVE x \in ToSet(s) \cap T
    <3>1. PICK i \in 1 .. Len(f) : f[i] = x
      BY <1>5
    <3>2. f[i] = s[g[i]] /\ s[g[i]] \in T /\ g[i] \in 1 .. Len(s)
      BY <1>4
    <3> QED BY <1>5, <3>1, <3>2
  <2>2. ASSUME NEW x \in ToSet(s), x \in T PROVE x \in ToSet(f)
    <3>1. PICK j \in 1 .. Len(s) : s[j] = x
      BY <1>5
    <3>2. PICK i \in 1 .. Len(f) : g[i] = j
      BY <1>4, <2>2, <3>1
    <3> QED BY <1>4, <1>5, <3>1, <3>2
  <2> QED BY <2>1, <2>2
<1> QED BY <1>1, <1>2, <1>6, <1>7

LEMMA CatSet ==
  ASSUME NEW X, NEW s \in Seq(X), NEW t \in Seq(X)
  PROVE  /\ s \o t \in Seq(X) /\ ToSet(s \o t) = ToSet(s) \cup ToSet(t)
         /\ Len(s \o t) = Len(s) + Len(t)
         /\ Different(s) /\ Different(t) /\ ToSet(s) \cap ToSet(t) = {} => Different(s \o t)
<1>1. PICK u : u = s \o t
  OBVIOUS
<1>2. /\ u \in Seq(X) /\ Len(u) = Len(s) + Len(t) /\ Len(s) \in Nat /\ Len(t) \in Nat
      /\ \A i \in 1 .. Len(s) : u[i] = s[i]
      /\ \A i \in 1 .. Len(t) : u[Len(s) + i] = t[i]
  BY <1>1
<1>3. /\ DOMAIN s = 1 .. Len(s) /\ DOMAIN t = 1 .. Len(t) /\ DOMAIN u = 1 .. Len(u)
      /\ \A i \in 1 .. Len(s) : s[i] \in ToSet(s)
      /\ \A x \in ToSet(s) : \E i \in 1 .. Len(s) : s[i] = x
      /\ \A i \in 1 .. Len(t) : t[i] \in ToSet(t)
      /\ \A x \in ToSet(t) : \E i \in 1 .. Len(t) : t[i] = x
      /\ \A i \in 1 .. Len(u) : u[i] \in ToSet(u)
      /\ \A x \in ToSet(u) : \E i \in 1 .. Len(u) : u[i] = x
  BY <1>2, SetIs
<1>4. \A i \in 1 .. Len(u) : i \in 1 .. Len(s) \/ \E j \in 1 .. Len(t) : i = Len(s) + j
  <2> SUFFICES ASSUME NEW i \in 1 .. Len(u), i \notin 1 .. Len(s)
               PROVE  \E j \in 1 .. Len(t) : i = Len(s) + j
    OBVIOUS
  <2>1. i - Len(s) \in 1 .. Len(t) /\ i = Len(s) + (i - Len(s))
    BY <1>2
  <2> QED BY <2>1
<1>5. \A i \in 1 .. Len(s) : i \in 1 .. Len(u)
  BY <1>2
<1>6. \A j \in 1 .. Len(t) : Len(s) + j \in 1 .. Len(u)
  BY <1>2
<1>7. ToSet(u) = ToSet(s) \cup ToSet(t)
  <2>1. ASSUME NEW x \in ToSet(u) PROVE x \in ToSet(s) \cup ToSet(t)
    <3>1. PICK i \in 1 .. Len(u) : u[i] = x
      BY <1>3
    <3>2. CASE i \in 1 .. Len(s)
      BY <1>2, <1>3, <3>1, <3>2
    <3>3. CASE i \notin 1 .. Len(s)
      <4>1. PICK j \in 1 .. Len(t) : i = Len(s) + j
        BY <1>4, <3>3
      <4> QED BY <1>2, <1>3, <3>1, <4>1
    <3> QED BY <3>2, <3>3
  <2>2. ASSUME NEW x \in ToSet(s) PROVE x \in ToSet(u)
    <3>1. PICK i \in 1 .. Len(s) : s[i] = x
      BY <1>3
    <3> QED BY <1>2, <1>3, <1>5, <3>1
  <2>3. ASSUME NEW x \in ToSet(t) PROVE x \in ToSet(u)
    <3>1. PICK i \in 1 .. Len(t) : t[i] = x
      BY <1>3
    <3> QED BY <1>2, <1>3, <1>6, <3>1
  <2> QED BY <2>1, <2>2, <2>3
<1>8. ASSUME Different(s), Different(t), ToSet(s) \cap ToSet(t) = {}
      PROVE  Different(u)
  <2> SUFFICES ASSUME NEW i \in 1 .. Len(u), NEW j \in 1 .. Len(u), u[i] = u[j]
               PROVE  i = j
    BY <1>3 DEF Different
  <2>1. CASE i \in 1 .. Len(s)
    <3>1. u[i] \in ToSet(s)
      BY <1>2, <1>3, <2>1
    <3>2. CASE j \in 1 .. Len(s)
      BY <1>2, <1>3, <1>8, <2>1, <3>2 DEF Different
    <3>3. CASE j \notin 1 .. Len(s)
      <4>1. u[j] \in ToSet(t)
        BY <1>2, <1>3, <1>4, <3>3
      <4> QED BY <1>8, <3>1, <4>1
    <3> QED BY <3>2, <3>3
  <2>2. CASE i \notin 1 .. Len(s)
    <3>1. PICK k \in 1 .. Len(t) : i = Len(s) + k
      BY <1>4, <2>2
    <3>2. u[i] = t[k] /\ u[i] \in ToSet(t)
      BY <1>2, <1>3, <3>1
    <3>3. CASE j \in 1 .. Len(s)
      <4>1. u[j] \in ToSet(s)
        BY <1>2, <1>3, <3>3
      <4> QED BY <1>8, <3>2, <4>1
    <3>4. CASE j \notin 1 .. Len(s)
      <4>1. PICK l \in 1 .. Len(t) : j = Len(s) + l
        BY <1>4, <3>4
      <4>2. t[k] = t[l]
        BY <1>2, <3>2, <4>1
      <4>3. k = l
        BY <1>3, <1>8, <4>2 DEF Different
      <4> QED BY <3>1, <4>1, <4>3
    <3> QED BY <3>3, <3>4
  <2> QED BY <2>1, <2>2
<1> QED BY <1>1, <1>2, <1>7, <1>8

LEMMA ReverseSet ==
  ASSUME NEW X, NEW s \in Seq(X), Different(s)
  PROVE  Reverse(s) \in Seq(X) /\ Different(Reverse(s)) /\ ToSet(Reverse(s)) = ToSet(s)
<1>1. PICK u : u = Reverse(s)
  OBVIOUS
<1>2. /\ Len(s) \in Nat /\ DOMAIN s = 1 .. Len(s) /\ \A i \in 1 .. Len(s) : s[i] \in X
      /\ \A i \in 1 .. Len(s) : s[i] \in ToSet(s)
      /\ \A x \in ToSet(s) : \E i \in 1 .. Len(s) : s[i] = x
  BY SetIs
<1>3. PICK n \in Nat : n = Len(s)
  BY <1>2
<1>4. u = [i \in 1 .. n |-> s[(n - i) + 1]]
  BY <1>1, <1>3 DEF Reverse
<1>5. \A i \in 1 .. n : (n - i) + 1 \in 1 .. n /\ (n - ((n - i) + 1)) + 1 = i
  OBVIOUS
<1>6. \A i \in 1 .. n : u[i] = s[(n - i) + 1] /\ u[i] \in X
  BY <1>2, <1>3, <1>4, <1>5
<1>7. u \in Seq(X) /\ Len(u) = n /\ DOMAIN u = 1 .. n
  BY <1>4, <1>6
<1>8. /\ \A i \in 1 .. n : u[i] \in ToSet(u)
      /\ \A x \in ToSet(u) : \E i \in 1 .. n : u[i] = x
  BY <1>7, SetIs
<1>9. Different(u)
  <2> SUFFICES ASSUME NEW i \in 1 .. n, NEW j \in 1 .. n, u[i] = u[j] PROVE i = j
    BY <1>7 DEF Different
  <2>1. (n - i) + 1 = (n - j) + 1
    BY <1>2, <1>3, <1>5, <1>6 DEF Different
  <2> QED BY <2>1
<1>10. ASSUME NEW x PROVE x \in ToSet(u) <=> x \in ToSet(s)
  <2>1. ASSUME x \in ToSet(u) PROVE x \in ToSet(s)
    <3>1. PICK i \in 1 .. n : u[i] = x
      BY <1>8, <2>1
    <3> QED BY <1>2, <1>3, <1>5, <1>6, <3>1
  <2>2. ASSUME x \in ToSet(s) PROVE x \in ToSet(u)
    <3>1. PICK i \in 1 .. n : s[i] = x
      BY <1>2, <1>3, <2>2
    <3>2. (n - i) + 1 \in 1 .. n /\ u[(n - i) + 1] = s[i]
      BY <1>5, <1>6
    <3> QED BY <1>8, <3>1, <3>2
  <2> QED BY <2>1, <2>2
<1> QED BY <1>1, <1>7, <1>9, <1>10

\* The first n elements and the others.
LEMMA SplitIs ==
  ASSUME NEW X, NEW s \in Seq(X), NEW n \in Nat, NEW k \in Nat, Len(s) = n + k
  PROVE  /\ SubSeq(s, 1, n) \in Seq(X) /\ Len(SubSeq(s, 1, n)) = n
         /\ \A i \in 1 .. n : SubSeq(s, 1, n)[i] = s[i]
         /\ SubSeq(s, n + 1, Len(s)) \in Seq(X) /\ Len(SubSeq(s, n + 1, Len(s))) = k
         /\ \A i \in 1 .. k : SubSeq(s, n + 1, Len(s))[i] = s[n + i]
<1>1. PICK l : l = Len(s)
  OBVIOUS
<1>2. l \in Nat /\ l = n + k /\ \A i \in 1 .. l : s[i] \in X
  BY <1>1
<1>3. PICK a : a = SubSeq(s, 1, n)
  OBVIOUS
<1>4. a \in Seq(X) /\ Len(a) = n /\ \A i \in 1 .. n : a[i] = s[i]
  <2>1. \A i \in 1 .. n : s[i] \in X /\ 1 + i - 1 = i
    BY <1>2
  <2>2. /\ SubSeq(s, 1, n) \in Seq(X)
        /\ Len(SubSeq(s, 1, n)) = IF 1 <= n THEN n - 1 + 1 ELSE 0
        /\ \A i \in 1 .. n - 1 + 1 : SubSeq(s, 1, n)[i] = s[1 + i - 1]
    <3>1. 1 \in Int /\ n \in Int /\ \A i \in 1 .. n : s[i] \in X
      BY <2>1
    <3> QED BY ONLY <3>1, SubSeqProperties
  <2>3. n - 1 + 1 = n /\ (IF 1 <= n THEN n - 1 + 1 ELSE 0) = n
    OBVIOUS
  <2>4. /\ a \in Seq(X) /\ Len(a) = IF 1 <= n THEN n - 1 + 1 ELSE 0
        /\ \A i \in 1 .. n - 1 + 1 : a[i] = s[1 + i - 1]
    BY <1>3, <2>2, Zenon
  <2> QED BY <2>1, <2>3, <2>4
<1>5. PICK z : z = SubSeq(s, n + 1, Len(s))
  OBVIOUS
<1>6. z \in Seq(X) /\ Len(z) = k /\ \A i \in 1 .. k : z[i] = s[n + i]
  <2>1. /\ \A i \in (n + 1) .. l : s[i] \in X
        /\ \A i \in 1 .. k : (n + 1) + i - 1 = n + i
    BY <1>2
  <2>2. /\ SubSeq(s, n + 1, l) \in Seq(X)
        /\ Len(SubSeq(s, n + 1, l)) = IF n + 1 <= l THEN l - (n + 1) + 1 ELSE 0
        /\ \A i \in 1 .. l - (n + 1) + 1 : SubSeq(s, n + 1, l)[i] = s[(n + 1) + i - 1]
    <3>1. n + 1 \in Int /\ l \in Int /\ \A i \in (n + 1) .. l : s[i] \in X
      BY <1>2, <2>1
    <3> QED BY ONLY <3>1, SubSeqProperties
  <2>3. l - (n + 1) + 1 = k /\ (IF n + 1 <= l THEN l - (n + 1) + 1 ELSE 0) = k
    BY <1>2
  <2>4. /\ z \in Seq(X) /\ Len(z) = IF n + 1 <= l THEN l - (n + 1) + 1 ELSE 0
        /\ \A i \in 1 .. l - (n + 1) + 1 : z[i] = s[(n + 1) + i - 1]
    BY <1>1, <1>5, <2>2, Zenon
  <2> QED BY <2>1, <2>3, <2>4
<1> QED BY <1>3, <1>4, <1>5, <1>6, Zenon

Splits(s, n, k, a, z) ==
  /\ Len(s) = n + k
  /\ Len(a) = n /\ \A i \in 1 .. n : a[i] = s[i]
  /\ Len(z) = k /\ \A i \in 1 .. k : z[i] = s[n + i]

LEMMA SplitSet ==
  ASSUME NEW X, NEW s \in Seq(X), Different(s), NEW n \in Nat, NEW k \in Nat,
         NEW a \in Seq(X), NEW z \in Seq(X), Splits(s, n, k, a, z)
  PROVE  /\ Different(a) /\ Different(z)
         /\ ToSet(a) \cap ToSet(z) = {} /\ ToSet(a) \cup ToSet(z) = ToSet(s)
<1> USE DEF Splits
<1>0. /\ \A i \in 1 .. Len(s) : s[i] \in ToSet(s)
      /\ \A x \in ToSet(s) : \E i \in 1 .. Len(s) : s[i] = x
  BY SetIs
<1>1. /\ \A i \in 1 .. (n + k) : s[i] \in ToSet(s)
      /\ \A x \in ToSet(s) : \E i \in 1 .. (n + k) : s[i] = x
  BY <1>0
<1>2. /\ \A i \in 1 .. n : a[i] \in ToSet(a)
      /\ \A x \in ToSet(a) : \E i \in 1 .. n : a[i] = x
  BY SetIs
<1>3. /\ \A i \in 1 .. k : z[i] \in ToSet(z)
      /\ \A x \in ToSet(z) : \E i \in 1 .. k : z[i] = x
  BY SetIs
<1>4. /\ \A i \in 1 .. n : i \in 1 .. (n + k)
      /\ \A i \in 1 .. k : n + i \in 1 .. (n + k) /\ n + i \notin 1 .. n
      /\ \A i \in 1 .. (n + k) : i \in 1 .. n \/ (i - n \in 1 .. k /\ n + (i - n) = i)
      /\ \A i, j \in 1 .. k : n + i = n + j => i = j
  OBVIOUS
<1>5. \A i, j \in 1 .. (n + k) : s[i] = s[j] => i = j
  BY DEF Different
<1>6. Different(a)
  <2>1. \A i, j \in 1 .. n : a[i] = a[j] => i = j
    BY <1>4, <1>5
  <2> QED BY <2>1 DEF Different
<1>7. Different(z)
  <2>1. ASSUME NEW i \in 1 .. k, NEW j \in 1 .. k, z[i] = z[j] PROVE i = j
    <3>1. s[n + i] = s[n + j] /\ n + i \in 1 .. (n + k) /\ n + j \in 1 .. (n + k)
      BY <1>4, <2>1
    <3> QED BY <1>4, <1>5, <3>1
  <2> QED BY <2>1 DEF Different
<1>8. ASSUME NEW x \in ToSet(a), x \in ToSet(z) PROVE FALSE
  <2>1. PICK i \in 1 .. n : a[i] = x
    BY <1>2
  <2>2. PICK j \in 1 .. k : z[j] = x
    BY <1>3, <1>8
  <2>3. s[i] = s[n + j] /\ i \in 1 .. (n + k) /\ n + j \in 1 .. (n + k)
    BY <1>4, <2>1, <2>2
  <2>4. i = n + j
    BY <1>5, <2>3
  <2> QED BY <1>4, <2>4
<1>9. ASSUME NEW x \in ToSet(s) PROVE x \in ToSet(a) \cup ToSet(z)
  <2>1. PICK i \in 1 .. (n + k) : s[i] = x
    BY <1>1
  <2>2. CASE i \in 1 .. n
    BY <1>2, <2>1, <2>2
  <2>3. CASE i \notin 1 .. n
    <3>1. i - n \in 1 .. k /\ n + (i - n) = i
      BY <1>4, <2>3
    <3>2. z[i - n] = x
      BY <2>1, <3>1
    <3> QED BY <1>3, <3>1, <3>2
  <2> QED BY <2>2, <2>3
<1>10. ASSUME NEW x \in ToSet(a) PROVE x \in ToSet(s)
  <2>1. PICK i \in 1 .. n : a[i] = x
    BY <1>2
  <2> QED BY <1>1, <1>4, <2>1
<1>11. ASSUME NEW x \in ToSet(z) PROVE x \in ToSet(s)
  <2>1. PICK i \in 1 .. k : z[i] = x
    BY <1>3
  <2> QED BY <1>1, <1>4, <2>1
<1> QED BY <1>6, <1>7, <1>8, <1>9, <1>10, <1>11

-----------------------------------------------------------------------------
(* The pool.                                                                *)

PoolFields == {"free", "ref", "hash", "cached"}

\* The free queue holds the unreferenced blocks, each once; the map agrees with
\* the hashes; a block without a hash is not shared.
PoolInv(p) ==
  /\ DOMAIN p = PoolFields
  /\ p.free \in Seq(Blocks) /\ Different(p.free)
  /\ p.ref \in [Blocks -> Nat]
  /\ \A b \in Blocks : b \in ToSet(p.free) <=> p.ref[b] = 0
  /\ DOMAIN p.hash = Blocks
  /\ MapMatchesHashes(p)
  /\ \A b \in Blocks : p.hash[b] = NoHash => p.ref[b] <= 1

\* The blocks of bs have one reference more, or one less.
RefsUp(p, q, bs) == q.ref = [b \in Blocks |-> IF b \in bs THEN p.ref[b] + 1 ELSE p.ref[b]]
RefsDown(p, q, bs) == q.ref = [b \in Blocks |-> IF b \in bs THEN p.ref[b] - 1 ELSE p.ref[b]]

LEMMA BlocksFinite == IsFiniteSet(Blocks) /\ num_gpu_blocks - 1 \in Nat
                      /\ Cardinality(Blocks) = num_gpu_blocks - 1
<1>1. PICK n \in Nat : n = num_gpu_blocks - 1
  <2>1. num_gpu_blocks - 1 \in Nat
    BY PoolAssumption
  <2> QED BY <2>1
<1>2. IsFiniteSet(1 .. n) /\ Cardinality(1 .. n) = IF 1 > n THEN 0 ELSE n - 1 + 1
  BY FS_Interval
<1>3. Cardinality(1 .. n) = n
  BY <1>2
<1>4. Blocks = 1 .. n
  BY <1>1 DEF Blocks
<1> QED BY <1>1, <1>2, <1>3, <1>4

LEMMA TouchPool ==
  ASSUME NEW p, PoolInv(p), NEW hits \in Seq(Blocks), Different(hits),
         \A b \in ToSet(hits) : p.hash[b] # NoHash
  PROVE  /\ PoolInv(touch(p, hits)) /\ RefsUp(p, touch(p, hits), ToSet(hits))
         /\ touch(p, hits).hash = p.hash
         /\ Len(touch(p, hits).free)
              = Len(p.free) - Cardinality({b \in ToSet(hits) : p.ref[b] = 0})
         /\ Cardinality({b \in ToSet(hits) : p.ref[b] = 0}) \in Nat
<1>1. PICK q : q = touch(p, hits)
  OBVIOUS
<1>2. PICK H : H = ToSet(hits)
  OBVIOUS
<1>3. /\ q.free = Filter(p.free, Blocks \ H) /\ q.hash = p.hash /\ q.cached = p.cached
      /\ q.ref = [b \in Blocks |-> IF b \in H THEN p.ref[b] + 1 ELSE p.ref[b]]
      /\ DOMAIN q = PoolFields
  BY <1>1, <1>2 DEF touch, PoolInv, PoolFields
<1>4. H \subseteq Blocks
  BY <1>2, SetIs
<1>5. p.free \in Seq(Blocks) /\ Different(p.free) /\ p.ref \in [Blocks -> Nat]
  BY DEF PoolInv
<1>6. /\ q.free \in Seq(Blocks) /\ Different(q.free)
      /\ ToSet(q.free) = ToSet(p.free) \cap (Blocks \ H)
  <2>1. /\ Filter(p.free, Blocks \ H) \in Seq(Blocks) /\ Different(Filter(p.free, Blocks \ H))
        /\ ToSet(Filter(p.free, Blocks \ H)) = ToSet(p.free) \cap (Blocks \ H)
    BY <1>5, FilterDifferent
  <2> QED BY <1>3, <2>1
<1>7. q.ref \in [Blocks -> Nat] /\ \A b \in Blocks : q.ref[b] = IF b \in H THEN p.ref[b] + 1 ELSE p.ref[b]
  BY <1>3, <1>5
<1>8. \A b \in Blocks : b \in ToSet(q.free) <=> q.ref[b] = 0
  <2> SUFFICES ASSUME NEW b \in Blocks PROVE b \in ToSet(q.free) <=> q.ref[b] = 0
    OBVIOUS
  <2>1. p.ref[b] \in Nat /\ (b \in ToSet(p.free) <=> p.ref[b] = 0)
    BY <1>5 DEF PoolInv
  <2> QED BY <1>6, <1>7, <2>1
<1>9. MapMatchesHashes(q)
  BY <1>3 DEF PoolInv, MapMatchesHashes
<1>10. \A b \in Blocks : q.hash[b] = NoHash => q.ref[b] <= 1
  BY <1>2, <1>3, <1>7 DEF PoolInv
<1>11. PoolInv(q)
  BY <1>3, <1>6, <1>7, <1>8, <1>9, <1>10 DEF PoolInv
<1>12. PICK E : E = {b \in H : p.ref[b] = 0}
  OBVIOUS
<1>13. E = ToSet(p.free) \cap H
  BY <1>4, <1>12 DEF PoolInv
<1>14. /\ IsFiniteSet(ToSet(p.free)) /\ Cardinality(ToSet(p.free)) = Len(p.free)
       /\ IsFiniteSet(ToSet(q.free)) /\ Cardinality(ToSet(q.free)) = Len(q.free)
  BY <1>5, <1>6, DifferentLen
<1>15. ToSet(q.free) = ToSet(p.free) \ E
  <2>1. ToSet(p.free) \subseteq Blocks
    BY <1>5, SetIs
  <2> QED BY <1>6, <1>13, <2>1
<1>16. Cardinality(ToSet(p.free) \ E) = Cardinality(ToSet(p.free)) - Cardinality(ToSet(p.free) \cap E)
  BY <1>14, FS_Difference
<1>17. ToSet(p.free) \cap E = E
  BY <1>13
<1>18. Cardinality(E) \in Nat
  <2>1. IsFiniteSet(E)
    BY <1>13, <1>14, FS_Intersection
  <2> QED BY <2>1, FS_CardinalityType
<1>19. Len(q.free) = Len(p.free) - Cardinality(E)
  BY <1>14, <1>15, <1>16, <1>17
<1> QED BY <1>1, <1>2, <1>3, <1>11, <1>12, <1>18, <1>19 DEF RefsUp

LEMMA NewPool ==
  ASSUME NEW p, PoolInv(p), NEW n \in Nat, n <= Len(p.free)
  PROVE  /\ PoolInv(get_new_blocks(p, n))
         /\ RefsUp(p, get_new_blocks(p, n), ToSet(NewBlocks(p, n)))
         /\ NewBlocks(p, n) \in Seq(Blocks) /\ Different(NewBlocks(p, n)) /\ Len(NewBlocks(p, n)) = n
         /\ \A b \in ToSet(NewBlocks(p, n)) : p.ref[b] = 0
         /\ \A b \in Blocks : get_new_blocks(p, n).hash[b]
                                = IF b \in ToSet(NewBlocks(p, n)) THEN NoHash ELSE p.hash[b]
<1>1. PICK q : q = get_new_blocks(p, n)
  OBVIOUS
<1>2. PICK new : new = NewBlocks(p, n)
  OBVIOUS
<1>3. PICK N : N = ToSet(new)
  OBVIOUS
<1>4. p.free \in Seq(Blocks) /\ Different(p.free) /\ p.ref \in [Blocks -> Nat] /\ DOMAIN p = PoolFields
  BY DEF PoolInv
<1>5. PICK z : z = SubSeq(p.free, n + 1, Len(p.free))
  OBVIOUS
<1>6. PICK k \in Nat : Len(p.free) = n + k
  <2>1. Len(p.free) \in Nat
    BY <1>4
  <2>2. Len(p.free) - n \in Nat /\ Len(p.free) = n + (Len(p.free) - n)
    BY <2>1
  <2> QED BY <2>2
<1>7. /\ new \in Seq(Blocks) /\ Len(new) = n /\ \A i \in 1 .. n : new[i] = p.free[i]
      /\ z \in Seq(Blocks) /\ Len(z) = k /\ \A i \in 1 .. k : z[i] = p.free[n + i]
  <2>1. new = SubSeq(p.free, 1, n)
    BY <1>2 DEF NewBlocks
  <2>2. PICK s \in Seq(Blocks) : s = p.free
    BY <1>4
  <2>3. /\ SubSeq(s, 1, n) \in Seq(Blocks) /\ Len(SubSeq(s, 1, n)) = n
        /\ \A i \in 1 .. n : SubSeq(s, 1, n)[i] = s[i]
        /\ SubSeq(s, n + 1, Len(s)) \in Seq(Blocks) /\ Len(SubSeq(s, n + 1, Len(s))) = k
        /\ \A i \in 1 .. k : SubSeq(s, n + 1, Len(s))[i] = s[n + i]
    <3>1. n \in Nat /\ k \in Nat /\ Len(s) = n + k /\ s \in Seq(Blocks)
      BY <1>6, <2>2
    <3> QED BY ONLY <3>1, SplitIs
  <2> QED BY <1>5, <2>1, <2>2, <2>3, Zenon
<1>8. /\ Different(new) /\ Different(z)
      /\ N \cap ToSet(z) = {} /\ N \cup ToSet(z) = ToSet(p.free)
  <2>1. PICK s \in Seq(Blocks) : s = p.free
    BY <1>4
  <2>2. Splits(s, n, k, new, z)
    BY <1>6, <1>7, <2>1 DEF Splits
  <2>4. Different(s) /\ new \in Seq(Blocks) /\ z \in Seq(Blocks)
    BY <1>4, <1>7, <2>1
  <2>3. /\ Different(new) /\ Different(z)
        /\ ToSet(new) \cap ToSet(z) = {} /\ ToSet(new) \cup ToSet(z) = ToSet(s)
    BY <1>6, <2>1, <2>2, <2>4, SplitSet
  <2> QED BY <1>3, <2>1, <2>3
<1>9. PICK p1 : p1 = EvictCached(p, N)
  OBVIOUS
<1>10. /\ p1.hash = [b \in Blocks |-> IF b \in N THEN NoHash ELSE p.hash[b]]
       /\ p1.cached = {e \in p.cached : e[2] \notin N}
       /\ p1.free = p.free /\ p1.ref = p.ref /\ DOMAIN p1 = PoolFields
  BY <1>4, <1>9 DEF EvictCached, PoolFields
<1>11. q = [p1 EXCEPT !.free = SubSeq(p1.free, n + 1, Len(p1.free)),
                      !.ref = [b \in Blocks |-> IF b \in N THEN p1.ref[b] + 1 ELSE p1.ref[b]]]
  BY <1>1, <1>2, <1>3, <1>9 DEF get_new_blocks
<1>12. /\ q.hash = p1.hash /\ q.cached = p1.cached /\ DOMAIN q = PoolFields
       /\ q.free = SubSeq(p1.free, n + 1, Len(p1.free))
       /\ q.ref = [b \in Blocks |-> IF b \in N THEN p1.ref[b] + 1 ELSE p1.ref[b]]
  BY <1>10, <1>11 DEF PoolFields
<1>13. q.free = z
  BY <1>5, <1>10, <1>12
<1>14. q.ref = [b \in Blocks |-> IF b \in N THEN p.ref[b] + 1 ELSE p.ref[b]]
  BY <1>10, <1>12
<1>15. \A b \in Blocks : q.hash[b] = IF b \in N THEN NoHash ELSE p.hash[b]
  BY <1>10, <1>12
<1>16. N \subseteq Blocks /\ \A b \in N : p.ref[b] = 0
  <2>1. N \subseteq Blocks
    BY <1>3, <1>7, SetIs
  <2> QED BY <1>8, <2>1 DEF PoolInv
<1>17. q.ref \in [Blocks -> Nat]
  BY <1>4, <1>14
<1>18. \A b \in Blocks : b \in ToSet(q.free) <=> q.ref[b] = 0
  <2> SUFFICES ASSUME NEW b \in Blocks PROVE b \in ToSet(q.free) <=> q.ref[b] = 0
    OBVIOUS
  <2>1. p.ref[b] \in Nat /\ (b \in ToSet(p.free) <=> p.ref[b] = 0)
    BY <1>4 DEF PoolInv
  <2>2. q.ref[b] = IF b \in N THEN p.ref[b] + 1 ELSE p.ref[b]
    BY <1>14
  <2>3. b \in ToSet(q.free) <=> b \in ToSet(p.free) /\ b \notin N
    BY <1>8, <1>13
  <2> QED BY <2>1, <2>2, <2>3
<1>19. MapMatchesHashes(q)
  <2>1. p.cached = {<<p.hash[b], b>> : b \in {c \in Blocks : p.hash[c] # NoHash}}
    BY DEF PoolInv, MapMatchesHashes
  <2>2. q.cached = {e \in p.cached : e[2] \notin N}
    BY <1>10, <1>12
  <2>3. ASSUME NEW e \in q.cached
        PROVE  e \in {<<q.hash[b], b>> : b \in {c \in Blocks : q.hash[c] # NoHash}}
    <3>1. PICK b \in Blocks : p.hash[b] # NoHash /\ e = <<p.hash[b], b>>
      BY <2>1, <2>2, <2>3
    <3>2. b \notin N
      BY <2>2, <2>3, <3>1
    <3> QED BY <1>15, <3>1, <3>2
  <2>4. ASSUME NEW b \in Blocks, q.hash[b] # NoHash
        PROVE  <<q.hash[b], b>> \in q.cached
    <3>1. b \notin N /\ q.hash[b] = p.hash[b]
      BY <1>15, <2>4
    <3>2. <<p.hash[b], b>> \in p.cached
      BY <2>1, <2>4, <3>1
    <3> QED BY <2>2, <3>1, <3>2
  <2>5. q.cached = {<<q.hash[b], b>> : b \in {c \in Blocks : q.hash[c] # NoHash}}
    BY <2>3, <2>4
  <2> QED BY <2>5 DEF MapMatchesHashes
<1>20. \A b \in Blocks : q.hash[b] = NoHash => q.ref[b] <= 1
  <2> SUFFICES ASSUME NEW b \in Blocks, q.hash[b] = NoHash PROVE q.ref[b] <= 1
    OBVIOUS
  <2>1. CASE b \in N
    BY <1>14, <1>16, <2>1
  <2>2. CASE b \notin N
    BY <1>14, <1>15, <2>2 DEF PoolInv
  <2> QED BY <2>1, <2>2
<1>21. DOMAIN q.hash = Blocks
  BY <1>10, <1>12
<1>22. PoolInv(q)
  BY <1>7, <1>8, <1>12, <1>13, <1>17, <1>18, <1>19, <1>20, <1>21 DEF PoolInv
<1> QED BY <1>1, <1>2, <1>3, <1>7, <1>8, <1>14, <1>15, <1>16, <1>22 DEF RefsUp
LEMMA FreePool ==
  ASSUME NEW p, PoolInv(p), NEW bs \in Seq(Blocks), Different(bs),
         \A b \in ToSet(bs) : p.ref[b] >= 1
  PROVE  /\ PoolInv(free_blocks(p, bs)) /\ RefsDown(p, free_blocks(p, bs), ToSet(bs))
         /\ free_blocks(p, bs).hash = p.hash
<1>1. PICK q : q = free_blocks(p, bs)
  OBVIOUS
<1>2. PICK B, O, U : /\ B = ToSet(bs) /\ O = {b \in Blocks : p.ref[b] = 1}
                     /\ U = {b \in Blocks : p.hash[b] = NoHash}
  OBVIOUS
<1>3. PICK f : f = Filter(bs, O)
  OBVIOUS
<1>4. PICK x, y : x = Filter(f, U) /\ y = Filter(f, Blocks \ U)
  OBVIOUS
<1>5. /\ q.free = x \o p.free \o y /\ q.hash = p.hash /\ q.cached = p.cached
      /\ q.ref = [b \in Blocks |-> IF b \in B THEN p.ref[b] - 1 ELSE p.ref[b]]
      /\ DOMAIN q = PoolFields
  BY <1>1, <1>2, <1>3, <1>4 DEF free_blocks, PoolInv, PoolFields
<1>6. /\ p.free \in Seq(Blocks) /\ Different(p.free) /\ p.ref \in [Blocks -> Nat]
      /\ \A b \in Blocks : b \in ToSet(p.free) <=> p.ref[b] = 0
  BY DEF PoolInv
<1>7. B \subseteq Blocks /\ O \subseteq Blocks /\ U \subseteq Blocks /\ ToSet(p.free) \subseteq Blocks
  BY <1>2, <1>6, SetIs
<1>8. f \in Seq(Blocks) /\ Different(f) /\ ToSet(f) = B \cap O
  BY <1>2, <1>3, FilterDifferent
<1>9. x \in Seq(Blocks) /\ Different(x) /\ ToSet(x) = B \cap O \cap U
  BY <1>4, <1>8, FilterDifferent
<1>10. y \in Seq(Blocks) /\ Different(y) /\ ToSet(y) = B \cap O \cap (Blocks \ U)
  BY <1>4, <1>8, FilterDifferent
<1>11. PICK w : w = x \o p.free
  OBVIOUS
<1>12. ToSet(x) \cap ToSet(p.free) = {} /\ ToSet(y) \cap ToSet(p.free) = {} /\ ToSet(x) \cap ToSet(y) = {}
  BY <1>2, <1>6, <1>9, <1>10
<1>13. w \in Seq(Blocks) /\ Different(w) /\ ToSet(w) = ToSet(x) \cup ToSet(p.free)
  BY <1>6, <1>9, <1>11, <1>12, CatSet
<1>14. q.free = w \o y
  BY <1>5, <1>11
<1>15. /\ q.free \in Seq(Blocks) /\ Different(q.free)
       /\ ToSet(q.free) = ToSet(x) \cup ToSet(p.free) \cup ToSet(y)
  <2>1. ToSet(w) \cap ToSet(y) = {}
    BY <1>12, <1>13
  <2>2. /\ w \o y \in Seq(Blocks) /\ Different(w \o y)
        /\ ToSet(w \o y) = ToSet(w) \cup ToSet(y)
    BY <1>10, <1>13, <2>1, CatSet
  <2> QED BY <1>13, <1>14, <2>2
<1>16. /\ q.ref \in [Blocks -> Nat]
       /\ \A b \in Blocks : q.ref[b] = IF b \in B THEN p.ref[b] - 1 ELSE p.ref[b]
  <2>1. \A b \in Blocks : q.ref[b] = IF b \in B THEN p.ref[b] - 1 ELSE p.ref[b]
    BY <1>5
  <2>2. \A b \in Blocks : p.ref[b] \in Nat /\ (b \in B => p.ref[b] >= 1)
    BY <1>2, <1>6
  <2>3. \A b \in Blocks : q.ref[b] \in Nat
    BY <2>1, <2>2
  <2> QED BY <1>5, <2>1, <2>3
<1>17. \A b \in Blocks : b \in ToSet(q.free) <=> q.ref[b] = 0
  <2> SUFFICES ASSUME NEW b \in Blocks PROVE b \in ToSet(q.free) <=> q.ref[b] = 0
    OBVIOUS
  <2>1. p.ref[b] \in Nat /\ (b \in ToSet(p.free) <=> p.ref[b] = 0) /\ (b \in B => p.ref[b] >= 1)
    BY <1>2, <1>6
  <2>2. b \in O <=> p.ref[b] = 1
    BY <1>2
  <2>3. b \in ToSet(q.free) <=> b \in ToSet(p.free) \/ (b \in B /\ b \in O)
    BY <1>9, <1>10, <1>15
  <2>4. CASE b \in B
    <3>1. q.ref[b] = p.ref[b] - 1 /\ p.ref[b] >= 1
      BY <1>16, <2>1, <2>4
    <3> QED BY <2>1, <2>2, <2>3, <2>4, <3>1
  <2>5. CASE b \notin B
    BY <1>16, <2>1, <2>3, <2>5
  <2> QED BY <2>4, <2>5
<1>18. MapMatchesHashes(q)
  BY <1>5 DEF PoolInv, MapMatchesHashes
<1>19. \A b \in Blocks : q.hash[b] = NoHash => q.ref[b] <= 1
  <2> SUFFICES ASSUME NEW b \in Blocks, q.hash[b] = NoHash PROVE q.ref[b] <= 1
    OBVIOUS
  <2>1. p.ref[b] \in Nat /\ p.ref[b] <= 1
    BY <1>5, <1>6 DEF PoolInv
  <2> QED BY <1>16, <2>1
<1>20. DOMAIN q.hash = Blocks
  BY <1>5 DEF PoolInv
<1>21. PoolInv(q)
  BY <1>5, <1>15, <1>16, <1>17, <1>18, <1>19, <1>20 DEF PoolInv
<1> QED BY <1>1, <1>2, <1>5, <1>21 DEF RefsDown

\* The blocks first .. last of a table, which have no hash, get theirs.
Uncached(p, t, hashes, first, last) ==
  \A i \in first .. last : hashes[i] # NoHash /\ p.hash[t[i]] = NoHash
CachedInto(p, q, t, hashes, first, last) ==
  /\ PoolInv(q) /\ q.free = p.free /\ q.ref = p.ref
  /\ \A i \in first .. last : q.hash[t[i]] = hashes[i]
  /\ \A b \in Blocks : (\A i \in first .. last : t[i] # b) => q.hash[b] = p.hash[b]

LEMMA CachePool ==
  ASSUME NEW p, PoolInv(p), NEW t \in Seq(Blocks), Different(t), NEW hashes,
         NEW first \in Nat, first >= 1, NEW last \in Nat, last <= Len(t),
         Uncached(p, t, hashes, first, last),
         NEW q, q = cache_full_blocks(p, t, hashes, first, last)
  PROVE  CachedInto(p, q, t, hashes, first, last)
<1>0. \A i \in first .. last : hashes[i] # NoHash /\ p.hash[t[i]] = NoHash
  BY DEF Uncached
<1>1. q = cache_full_blocks(p, t, hashes, first, last)
  OBVIOUS
<1>2. PICK new : new = {<<hashes[i], t[i]>> : i \in first .. last}
  OBVIOUS
<1>3. /\ q.hash = [b \in Blocks |-> IF \E e \in new : e[2] = b
                                    THEN (CHOOSE e \in new : e[2] = b)[1] ELSE p.hash[b]]
      /\ q.cached = p.cached \cup new /\ q.free = p.free /\ q.ref = p.ref
      /\ DOMAIN q = PoolFields
  BY <1>1, <1>2 DEF cache_full_blocks, PoolInv, PoolFields
<1>4. \A i \in first .. last : i \in 1 .. Len(t) /\ t[i] \in Blocks
  OBVIOUS
<1>5. ASSUME NEW b \in Blocks, \A i \in first .. last : t[i] # b
      PROVE  q.hash[b] = p.hash[b]
  <2>1. ~ \E e \in new : e[2] = b
    BY <1>2, <1>5
  <2> QED BY <1>3, <2>1
<1>6. ASSUME NEW i \in first .. last
      PROVE  q.hash[t[i]] = hashes[i]
  <2>1. PICK b \in Blocks : b = t[i]
    BY <1>4
  <2>2. <<hashes[i], b>> \in new
    BY <1>2, <2>1
  <2>3. \E e \in new : e[2] = b
    BY <2>2
  <2>4. PICK c : c = CHOOSE e \in new : e[2] = b
    OBVIOUS
  <2>5. c \in new /\ c[2] = b
    BY <2>3, <2>4
  <2>6. PICK j \in first .. last : c = <<hashes[j], t[j]>>
    BY <1>2, <2>5
  <2>7. t[j] = t[i]
    BY <2>1, <2>5, <2>6
  <2>8. i \in 1 .. Len(t) /\ j \in 1 .. Len(t)
    BY <1>4, <2>6
  <2>9. j = i
    BY <2>7, <2>8 DEF Different
  <2>10. q.hash[b] = c[1]
    BY <1>3, <2>3, <2>4
  <2> QED BY <2>1, <2>6, <2>9, <2>10
<1>7. MapMatchesHashes(q)
  <2>1. p.cached = {<<p.hash[b], b>> : b \in {c \in Blocks : p.hash[c] # NoHash}}
    BY DEF PoolInv, MapMatchesHashes
  <2>2. ASSUME NEW e \in p.cached
        PROVE  e \in {<<q.hash[b], b>> : b \in {c \in Blocks : q.hash[c] # NoHash}}
    <3>1. PICK b \in Blocks : p.hash[b] # NoHash /\ e = <<p.hash[b], b>>
      BY <2>1, <2>2
    <3>2. \A i \in first .. last : t[i] # b
      BY <1>0, <3>1
    <3>3. q.hash[b] = p.hash[b]
      BY <1>5, <3>2
    <3> QED BY <3>1, <3>3
  <2>3. ASSUME NEW e \in new
        PROVE  e \in {<<q.hash[b], b>> : b \in {c \in Blocks : q.hash[c] # NoHash}}
    <3>1. PICK i \in first .. last : e = <<hashes[i], t[i]>>
      BY <1>2, <2>3
    <3>2. q.hash[t[i]] = hashes[i] /\ hashes[i] # NoHash /\ t[i] \in Blocks
      BY <1>0, <1>4, <1>6
    <3> QED BY <3>1, <3>2
  <2>4. ASSUME NEW b \in Blocks, q.hash[b] # NoHash
        PROVE  <<q.hash[b], b>> \in p.cached \cup new
    <3>1. CASE \E i \in first .. last : t[i] = b
      <4>1. PICK i \in first .. last : t[i] = b
        BY <3>1
      <4>2. q.hash[b] = hashes[i]
        BY <1>6, <4>1
      <4> QED BY <1>2, <4>1, <4>2
    <3>2. CASE \A i \in first .. last : t[i] # b
      <4>1. q.hash[b] = p.hash[b]
        BY <1>5, <3>2
      <4> QED BY <2>1, <2>4, <4>1
    <3> QED BY <3>1, <3>2
  <2>5. q.cached = {<<q.hash[b], b>> : b \in {c \in Blocks : q.hash[c] # NoHash}}
    <3>1. PICK S : S = {<<q.hash[b], b>> : b \in {c \in Blocks : q.hash[c] # NoHash}}
      OBVIOUS
    <3>2. \A e \in q.cached : e \in S
      BY <1>3, <2>2, <2>3, <3>1
    <3>3. \A e \in S : \E b \in Blocks : q.hash[b] # NoHash /\ e = <<q.hash[b], b>>
      BY <3>1
    <3>4. \A e \in S : e \in q.cached
      BY <1>3, <2>4, <3>3
    <3> QED BY <3>1, <3>2, <3>4
  <2> QED BY <2>5 DEF MapMatchesHashes
<1>8. \A b \in Blocks : q.hash[b] = NoHash => q.ref[b] <= 1
  <2> SUFFICES ASSUME NEW b \in Blocks, q.hash[b] = NoHash PROVE q.ref[b] <= 1
    OBVIOUS
  <2>1. \A i \in first .. last : t[i] # b
    <3>1. \A i \in first .. last : q.hash[t[i]] # NoHash
      BY <1>0, <1>6
    <3> QED BY <3>1
  <2>2. p.hash[b] = NoHash
    BY <1>5, <2>1
  <2> QED BY <1>3, <2>2 DEF PoolInv
<1>9. DOMAIN q.hash = Blocks
  BY <1>3
<1>10. PoolInv(q)
  BY <1>3, <1>7, <1>8, <1>9 DEF PoolInv
<1> QED BY <1>3, <1>5, <1>6, <1>10 DEF CachedInto

\* A pool that is all free forgets its hashes.
LEMMA ResetPool ==
  ASSUME NEW p, PoolInv(p), CanReset(p)
  PROVE  /\ PoolInv(reset_prefix_cache(p)) /\ reset_prefix_cache(p).ref = p.ref
         /\ \A b \in Blocks : p.ref[b] = 0
<1>1. PICK q : q = reset_prefix_cache(p)
  OBVIOUS
<1>2. /\ q.hash = [b \in Blocks |-> IF b \in Blocks THEN NoHash ELSE p.hash[b]]
      /\ q.cached = {e \in p.cached : e[2] \notin Blocks}
      /\ q.free = p.free /\ q.ref = p.ref /\ DOMAIN q = PoolFields
  BY <1>1 DEF reset_prefix_cache, EvictCached, PoolInv, PoolFields
<1>3. \A b \in Blocks : p.ref[b] = 0
  <2>1. p.free \in Seq(Blocks) /\ Different(p.free)
    BY DEF PoolInv
  <2>2. Cardinality(ToSet(p.free)) = Len(p.free)
    BY <2>1, DifferentLen
  <2>5. ToSet(p.free) \in SUBSET Blocks
    BY <2>1, SetIs
  <2>3. Cardinality(Blocks) = Cardinality(ToSet(p.free))
    BY <2>2, BlocksFinite DEF CanReset, get_num_free_blocks
  <2>4. Blocks = ToSet(p.free)
    BY <2>3, <2>5, BlocksFinite, FS_Subset
  <2> QED BY <2>4 DEF PoolInv
<1>4. \A b \in Blocks : q.hash[b] = NoHash
  BY <1>2
<1>5. q.cached = {}
  <2>1. p.cached = {<<p.hash[b], b>> : b \in {c \in Blocks : p.hash[c] # NoHash}}
    BY DEF PoolInv, MapMatchesHashes
  <2>2. \A e \in p.cached : e[2] \in Blocks
    BY <2>1
  <2> QED BY <1>2, <2>2
<1>6. MapMatchesHashes(q)
  <2>1. {c \in Blocks : q.hash[c] # NoHash} = {}
    BY <1>4
  <2>2. {<<q.hash[b], b>> : b \in {c \in Blocks : q.hash[c] # NoHash}} = {}
    BY <2>1
  <2> QED BY <1>5, <2>2 DEF MapMatchesHashes
<1>7. PoolInv(q)
  BY <1>2, <1>3, <1>6 DEF PoolInv
<1> QED BY <1>1, <1>2, <1>3, <1>7

-----------------------------------------------------------------------------
(* Who holds a block.                                                       *)

InTables(t, b) == Cardinality({r \in Reqs : b \in ToSet(t[r])})
InFrees(d, b) == Cardinality({i \in DOMAIN d : b \in ToSet(d[i][2])})

LEMMA ReqsFinite == IsFiniteSet(Reqs)
<1>1. NumReqs \in Int /\ 1 \in Int
  BY ManagerAssumption
<1> QED BY <1>1, FS_Interval DEF Reqs

LEMMA TablesNat ==
  ASSUME NEW t, NEW b
  PROVE  /\ InTables(t, b) \in Nat
         /\ \A r \in Reqs : b \in ToSet(t[r]) => InTables(t, b) >= 1
         /\ \A r, q \in Reqs : b \in ToSet(t[r]) /\ b \in ToSet(t[q]) /\ r # q => InTables(t, b) >= 2
<1>1. PICK S : S = {r \in Reqs : b \in ToSet(t[r])}
  OBVIOUS
<1>2. IsFiniteSet(S)
  BY <1>1, ReqsFinite, FS_Subset
<1>3. Cardinality(S) \in Nat
  BY <1>2, FS_CardinalityType
<1>4. ASSUME NEW r \in S PROVE Cardinality(S) >= 1
  BY <1>2, <1>3, <1>4, FS_EmptySet
<1>5. ASSUME NEW r \in S, NEW q \in S, r # q PROVE Cardinality(S) >= 2
  <2>1. Cardinality(S) # 1
    BY <1>2, <1>5, FS_Singleton
  <2> QED BY <1>3, <1>4, <1>5, <2>1
<1>6. InTables(t, b) = Cardinality(S)
  BY <1>1 DEF InTables
<1> QED BY <1>1, <1>3, <1>4, <1>5, <1>6

Has(s, b) == IF b \in ToSet(s) THEN 1 ELSE 0

LEMMA TablesChange ==
  ASSUME NEW t, NEW t1, NEW r \in Reqs, \A q \in Reqs : q # r => t1[q] = t[q], NEW b
  PROVE  InTables(t1, b) + Has(t[r], b) = InTables(t, b) + Has(t1[r], b)
<1>1. PICK O : O = {q \in Reqs : q # r /\ b \in ToSet(t[q])}
  OBVIOUS
<1>2. IsFiniteSet(O) /\ r \notin O
  BY <1>1, ReqsFinite, FS_Subset
<1>3. Cardinality(O) \in Nat
  BY <1>2, FS_CardinalityType
<1>4. Cardinality(O \cup {r}) = Cardinality(O) + 1
  BY <1>2, FS_AddElement
<1>5. PICK S, S1 : S = {q \in Reqs : b \in ToSet(t[q])} /\ S1 = {q \in Reqs : b \in ToSet(t1[q])}
  OBVIOUS
<1>6. /\ b \in ToSet(t[r]) => S = O \cup {r}
      /\ b \notin ToSet(t[r]) => S = O
  BY <1>1, <1>5
<1>10. /\ b \in ToSet(t1[r]) => S1 = O \cup {r}
       /\ b \notin ToSet(t1[r]) => S1 = O
  BY <1>1, <1>5
<1>7. InTables(t, b) = Cardinality(O) + Has(t[r], b)
  <2>1. InTables(t, b) = Cardinality(S)
    BY <1>5 DEF InTables
  <2>2. CASE b \in ToSet(t[r])
    <3>1. Has(t[r], b) = 1
      BY <2>2 DEF Has
    <3> QED BY <1>3, <1>4, <1>6, <2>1, <2>2, <3>1
  <2>3. CASE ~ (b \in ToSet(t[r]))
    <3>1. Has(t[r], b) = 0
      BY <2>3 DEF Has
    <3> QED BY <1>3, <1>4, <1>6, <2>1, <2>3, <3>1
  <2> QED BY <2>2, <2>3
<1>8. InTables(t1, b) = Cardinality(O) + Has(t1[r], b)
  <2>1. InTables(t1, b) = Cardinality(S1)
    BY <1>5 DEF InTables
  <2>2. CASE b \in ToSet(t1[r])
    <3>1. Has(t1[r], b) = 1
      BY <2>2 DEF Has
    <3> QED BY <1>3, <1>4, <1>10, <2>1, <2>2, <3>1
  <2>3. CASE ~ (b \in ToSet(t1[r]))
    <3>1. Has(t1[r], b) = 0
      BY <2>3 DEF Has
    <3> QED BY <1>3, <1>4, <1>10, <2>1, <2>3, <3>1
  <2> QED BY <2>2, <2>3
<1>9. Has(t[r], b) \in Nat /\ Has(t1[r], b) \in Nat
  BY DEF Has
<1> QED BY <1>3, <1>7, <1>8, <1>9

LEMMA FreesNat ==
  ASSUME NEW X, NEW d \in Seq(X), NEW b
  PROVE  /\ InFrees(d, b) \in Nat /\ IsFiniteSet({i \in DOMAIN d : b \in ToSet(d[i][2])})
         /\ \A i \in DOMAIN d : b \in ToSet(d[i][2]) => InFrees(d, b) >= 1
<1>1. PICK S : S = {i \in DOMAIN d : b \in ToSet(d[i][2])}
  OBVIOUS
<1>2. IsFiniteSet(S)
  <2>1. DOMAIN d = 1 .. Len(d) /\ Len(d) \in Nat
    OBVIOUS
  <2>2. IsFiniteSet(1 .. Len(d))
    BY <2>1, FS_Interval
  <2>3. S \in SUBSET (1 .. Len(d))
    BY <1>1, <2>1
  <2> QED BY <2>2, <2>3, FS_Subset
<1>3. Cardinality(S) \in Nat
  BY <1>2, FS_CardinalityType
<1>4. ASSUME NEW i \in S PROVE Cardinality(S) >= 1
  BY <1>2, <1>3, <1>4, FS_EmptySet
<1>5. InFrees(d, b) = Cardinality(S)
  BY <1>1 DEF InFrees
<1> QED BY <1>1, <1>2, <1>3, <1>4, <1>5

LEMMA FreesAppend ==
  ASSUME NEW X, NEW d \in Seq(X), NEW e \in X, NEW b
  PROVE  InFrees(Append(d, e), b) = InFrees(d, b) + Has(e[2], b)
<1>1. PICK d1 : d1 = Append(d, e)
  OBVIOUS
<1>2. PICK n \in Nat : n = Len(d)
  <2>1. Len(d) \in Nat
    OBVIOUS
  <2> QED BY <2>1
<1>3. /\ DOMAIN d = 1 .. n /\ DOMAIN d1 = 1 .. (n + 1) /\ d1[n + 1] = e
      /\ \A i \in 1 .. n : d1[i] = d[i]
  BY <1>1, <1>2
<1>4. PICK S : S = {i \in DOMAIN d : b \in ToSet(d[i][2])}
  OBVIOUS
<1>5. IsFiniteSet(S) /\ InFrees(d, b) = Cardinality(S) /\ Cardinality(S) \in Nat
  BY <1>4, FreesNat DEF InFrees
<1>6. n + 1 \notin S
  BY <1>3, <1>4
<1>7. Cardinality(S \cup {n + 1}) = Cardinality(S) + 1
  BY <1>5, <1>6, FS_AddElement
<1>8. \A i \in 1 .. (n + 1) : i \in 1 .. n \/ i = n + 1
  OBVIOUS
<1>9. PICK S1 : S1 = {i \in DOMAIN d1 : b \in ToSet(d1[i][2])}
  OBVIOUS
<1>10. ASSUME NEW i \in 1 .. (n + 1)
       PROVE  i \in S1 <=> i \in S \/ (i = n + 1 /\ b \in ToSet(e[2]))
  <2>1. CASE i \in 1 .. n
    <3>1. d1[i] = d[i] /\ i # n + 1 /\ i \in DOMAIN d /\ i \in DOMAIN d1
      BY <1>3, <2>1
    <3> QED BY <1>4, <1>9, <3>1
  <2>2. CASE i = n + 1
    BY <1>3, <1>6, <1>9, <2>2
  <2> QED BY <1>8, <2>1, <2>2
<1>12. S1 \subseteq 1 .. (n + 1) /\ S \subseteq 1 .. (n + 1) /\ n + 1 \in 1 .. (n + 1)
  BY <1>3, <1>4, <1>9
<1>13. /\ b \in ToSet(e[2]) => S1 = S \cup {n + 1}
       /\ b \notin ToSet(e[2]) => S1 = S
  BY <1>10, <1>12
<1>11. InFrees(d1, b) = Cardinality(S) + Has(e[2], b)
  <2>1. InFrees(d1, b) = Cardinality(S1)
    BY <1>9 DEF InFrees
  <2>2. CASE b \in ToSet(e[2])
    <3>1. Has(e[2], b) = 1
      BY <2>2 DEF Has
    <3> QED BY <1>5, <1>7, <1>13, <2>1, <2>2, <3>1
  <2>3. CASE ~ (b \in ToSet(e[2]))
    <3>1. Has(e[2], b) = 0
      BY <2>3 DEF Has
    <3> QED BY <1>5, <1>7, <1>13, <2>1, <2>3, <3>1
  <2> QED BY <2>2, <2>3
<1> QED BY <1>1, <1>5, <1>11

LEMMA FreesTail ==
  ASSUME NEW X, NEW d \in Seq(X), d # << >>, NEW b
  PROVE  InFrees(d, b) = InFrees(Tail(d), b) + Has(d[1][2], b)
<1>1. PICK t : t = Tail(d)
  OBVIOUS
<1>2. /\ t \in Seq(X) /\ 1 \in DOMAIN d
      /\ \A j \in DOMAIN t : j \in Nat /\ j + 1 \in DOMAIN d /\ t[j] = d[j + 1]
      /\ \A j \in DOMAIN d : j \in Nat /\ (j = 1 \/ (j - 1 \in DOMAIN t /\ t[j - 1] = d[j]))
  BY <1>1, TailIs
<1>3. PICK S : S = {i \in DOMAIN t : b \in ToSet(t[i][2])}
  OBVIOUS
<1>4. IsFiniteSet(S) /\ InFrees(t, b) = Cardinality(S) /\ Cardinality(S) \in Nat
  BY <1>2, <1>3, FreesNat DEF InFrees
<1>5. PICK R : R = {i \in DOMAIN d : i # 1 /\ b \in ToSet(d[i][2])}
  OBVIOUS
<1>6. PICK f : f = [i \in S |-> i + 1]
  OBVIOUS
<1>7. f \in Bijection(S, R)
  <2>0. \A i \in DOMAIN t : i >= 1
    BY <1>2
  <2>1. f \in [S -> R]
    <3>1. ASSUME NEW i \in S PROVE i + 1 \in R
      <4>1. i \in DOMAIN t /\ b \in ToSet(t[i][2]) /\ i \in Nat /\ i >= 1
        BY <1>2, <1>3, <2>0
      <4>2. i + 1 \in DOMAIN d /\ t[i] = d[i + 1] /\ i + 1 # 1
        BY <1>2, <4>1
      <4> QED BY <1>5, <4>1, <4>2
    <3> QED BY <1>6, <3>1
  <2>2. \A i, j \in S : f[i] = f[j] => i = j
    <3>1. \A i \in S : i \in Nat /\ f[i] = i + 1
      BY <1>2, <1>3, <1>6
    <3> QED BY <3>1
  <2>3. ASSUME NEW j \in R PROVE \E i \in S : f[i] = j
    <3>1. j \in DOMAIN d /\ j # 1 /\ b \in ToSet(d[j][2]) /\ j \in Nat
      BY <1>2, <1>5
    <3>2. j - 1 \in DOMAIN t /\ t[j - 1] = d[j]
      BY <1>2, <3>1
    <3>3. j - 1 \in S
      BY <1>3, <3>1, <3>2
    <3>4. f[j - 1] = j
      BY <1>6, <3>1, <3>3
    <3> QED BY <3>3, <3>4
  <2> QED BY <2>1, <2>2, <2>3, Fun_IsBij
<1>8. IsFiniteSet(R) /\ Cardinality(R) = Cardinality(S)
  <2>1. ExistsBijection(S, R)
    BY <1>7, Fun_ExistsBij
  <2> QED BY <1>4, <2>1, FS_Bijection
<1>9. 1 \notin R
  BY <1>5
<1>10. Cardinality(R \cup {1}) = Cardinality(R) + 1
  BY <1>8, <1>9, FS_AddElement
<1>13. PICK S1 : S1 = {i \in DOMAIN d : b \in ToSet(d[i][2])}
  OBVIOUS
<1>11. /\ b \in ToSet(d[1][2]) => S1 = R \cup {1}
       /\ b \notin ToSet(d[1][2]) => S1 = R
  BY <1>2, <1>5, <1>13
<1>12. InFrees(d, b) = Cardinality(S) + Has(d[1][2], b)
  <2>1. InFrees(d, b) = Cardinality(S1)
    BY <1>13 DEF InFrees
  <2>2. CASE b \in ToSet(d[1][2])
    <3>1. Has(d[1][2], b) = 1
      BY <2>2 DEF Has
    <3> QED BY <1>4, <1>8, <1>10, <1>11, <2>1, <2>2, <3>1
  <2>3. CASE ~ (b \in ToSet(d[1][2]))
    <3>1. Has(d[1][2], b) = 0
      BY <2>3 DEF Has
    <3> QED BY <1>4, <1>8, <1>10, <1>11, <2>1, <2>3, <3>1
  <2> QED BY <2>2, <2>3
<1> QED BY <1>1, <1>4, <1>12

-----------------------------------------------------------------------------
(* The manager.                                                             *)

ManagerFields == {"pool", "req_to_blocks", "num_cached_block"}

\* A table t of different blocks, of which those behind the first n are not in
\* the prefix cache.
TableOk(t, n, hash) ==
  /\ Different(t) /\ n <= Len(t)
  /\ \A i \in 1 .. Len(t) : i > n => hash[t[i]] = NoHash

\* The lists of blocks whose free is deferred.
FreesOk(d) ==
  /\ \E X : d \in Seq(X)
  /\ \A i \in DOMAIN d : d[i][2] \in Seq(Blocks) /\ Different(d[i][2])

\* A block is referenced once by each table and each deferred free with it.
RefsExact(ref, t, d) == \A b \in Blocks : ref[b] = InTables(t, b) + InFrees(d, b)

ManagerInv(k, d) ==
  /\ DOMAIN k = ManagerFields /\ PoolInv(k.pool)
  /\ k.req_to_blocks \in [Reqs -> Seq(Blocks)] /\ k.num_cached_block \in [Reqs -> Nat]
  /\ \A r \in Reqs : TableOk(k.req_to_blocks[r], k.num_cached_block[r], k.pool.hash)
  /\ FreesOk(d)
  /\ RefsExact(k.pool.ref, k.req_to_blocks, d)

\* The blocks of a table are referenced, and by it alone if they have no hash.
LEMMA TableHeld ==
  ASSUME NEW k, NEW d, ManagerInv(k, d), NEW r \in Reqs, NEW b \in ToSet(k.req_to_blocks[r])
  PROVE  /\ b \in Blocks /\ k.pool.ref[b] \in Nat /\ k.pool.ref[b] >= 1
         /\ k.pool.hash[b] = NoHash =>
              k.pool.ref[b] = 1 /\ \A q \in Reqs : q # r => b \notin ToSet(k.req_to_blocks[q])
<1>1. PICK t, p : t = k.req_to_blocks /\ p = k.pool
  OBVIOUS
<1>2. b \in Blocks
  <2>1. t[r] \in Seq(Blocks)
    BY <1>1 DEF ManagerInv
  <2> QED BY <1>1, <2>1, SetIs
<1>3. p.ref[b] = InTables(t, b) + InFrees(d, b)
  BY <1>1, <1>2 DEF ManagerInv, RefsExact
<1>4. InFrees(d, b) \in Nat
  BY FreesNat DEF ManagerInv, FreesOk
<1>5. /\ InTables(t, b) \in Nat /\ InTables(t, b) >= 1
      /\ \A q \in Reqs : q # r /\ b \in ToSet(t[q]) => InTables(t, b) >= 2
  BY <1>1, TablesNat
<1>6. p.hash[b] = NoHash => p.ref[b] <= 1
  BY <1>1, <1>2 DEF ManagerInv, PoolInv
<1> QED BY <1>1, <1>2, <1>3, <1>4, <1>5, <1>6

LEMMA FreeHeld ==
  ASSUME NEW k, NEW d, ManagerInv(k, d), NEW i \in DOMAIN d, NEW b \in ToSet(d[i][2])
  PROVE  b \in Blocks /\ k.pool.ref[b] >= 1
<1>1. d[i][2] \in Seq(Blocks)
  BY DEF ManagerInv, FreesOk
<1>2. b \in Blocks
  BY <1>1, SetIs
<1>3. k.pool.ref[b] = InTables(k.req_to_blocks, b) + InFrees(d, b)
  BY <1>2 DEF ManagerInv, RefsExact
<1>4. InFrees(d, b) \in Nat /\ InFrees(d, b) >= 1
  BY FreesNat DEF ManagerInv, FreesOk
<1>5. InTables(k.req_to_blocks, b) \in Nat
  BY TablesNat
<1> QED BY <1>2, <1>3, <1>4, <1>5

\* The table of r is emptied.
Emptied(k, k1, r) ==
  /\ k1.req_to_blocks = [k.req_to_blocks EXCEPT ![r] = << >>]
  /\ k1.num_cached_block = [k.num_cached_block EXCEPT ![r] = 0]
  /\ k1.pool.hash = k.pool.hash /\ DOMAIN k1 = ManagerFields

LEMMA NoBlocks ==
  ASSUME NEW s, s = << >>
  PROVE  Different(s) /\ ToSet(s) = {} /\ Len(s) = 0 /\ s \in Seq(Blocks)
<1>1. Len(s) = 0 /\ DOMAIN s = {} /\ 1 .. Len(s) = {} /\ s \in Seq(Blocks)
  OBVIOUS
<1>2. ToSet(s) = {}
  BY ONLY <1>1 DEF ToSet
<1>3. Different(s)
  BY ONLY <1>1 DEF Different
<1> QED BY ONLY <1>1, <1>2, <1>3

LEMMA EmptyTable ==
  ASSUME NEW s, s = << >>, NEW hash
  PROVE  TableOk(s, 0, hash)
<1>1. Different(s) /\ Len(s) = 0
  BY NoBlocks
<1> QED BY <1>1 DEF TableOk

LEMMA PopIs ==
  ASSUME NEW k, DOMAIN k = ManagerFields, NEW r, NEW k1, k1 = pop_blocks_for_free(k, r)
  PROVE  /\ DOMAIN k1 = ManagerFields /\ k1.pool = k.pool
         /\ k1.req_to_blocks = [k.req_to_blocks EXCEPT ![r] = << >>]
         /\ k1.num_cached_block = [k.num_cached_block EXCEPT ![r] = 0]
<1>1. PICK t, n : t = [k.req_to_blocks EXCEPT ![r] = << >>] /\ n = [k.num_cached_block EXCEPT ![r] = 0]
  OBVIOUS
<1>2. k1 = [k EXCEPT !.req_to_blocks = t, !.num_cached_block = n]
  BY <1>1 DEF pop_blocks_for_free
<1>3. /\ DOMAIN k1 = ManagerFields /\ k1.pool = k.pool
      /\ k1.req_to_blocks = t /\ k1.num_cached_block = n
  BY <1>2 DEF ManagerFields
<1> QED BY <1>1, <1>3

LEMMA EmptiedTables ==
  ASSUME NEW k, NEW d, ManagerInv(k, d), NEW r \in Reqs, NEW k1, Emptied(k, k1, r)
  PROVE  /\ k1.req_to_blocks \in [Reqs -> Seq(Blocks)] /\ k1.num_cached_block \in [Reqs -> Nat]
         /\ k1.req_to_blocks[r] = << >>
         /\ \A q \in Reqs : q # r => /\ k1.req_to_blocks[q] = k.req_to_blocks[q]
                                    /\ k1.num_cached_block[q] = k.num_cached_block[q]
         /\ \A q \in Reqs : TableOk(k1.req_to_blocks[q], k1.num_cached_block[q], k1.pool.hash)
<1>1. PICK t, n : t = k.req_to_blocks /\ n = k.num_cached_block
  OBVIOUS
<1>2. PICK t1, n1 : t1 = k1.req_to_blocks /\ n1 = k1.num_cached_block
  OBVIOUS
<1>3. t \in [Reqs -> Seq(Blocks)] /\ n \in [Reqs -> Nat]
  BY <1>1 DEF ManagerInv
<1>4. t1 = [t EXCEPT ![r] = << >>] /\ n1 = [n EXCEPT ![r] = 0]
  BY <1>1, <1>2 DEF Emptied
<1>5. t1 \in [Reqs -> Seq(Blocks)] /\ n1 \in [Reqs -> Nat]
  <2>1. << >> \in Seq(Blocks)
    OBVIOUS
  <2> QED BY <1>3, <1>4, <2>1
<1>6. /\ t1[r] = << >> /\ n1[r] = 0
      /\ \A q \in Reqs : q # r => t1[q] = t[q] /\ n1[q] = n[q]
  BY <1>3, <1>4
<1>7. ASSUME NEW q \in Reqs PROVE TableOk(t1[q], n1[q], k1.pool.hash)
  <2>1. CASE q = r
    <3>1. TableOk(t1[r], 0, k1.pool.hash)
      BY <1>6, EmptyTable
    <3> QED BY <1>6, <2>1, <3>1
  <2>2. CASE q # r
    <3>1. TableOk(t[q], n[q], k.pool.hash)
      BY <1>1 DEF ManagerInv
    <3>2. k1.pool.hash = k.pool.hash
      BY DEF Emptied
    <3> QED BY <1>6, <2>2, <3>1, <3>2
  <2> QED BY <2>1, <2>2
<1> QED BY <1>1, <1>2, <1>5, <1>6, <1>7

LEMMA EmptiedCount ==
  ASSUME NEW k, NEW d, ManagerInv(k, d), NEW r \in Reqs, NEW k1, Emptied(k, k1, r), NEW b
  PROVE  InTables(k1.req_to_blocks, b) + Has(k.req_to_blocks[r], b) = InTables(k.req_to_blocks, b)
<1>1. PICK t, t1 : t = k.req_to_blocks /\ t1 = k1.req_to_blocks
  OBVIOUS
<1>2. t1[r] = << >> /\ \A q \in Reqs : q # r => t1[q] = t[q]
  BY <1>1, EmptiedTables
<1>3. InTables(t1, b) + Has(t[r], b) = InTables(t, b) + Has(t1[r], b)
  BY <1>2, TablesChange
<1>4. Has(t1[r], b) = 0
  <2>1. ToSet(t1[r]) = {}
    BY <1>2, NoBlocks
  <2> QED BY <2>1 DEF Has
<1>5. InTables(t, b) \in Nat
  BY TablesNat
<1> QED BY <1>1, <1>3, <1>4, <1>5

LEMMA FreeManager ==
  ASSUME NEW k, NEW d, ManagerInv(k, d), NEW r \in Reqs
  PROVE  ManagerInv(free(k, r), d) /\ Emptied(k, free(k, r), r)
<1>1. PICK k1 : k1 = free(k, r)
  OBVIOUS
<1>2. PICK t, p, bs : t = k.req_to_blocks /\ p = k.pool /\ bs = Reverse(t[r])
  OBVIOUS
<1>3. DOMAIN k = ManagerFields /\ PoolInv(p) /\ t \in [Reqs -> Seq(Blocks)]
      /\ TableOk(t[r], k.num_cached_block[r], p.hash) /\ FreesOk(d) /\ RefsExact(p.ref, t, d)
  BY <1>2 DEF ManagerInv
<1>4. t[r] \in Seq(Blocks) /\ Different(t[r])
  BY <1>3 DEF TableOk
<1>5. bs \in Seq(Blocks) /\ Different(bs) /\ ToSet(bs) = ToSet(t[r])
  BY <1>2, <1>4, ReverseSet
<1>6. PICK p1 : p1 = free_blocks(p, bs)
  OBVIOUS
<1>7. \A b \in ToSet(bs) : p.ref[b] >= 1
  BY <1>2, <1>5, TableHeld
<1>8. PoolInv(p1) /\ RefsDown(p, p1, ToSet(bs)) /\ p1.hash = p.hash
  BY <1>3, <1>5, <1>6, <1>7, FreePool
<1>9. /\ DOMAIN k1 = ManagerFields /\ k1.pool = p1
      /\ k1.req_to_blocks = [k.req_to_blocks EXCEPT ![r] = << >>]
      /\ k1.num_cached_block = [k.num_cached_block EXCEPT ![r] = 0]
  <2>1. PICK k0 : k0 = pop_blocks_for_free(k, r)
    OBVIOUS
  <2>2. /\ DOMAIN k0 = ManagerFields /\ k0.pool = k.pool
        /\ k0.req_to_blocks = [k.req_to_blocks EXCEPT ![r] = << >>]
        /\ k0.num_cached_block = [k.num_cached_block EXCEPT ![r] = 0]
    BY <1>3, <2>1, PopIs
  <2>3. k1 = [k0 EXCEPT !.pool = p1]
    BY <1>1, <1>2, <1>6, <2>1, <2>2 DEF free
  <2>4. /\ DOMAIN k1 = ManagerFields /\ k1.pool = p1 /\ k1.req_to_blocks = k0.req_to_blocks
        /\ k1.num_cached_block = k0.num_cached_block
    BY <2>2, <2>3 DEF ManagerFields
  <2> QED BY <2>2, <2>4
<1>10. Emptied(k, k1, r)
  BY <1>2, <1>8, <1>9 DEF Emptied
<1>11. /\ k1.req_to_blocks \in [Reqs -> Seq(Blocks)] /\ k1.num_cached_block \in [Reqs -> Nat]
       /\ \A q \in Reqs : TableOk(k1.req_to_blocks[q], k1.num_cached_block[q], k1.pool.hash)
  <2>1. /\ k1.req_to_blocks \in [Reqs -> Seq(Blocks)] /\ k1.num_cached_block \in [Reqs -> Nat]
        /\ k1.req_to_blocks[r] = << >>
        /\ \A q \in Reqs : q # r => /\ k1.req_to_blocks[q] = k.req_to_blocks[q]
                                   /\ k1.num_cached_block[q] = k.num_cached_block[q]
        /\ \A q \in Reqs : TableOk(k1.req_to_blocks[q], k1.num_cached_block[q], k1.pool.hash)
    BY ONLY ManagerInv(k, d), r \in Reqs, <1>10, EmptiedTables
  <2> QED BY <2>1
<1>12. ASSUME NEW b \in Blocks
       PROVE  p1.ref[b] = InTables(k1.req_to_blocks, b) + InFrees(d, b)
  <2>1. p.ref[b] = InTables(t, b) + InFrees(d, b)
    BY <1>3 DEF RefsExact
  <2>2. p1.ref[b] = IF b \in ToSet(t[r]) THEN p.ref[b] - 1 ELSE p.ref[b]
    BY <1>5, <1>8 DEF RefsDown
  <2>3. InTables(k1.req_to_blocks, b) + Has(t[r], b) = InTables(t, b)
    BY <1>2, <1>10, EmptiedCount
  <2>4. InTables(t, b) \in Nat /\ InTables(k1.req_to_blocks, b) \in Nat
    BY TablesNat
  <2>5. InFrees(d, b) \in Nat
    BY <1>3, FreesNat DEF FreesOk
  <2>6. p1.ref[b] = p.ref[b] - Has(t[r], b) /\ Has(t[r], b) \in {0, 1}
    BY <2>1, <2>2, <2>4, <2>5 DEF Has
  <2> QED BY <2>1, <2>3, <2>4, <2>5, <2>6
<1>13. RefsExact(k1.pool.ref, k1.req_to_blocks, d)
  BY <1>9, <1>12 DEF RefsExact
<1>14. ManagerInv(k1, d)
  BY <1>3, <1>8, <1>9, <1>11, <1>13 DEF ManagerInv
<1> QED BY <1>1, <1>10, <1>14

\* The blocks of r stay referenced, by a deferred free.
LEMMA PopManager ==
  ASSUME NEW k, NEW d, ManagerInv(k, d), NEW r \in Reqs, NEW n
  PROVE  /\ Emptied(k, pop_blocks_for_free(k, r), r)
         /\ ManagerInv(pop_blocks_for_free(k, r), Append(d, <<n, k.req_to_blocks[r]>>))
         /\ k.req_to_blocks[r] = << >> => ManagerInv(pop_blocks_for_free(k, r), d)
<1>1. PICK k1 : k1 = pop_blocks_for_free(k, r)
  OBVIOUS
<1>2. PICK t, p : t = k.req_to_blocks /\ p = k.pool
  OBVIOUS
<1>3. DOMAIN k = ManagerFields /\ PoolInv(p) /\ t \in [Reqs -> Seq(Blocks)]
      /\ TableOk(t[r], k.num_cached_block[r], p.hash) /\ FreesOk(d) /\ RefsExact(p.ref, t, d)
  BY <1>2 DEF ManagerInv
<1>4. /\ DOMAIN k1 = ManagerFields /\ k1.pool = p
      /\ k1.req_to_blocks = [k.req_to_blocks EXCEPT ![r] = << >>]
      /\ k1.num_cached_block = [k.num_cached_block EXCEPT ![r] = 0]
  BY <1>1, <1>2, <1>3, PopIs
<1>5. Emptied(k, k1, r)
  BY <1>2, <1>4 DEF Emptied
<1>6. /\ k1.req_to_blocks \in [Reqs -> Seq(Blocks)] /\ k1.num_cached_block \in [Reqs -> Nat]
      /\ \A q \in Reqs : TableOk(k1.req_to_blocks[q], k1.num_cached_block[q], k1.pool.hash)
  <2>1. /\ k1.req_to_blocks \in [Reqs -> Seq(Blocks)] /\ k1.num_cached_block \in [Reqs -> Nat]
        /\ k1.req_to_blocks[r] = << >>
        /\ \A q \in Reqs : q # r => /\ k1.req_to_blocks[q] = k.req_to_blocks[q]
                                   /\ k1.num_cached_block[q] = k.num_cached_block[q]
        /\ \A q \in Reqs : TableOk(k1.req_to_blocks[q], k1.num_cached_block[q], k1.pool.hash)
    BY ONLY ManagerInv(k, d), r \in Reqs, <1>5, EmptiedTables
  <2> QED BY <2>1
<1>7. PICK X : d \in Seq(X)
  BY <1>3 DEF FreesOk
<1>8. PICK e, Y : e = <<n, t[r]>> /\ Y = X \cup {e}
  OBVIOUS
<1>9. d \in Seq(Y) /\ e \in Y /\ e[2] = t[r]
  BY <1>7, <1>8, SeqWider
<1>10. PICK d1 : d1 = Append(d, e)
  OBVIOUS
<1>11. FreesOk(d1)
  <2>1. /\ d1 \in Seq(Y) /\ DOMAIN d1 = 1 .. (Len(d) + 1) /\ Len(d) \in Nat
        /\ d1[Len(d) + 1] = e /\ \A i \in 1 .. Len(d) : d1[i] = d[i]
    BY <1>9, <1>10
  <2>2. DOMAIN d = 1 .. Len(d) /\ \A i \in 1 .. (Len(d) + 1) : i \in 1 .. Len(d) \/ i = Len(d) + 1
    BY <1>9, <2>1
  <2>3. t[r] \in Seq(Blocks) /\ Different(t[r])
    BY <1>3 DEF TableOk
  <2>4. \A i \in DOMAIN d1 : d1[i][2] \in Seq(Blocks) /\ Different(d1[i][2])
    BY <1>3, <1>9, <2>1, <2>2, <2>3 DEF FreesOk
  <2> QED BY <2>1, <2>4 DEF FreesOk
<1>12. ASSUME NEW b \in Blocks
       PROVE  p.ref[b] = InTables(k1.req_to_blocks, b) + InFrees(d1, b)
  <2>1. p.ref[b] = InTables(t, b) + InFrees(d, b)
    BY <1>3 DEF RefsExact
  <2>2. InFrees(d1, b) = InFrees(d, b) + Has(t[r], b)
    BY <1>9, <1>10, FreesAppend
  <2>3. InTables(k1.req_to_blocks, b) + Has(t[r], b) = InTables(t, b)
    BY <1>2, <1>5, EmptiedCount
  <2>4. InTables(t, b) \in Nat /\ InTables(k1.req_to_blocks, b) \in Nat
    BY TablesNat
  <2>5. InFrees(d, b) \in Nat
    BY <1>3, FreesNat DEF FreesOk
  <2>6. Has(t[r], b) \in {0, 1}
    BY DEF Has
  <2> QED BY <2>1, <2>2, <2>3, <2>4, <2>5, <2>6
<1>13. ManagerInv(k1, d1)
  BY <1>3, <1>4, <1>6, <1>11, <1>12 DEF ManagerInv, RefsExact
<1>14. ASSUME t[r] = << >> PROVE ManagerInv(k1, d)
  <2>1. ASSUME NEW b \in Blocks
        PROVE  p.ref[b] = InTables(k1.req_to_blocks, b) + InFrees(d, b)
    <3>1. InTables(k1.req_to_blocks, b) + Has(t[r], b) = InTables(t, b)
      BY <1>2, <1>5, EmptiedCount
    <3>2. Has(t[r], b) = 0
      <4>1. ToSet(t[r]) = {}
        BY <1>14, NoBlocks
      <4> QED BY <4>1 DEF Has
    <3>3. InTables(k1.req_to_blocks, b) \in Nat
      BY TablesNat
    <3>4. p.ref[b] = InTables(t, b) + InFrees(d, b)
      BY <1>3 DEF RefsExact
    <3> QED BY <3>1, <3>2, <3>3, <3>4
  <2> QED BY <1>3, <1>4, <1>6, <2>1 DEF ManagerInv, RefsExact
<1> QED BY <1>1, <1>2, <1>5, <1>8, <1>10, <1>13, <1>14

\* The first deferred free is done.
LEMMA DrainManager ==
  ASSUME NEW k, NEW d, ManagerInv(k, d), d # << >>
  PROVE  /\ ManagerInv([k EXCEPT !.pool = free_blocks(@, Reverse(d[1][2]))], Tail(d))
         /\ free_blocks(k.pool, Reverse(d[1][2])).hash = k.pool.hash
<1>1. PICK p, bs, t : p = k.pool /\ bs = Reverse(d[1][2]) /\ t = k.req_to_blocks
  OBVIOUS
<1>2. PICK k1, p1 : k1 = [k EXCEPT !.pool = free_blocks(@, Reverse(d[1][2]))] /\ p1 = free_blocks(p, bs)
  OBVIOUS
<1>3. DOMAIN k = ManagerFields /\ PoolInv(p) /\ FreesOk(d) /\ RefsExact(p.ref, t, d)
  BY <1>1 DEF ManagerInv
<1>4. PICK X : d \in Seq(X)
  BY <1>3 DEF FreesOk
<1>5. /\ Tail(d) \in Seq(X) /\ 1 \in DOMAIN d
      /\ \A j \in DOMAIN Tail(d) : j + 1 \in DOMAIN d /\ Tail(d)[j] = d[j + 1]
  BY <1>4, TailIs
<1>6. d[1][2] \in Seq(Blocks) /\ Different(d[1][2])
  BY <1>3, <1>5 DEF FreesOk
<1>7. bs \in Seq(Blocks) /\ Different(bs) /\ ToSet(bs) = ToSet(d[1][2])
  BY <1>1, <1>6, ReverseSet
<1>8. \A b \in ToSet(bs) : p.ref[b] >= 1
  BY <1>1, <1>5, <1>7, FreeHeld
<1>9. PoolInv(p1) /\ RefsDown(p, p1, ToSet(bs)) /\ p1.hash = p.hash
  BY <1>2, <1>3, <1>7, <1>8, FreePool
<1>10. /\ DOMAIN k1 = ManagerFields /\ k1.pool = p1 /\ k1.req_to_blocks = t
       /\ k1.num_cached_block = k.num_cached_block
  BY <1>1, <1>2, <1>3 DEF ManagerFields
<1>11. FreesOk(Tail(d))
  BY <1>3, <1>5 DEF FreesOk
<1>12. ASSUME NEW b \in Blocks
       PROVE  p1.ref[b] = InTables(t, b) + InFrees(Tail(d), b)
  <2>1. p.ref[b] = InTables(t, b) + InFrees(d, b)
    BY <1>3 DEF RefsExact
  <2>2. p1.ref[b] = IF b \in ToSet(d[1][2]) THEN p.ref[b] - 1 ELSE p.ref[b]
    BY <1>7, <1>9 DEF RefsDown
  <2>3. InFrees(d, b) = InFrees(Tail(d), b) + Has(d[1][2], b)
    BY <1>4, FreesTail
  <2>4. InTables(t, b) \in Nat /\ InFrees(Tail(d), b) \in Nat /\ InFrees(d, b) \in Nat
    BY <1>4, <1>5, TablesNat, FreesNat
  <2>5. p1.ref[b] = p.ref[b] - Has(d[1][2], b) /\ Has(d[1][2], b) \in {0, 1}
    BY <2>1, <2>2, <2>4 DEF Has
  <2> QED BY <2>1, <2>3, <2>4, <2>5
<1>13. ManagerInv(k1, Tail(d))
  BY <1>1, <1>9, <1>10, <1>11, <1>12 DEF ManagerInv, RefsExact
<1> QED BY <1>1, <1>2, <1>9, <1>13

\* The fences move, the blocks do not.
LEMMA ShiftManager ==
  ASSUME NEW k, NEW d, ManagerInv(k, d), NEW d1, DOMAIN d1 = DOMAIN d, \E X : d1 \in Seq(X),
         \A i \in DOMAIN d : d1[i][2] = d[i][2]
  PROVE  ManagerInv(k, d1)
<1>1. FreesOk(d1)
  BY DEF ManagerInv, FreesOk
<1>2. \A b : {i \in DOMAIN d1 : b \in ToSet(d1[i][2])} = {i \in DOMAIN d : b \in ToSet(d[i][2])}
  OBVIOUS
<1>3. \A b : InFrees(d1, b) = InFrees(d, b)
  BY <1>2 DEF InFrees
<1> QED BY <1>1, <1>3 DEF ManagerInv, RefsExact

LEMMA ResetManager ==
  ASSUME NEW k, NEW d, ManagerInv(k, d), CanReset(k.pool)
  PROVE  /\ ManagerInv([k EXCEPT !.pool = reset_prefix_cache(@)], d)
         /\ \A b \in Blocks : k.pool.ref[b] = 0
<1>1. PICK k1, p, p1 : /\ k1 = [k EXCEPT !.pool = reset_prefix_cache(@)]
                       /\ p = k.pool /\ p1 = reset_prefix_cache(p)
  OBVIOUS
<1>2. DOMAIN k = ManagerFields /\ PoolInv(p)
  BY <1>1 DEF ManagerInv
<1>3. PoolInv(p1) /\ p1.ref = p.ref /\ \A b \in Blocks : p.ref[b] = 0
  BY <1>1, <1>2, ResetPool
<1>4. /\ DOMAIN k1 = ManagerFields /\ k1.pool = p1 /\ k1.req_to_blocks = k.req_to_blocks
      /\ k1.num_cached_block = k.num_cached_block
  BY <1>1, <1>2 DEF ManagerFields
<1>5. ASSUME NEW r \in Reqs PROVE TableOk(k1.req_to_blocks[r], k1.num_cached_block[r], k1.pool.hash)
  <2>1. TableOk(k.req_to_blocks[r], k.num_cached_block[r], k.pool.hash) /\ k.req_to_blocks[r] \in Seq(Blocks)
    BY DEF ManagerInv
  <2>2. \A b \in ToSet(k.req_to_blocks[r]) : FALSE
    BY <1>1, <1>3, TableHeld
  <2>3. \A i \in 1 .. Len(k.req_to_blocks[r]) : FALSE
    BY <2>1, <2>2, SetIs
  <2> QED BY <1>4, <2>1, <2>3 DEF TableOk
<1>6. ManagerInv(k1, d)
  BY <1>1, <1>3, <1>4, <1>5 DEF ManagerInv, RefsExact
<1> QED BY <1>1, <1>3, <1>6

-----------------------------------------------------------------------------
(* Caching.                                                                 *)

LEMMA DivAtMost ==
  ASSUME NEW a \in Nat, NEW b \in Nat, NEW d \in Nat, d >= 1, a <= b * d
  PROVE  a \div d <= b
<1>1. PICK f : f = a \div d
  OBVIOUS
<1>2. f \in Nat /\ f * d <= a
  BY <1>1, DivTimes
<1>3. f * d < (b + 1) * d
  <2>1. (b + 1) * d = b * d + d /\ b * d \in Nat /\ f * d \in Nat
    BY <1>2
  <2> QED BY <1>2, <2>1
<1>4. f < b + 1
  BY <1>2, <1>3, TimesStrict
<1> QED BY <1>1, <1>2, <1>4

LEMMA DivAtLeast ==
  ASSUME NEW a \in Nat, NEW i \in Nat, NEW d \in Nat, d >= 1, i * d <= a
  PROVE  i <= a \div d
<1>1. PICK f : f = a \div d
  OBVIOUS
<1>2. f \in Nat /\ a < f * d + d
  BY <1>1, DivTimes
<1>3. i * d < (f + 1) * d
  <2>1. (f + 1) * d = f * d + d /\ i * d \in Nat /\ f * d \in Nat
    BY <1>2
  <2> QED BY <1>2, <2>1
<1>4. i < f + 1
  BY <1>2, <1>3, TimesStrict
<1> QED BY <1>1, <1>2, <1>4

LEMMA MaxLenNat == \A r \in Reqs : MaxLen(r) \in Nat
BY ConstantFacts DEF MaxLen

\* The hash of the i-th block of a request tells its place.
LEMMA HashIs ==
  ASSUME NEW r \in Reqs, NEW i \in Nat, i >= 1, i * block_size <= MaxLen(r)
  PROVE  BlockHash(r, i) # NoHash /\ BlockHash(r, i)[2] = i * block_size
<1>0. block_size \in Nat /\ block_size >= 1 /\ MaxLen(r) \in Nat
  BY ConstantFacts, MaxLenNat
<1>1. PICK n : n = i * block_size
  OBVIOUS
<1>2. 1 * block_size <= i * block_size
  BY <1>0, TimesMonotone
<1>3. n \in 1 .. MaxLen(r)
  BY <1>0, <1>1, <1>2
<1>4. PICK q : PrefixId[r][n] = <<q, n>>
  BY <1>3 DEF PrefixId
<1>5. <<q, n>> # << >> /\ <<q, n>>[2] = n
  OBVIOUS
<1> QED BY <1>1, <1>4, <1>5 DEF BlockHash, NoHash

\* What cache_blocks leaves alone.
CachedFrom(k, k1, r) ==
  /\ k1.req_to_blocks = k.req_to_blocks
  /\ \A q \in Reqs : q # r => k1.num_cached_block[q] = k.num_cached_block[q]

\* The full blocks among the first n tokens are cached, and have their hashes.
Names(k, k1, r, n) ==
  /\ k1.num_cached_block[r] = IF k.num_cached_block[r] >= n \div block_size
                              THEN k.num_cached_block[r] ELSE n \div block_size
  /\ \A i \in (k.num_cached_block[r] + 1) .. (n \div block_size) :
       k1.pool.hash[k.req_to_blocks[r][i]] = BlockHash(r, i)
  /\ \A b \in Blocks :
       (\A i \in (k.num_cached_block[r] + 1) .. (n \div block_size) : k.req_to_blocks[r][i] # b)
         => k1.pool.hash[b] = k.pool.hash[b]

LEMMA CacheManager ==
  ASSUME NEW k, NEW d, ManagerInv(k, d), NEW r \in Reqs, NEW n \in Nat,
         n <= Len(k.req_to_blocks[r]) * block_size, n <= MaxLen(r)
  PROVE  /\ ManagerInv(cache_blocks(k, r, n), d)
         /\ CachedFrom(k, cache_blocks(k, r, n), r) /\ Names(k, cache_blocks(k, r, n), r, n)
         /\ n < block_size => cache_blocks(k, r, n) = k
<1>0. block_size \in Nat /\ block_size >= 1 /\ MaxLen(r) \in Nat
  BY ConstantFacts, MaxLenNat
<1>1. PICK t, p, c, f : /\ t = k.req_to_blocks /\ p = k.pool /\ c = k.num_cached_block
                        /\ f = n \div block_size
  OBVIOUS
<1>2. /\ DOMAIN k = ManagerFields /\ PoolInv(p) /\ t \in [Reqs -> Seq(Blocks)]
      /\ c \in [Reqs -> Nat] /\ \A q \in Reqs : TableOk(t[q], c[q], p.hash)
      /\ FreesOk(d) /\ RefsExact(p.ref, t, d)
  BY <1>1 DEF ManagerInv
<1>3. t[r] \in Seq(Blocks) /\ Len(t[r]) \in Nat /\ Different(t[r]) /\ c[r] \in Nat /\ c[r] <= Len(t[r])
  BY <1>2 DEF TableOk
<1>4. f \in Nat /\ f * block_size <= n /\ f <= Len(t[r])
  BY <1>0, <1>1, <1>3, DivTimes, DivAtMost
<1>5. n < block_size => f = 0
  <2>1. ASSUME n < block_size PROVE f = 0
    <3>1. 1 * block_size = block_size /\ f * block_size \in Nat
      BY <1>0, <1>4
    <3>2. f * block_size < 1 * block_size
      BY <1>0, <1>4, <2>1, <3>1
    <3>3. f < 1
      BY <1>0, <1>4, <3>2, TimesStrict
    <3> QED BY <1>4, <3>3
  <2> QED BY <2>1
<1>6. CASE c[r] >= f
  <2>1. cache_blocks(k, r, n) = k
    BY <1>1, <1>6 DEF cache_blocks
  <2>2. ~ \E i \in (c[r] + 1) .. f : TRUE
    BY <1>3, <1>4, <1>6
  <2>3. Names(k, k, r, n)
    BY <1>1, <1>6, <2>2 DEF Names
  <2> QED BY <2>1, <2>3 DEF CachedFrom
<1>7. CASE ~ (c[r] >= f)
  <2>1. PICK h : h = block_hashes(r)
    OBVIOUS
  <2>2. PICK p1, k1 : /\ p1 = cache_full_blocks(p, t[r], h, c[r] + 1, f)
                      /\ k1 = cache_blocks(k, r, n)
    OBVIOUS
  <2>3. k1 = [k EXCEPT !.pool = p1, !.num_cached_block = [c EXCEPT ![r] = f]]
    BY <1>1, <1>7, <2>1, <2>2 DEF cache_blocks
  <2>4. /\ DOMAIN k1 = ManagerFields /\ k1.pool = p1 /\ k1.req_to_blocks = t
        /\ k1.num_cached_block = [c EXCEPT ![r] = f]
    BY <1>1, <1>2, <2>3 DEF ManagerFields
  <2>5. ASSUME NEW i \in (c[r] + 1) .. f
        PROVE  h[i] = BlockHash(r, i) /\ h[i] # NoHash /\ p.hash[t[r][i]] = NoHash
    <3>1. i \in Nat /\ i >= 1 /\ i <= f /\ i > c[r] /\ i \in 1 .. Len(t[r])
      BY <1>3, <1>4
    <3>2. i * block_size <= f * block_size
      BY <1>0, <1>4, <3>1, TimesMonotone
    <3>3. i * block_size <= MaxLen(r)
      <4>1. i * block_size \in Nat /\ f * block_size \in Nat
        BY <1>0, <1>4, <3>1
      <4> QED BY <1>0, <1>4, <3>2, <4>1
    <3>4. i <= MaxLen(r) \div block_size /\ MaxLen(r) \div block_size \in Nat
      BY <1>0, <3>1, <3>3, DivAtLeast, DivTimes
    <3>5. h[i] = BlockHash(r, i)
      BY <2>1, <3>1, <3>4 DEF block_hashes
    <3>6. p.hash[t[r][i]] = NoHash
      BY <1>2, <3>1 DEF TableOk
    <3> QED BY <3>1, <3>3, <3>5, <3>6, HashIs
  <2>6. c[r] + 1 \in Nat /\ c[r] + 1 >= 1
    BY <1>3
  <2>7. /\ PoolInv(p1) /\ p1.free = p.free /\ p1.ref = p.ref
        /\ \A b \in Blocks : (\A i \in (c[r] + 1) .. f : t[r][i] # b) => p1.hash[b] = p.hash[b]
        /\ \A i \in (c[r] + 1) .. f : p1.hash[t[r][i]] = h[i]
    <3>1. PICK a, T : a = c[r] + 1 /\ T = t[r]
      OBVIOUS
    <3>2. /\ a \in Nat /\ a >= 1 /\ T \in Seq(Blocks) /\ Different(T) /\ f \in Nat /\ f <= Len(T)
      BY <1>3, <1>4, <2>6, <3>1
    <3>6. Uncached(p, T, h, a, f)
      BY <2>5, <3>1 DEF Uncached
    <3>3. PICK q : q = cache_full_blocks(p, T, h, a, f)
      OBVIOUS
    <3>4. CachedInto(p, q, T, h, a, f)
      BY <1>2, <3>2, <3>3, <3>6, CachePool
    <3>5. q = p1
      BY <2>2, <3>1, <3>3
    <3> QED BY <3>1, <3>4, <3>5 DEF CachedInto
  <2>8. ASSUME NEW q \in Reqs PROVE TableOk(t[q], k1.num_cached_block[q], p1.hash)
    <3>1. /\ TableOk(t[q], c[q], p.hash) /\ t[q] \in Seq(Blocks) /\ Len(t[q]) \in Nat
          /\ \A i \in 1 .. Len(t[q]) : t[q][i] \in Blocks /\ t[q][i] \in ToSet(t[q])
      BY <1>2, SetIs
    <3>2. CASE q = r
      <4>1. k1.num_cached_block[q] = f
        BY <1>2, <2>4, <3>2
      <4>2. ASSUME NEW i \in 1 .. Len(t[r]), i > f PROVE p1.hash[t[r][i]] = NoHash
        <5>1. i > c[r] /\ \A j \in (c[r] + 1) .. f : j \in 1 .. Len(t[r]) /\ j # i
          BY <1>3, <1>4, <1>7, <4>2
        <5>2. \A j \in (c[r] + 1) .. f : t[r][j] # t[r][i]
          BY <1>3, <5>1 DEF Different
        <5>3. p1.hash[t[r][i]] = p.hash[t[r][i]]
          BY <2>7, <3>1, <3>2, <5>2
        <5> QED BY <3>1, <3>2, <5>1, <5>3 DEF TableOk
      <4> QED BY <1>3, <1>4, <3>2, <4>1, <4>2 DEF TableOk
    <3>3. CASE q # r
      <4>1. k1.num_cached_block[q] = c[q]
        BY <1>2, <2>4, <3>3
      <4>2. ASSUME NEW i \in 1 .. Len(t[q]), i > c[q] PROVE p1.hash[t[q][i]] = NoHash
        <5>1. p.hash[t[q][i]] = NoHash
          BY <3>1, <4>2 DEF TableOk
        <5>2. t[q][i] \notin ToSet(t[r])
          <6>1. t[q][i] \in ToSet(k.req_to_blocks[q]) /\ k.pool.hash[t[q][i]] = NoHash
            BY <1>1, <3>1, <5>1
          <6> QED BY <1>1, <3>3, <6>1, TableHeld
        <5>3. \A j \in (c[r] + 1) .. f : j \in 1 .. Len(t[r])
          BY <1>3, <1>4
        <5>4. \A j \in (c[r] + 1) .. f : t[r][j] # t[q][i]
          BY <1>3, <5>2, <5>3, SetIs
        <5> QED BY <2>7, <3>1, <5>1, <5>4
      <4> QED BY <3>1, <4>1, <4>2 DEF TableOk
    <3> QED BY <3>2, <3>3
  <2>9. k1.num_cached_block \in [Reqs -> Nat]
    BY <1>2, <1>4, <2>4
  <2>10. ManagerInv(k1, d)
    BY <1>2, <2>4, <2>7, <2>8, <2>9 DEF ManagerInv
  <2>11. CachedFrom(k, k1, r)
    BY <1>1, <1>2, <2>4 DEF CachedFrom
  <2>12. ~ (n < block_size)
    BY <1>3, <1>5, <1>7
  <2>13. k1.num_cached_block[r] = f
    BY <1>2, <2>4
  <2>14. Names(k, k1, r, n)
    BY <1>1, <1>7, <2>4, <2>5, <2>7, <2>13 DEF Names
  <2> QED BY <2>2, <2>10, <2>11, <2>12, <2>14
<1> QED BY <1>6, <1>7

-----------------------------------------------------------------------------
(* Allocation.                                                              *)

\* Blocks that may enter the table of r from the prefix cache.
HitsOk(k, r, hits) ==
  /\ hits \in Seq(Blocks) /\ Different(hits)
  /\ \A b \in ToSet(hits) : k.pool.hash[b] # NoHash
  /\ hits = << >> \/ k.req_to_blocks[r] = << >>

Cat3(a, b, c) == (a \o b) \o c

\* The table of r has grown by the hits and some new blocks.
Grown(k, k1, r, hits, new) ==
  /\ k1.req_to_blocks = [k.req_to_blocks EXCEPT ![r] = Cat3(k.req_to_blocks[r], hits, new)]
  /\ k1.num_cached_block = [k.num_cached_block EXCEPT ![r] = k.num_cached_block[r] + Len(hits)]
  /\ DOMAIN k1 = ManagerFields

\* The pool p2 after the hits and the new blocks left p.
Taken(p, p2, hits, new) ==
  /\ PoolInv(p2) /\ new \in Seq(Blocks) /\ Different(new)
  /\ \A b \in ToSet(new) : p.ref[b] = 0 /\ b \notin ToSet(hits)
  /\ \A b \in Blocks : p2.ref[b] = p.ref[b] + Has(hits, b) + Has(new, b)
  /\ \A b \in Blocks : p2.hash[b] = IF b \in ToSet(new) THEN NoHash ELSE p.hash[b]

LEMMA TakenIs ==
  ASSUME NEW p, PoolInv(p), NEW hits \in Seq(Blocks), Different(hits),
         \A b \in ToSet(hits) : p.hash[b] # NoHash,
         NEW need \in Nat, need + Cardinality({b \in ToSet(hits) : p.ref[b] = 0}) <= Len(p.free)
  PROVE  /\ Taken(p, get_new_blocks(touch(p, hits), need), hits, NewBlocks(touch(p, hits), need))
         /\ Len(NewBlocks(touch(p, hits), need)) = need
<1>1. PICK p1 : p1 = touch(p, hits)
  OBVIOUS
<1>2. PICK ev : ev = Cardinality({b \in ToSet(hits) : p.ref[b] = 0})
  OBVIOUS
<1>3. /\ PoolInv(p1) /\ RefsUp(p, p1, ToSet(hits)) /\ p1.hash = p.hash
      /\ Len(p1.free) = Len(p.free) - ev /\ ev \in Nat
  BY <1>1, <1>2, TouchPool
<1>4. Len(p.free) \in Nat /\ need <= Len(p1.free)
  <2>1. Len(p.free) \in Nat
    BY DEF PoolInv
  <2> QED BY <1>2, <1>3, <2>1
<1>5. PICK p2, new : p2 = get_new_blocks(p1, need) /\ new = NewBlocks(p1, need)
  OBVIOUS
<1>6. /\ PoolInv(p2) /\ RefsUp(p1, p2, ToSet(new))
      /\ new \in Seq(Blocks) /\ Different(new) /\ Len(new) = need
      /\ \A b \in ToSet(new) : p1.ref[b] = 0
      /\ \A b \in Blocks : p2.hash[b] = IF b \in ToSet(new) THEN NoHash ELSE p1.hash[b]
  BY <1>3, <1>4, <1>5, NewPool
<1>7. ASSUME NEW b \in Blocks
      PROVE  p.ref[b] \in Nat /\ p1.ref[b] = p.ref[b] + Has(hits, b)
             /\ p2.ref[b] = p.ref[b] + Has(hits, b) + Has(new, b)
  <2>1. p.ref[b] \in Nat
    BY DEF PoolInv
  <2>2. p1.ref[b] = p.ref[b] + Has(hits, b) /\ p1.ref[b] \in Nat
    BY <1>3, <2>1 DEF RefsUp, Has
  <2>3. p2.ref[b] = p1.ref[b] + Has(new, b)
    BY <1>6, <2>2 DEF RefsUp, Has
  <2> QED BY <2>1, <2>2, <2>3
<1>8. ASSUME NEW b \in ToSet(new) PROVE p.ref[b] = 0 /\ b \notin ToSet(hits)
  <2>1. b \in Blocks /\ p1.ref[b] = 0
    BY <1>6, SetIs
  <2>2. Has(hits, b) \in Nat /\ (b \in ToSet(hits) => Has(hits, b) = 1)
    BY DEF Has
  <2> QED BY <1>7, <2>1, <2>2
<1> QED BY <1>1, <1>3, <1>5, <1>6, <1>7, <1>8 DEF Taken

\* What allocate_blocks does, if the blocks are free.
LEMMA AllocateIs ==
  ASSUME NEW k, NEW d, ManagerInv(k, d), NEW r \in Reqs, NEW hits, HitsOk(k, r, hits),
         NEW n \in Nat, num_blocks_to_allocate(k, r, n, hits) <= get_num_free_blocks(k.pool),
         NEW k1, k1 = allocate_blocks(k, r, hits, n)
  PROVE  \E new : /\ Taken(k.pool, k1.pool, hits, new) /\ Grown(k, k1, r, hits, new)
                  /\ n <= (Len(k.req_to_blocks[r]) + Len(hits) + Len(new)) * block_size
<1>0. block_size \in Nat /\ block_size >= 1
  BY ConstantFacts
<1>1. PICK t, p, c, table : /\ t = k.req_to_blocks /\ p = k.pool /\ c = k.num_cached_block
                            /\ table = t[r] \o hits
  OBVIOUS
<1>2. PICK ev : ev = Cardinality({b \in ToSet(hits) : p.ref[b] = 0})
  OBVIOUS
<1>3. PICK z : z = cdiv(n, block_size)
  OBVIOUS
<1>4. z \in Nat /\ n <= z * block_size
  BY <1>0, <1>3, CdivIs
<1>5. /\ PoolInv(p) /\ t \in [Reqs -> Seq(Blocks)] /\ c \in [Reqs -> Nat] /\ t[r] \in Seq(Blocks)
      /\ hits \in Seq(Blocks) /\ Different(hits) /\ \A b \in ToSet(hits) : p.hash[b] # NoHash
  BY <1>1 DEF ManagerInv, HitsOk
<1>6. Len(t[r]) \in Nat /\ Len(hits) \in Nat /\ Len(table) = Len(t[r]) + Len(hits)
  BY <1>1, <1>5
<1>7. PICK need : need = AtLeast0(z - Len(table))
  OBVIOUS
<1>8. /\ need \in Nat /\ z <= Len(table) + need
      /\ AtLeast0(z - Len(hits) - Len(t[r])) = need
  <2>1. PICK a, b, l : a = Len(t[r]) /\ b = Len(hits) /\ l = Len(table)
    OBVIOUS
  <2>2. a \in Nat /\ b \in Nat /\ l = a + b /\ need = AtLeast0(z - l)
    BY <1>6, <1>7, <2>1
  <2>3. need \in Nat /\ z <= l + need /\ AtLeast0(z - b - a) = need
    BY <1>4, <2>2 DEF AtLeast0
  <2> QED BY <2>1, <2>3
<1>9. need + ev <= Len(p.free)
  <2>1. num_blocks_to_allocate(k, r, n, hits) = AtLeast0(z - Len(hits) - Len(t[r])) + ev
    BY <1>1, <1>2, <1>3 DEF num_blocks_to_allocate
  <2>2. AtLeast0(z - Len(hits) - Len(t[r])) = need
    BY <1>8
  <2> QED BY <1>1, <2>1, <2>2 DEF get_num_free_blocks
<1>10. PICK p2, new : p2 = get_new_blocks(touch(p, hits), need) /\ new = NewBlocks(touch(p, hits), need)
  OBVIOUS
<1>11. Taken(p, p2, hits, new) /\ Len(new) = need
  BY <1>2, <1>5, <1>8, <1>9, <1>10, TakenIs
<1>12. k1 = [pool |-> p2, req_to_blocks |-> [t EXCEPT ![r] = table \o new],
             num_cached_block |-> [c EXCEPT ![r] = c[r] + Len(hits)]]
  BY <1>1, <1>3, <1>7, <1>10 DEF allocate_blocks
<1>13. Grown(k, k1, r, hits, new) /\ k1.pool = p2
  BY <1>1, <1>12 DEF Grown, ManagerFields, Cat3
<1>14. n <= (Len(t[r]) + Len(hits) + Len(new)) * block_size
  <2>1. PICK l : l = Len(t[r]) + Len(hits) + Len(new)
    OBVIOUS
  <2>2. l \in Nat /\ z <= l
    BY <1>6, <1>8, <1>11, <2>1
  <2>3. z * block_size <= l * block_size
    BY <1>0, <1>4, <2>2, TimesMonotone
  <2>4. z * block_size \in Nat /\ l * block_size \in Nat
    BY <1>0, <1>4, <2>2
  <2> QED BY <1>4, <2>1, <2>3, <2>4
<1> QED BY <1>1, <1>11, <1>13, <1>14

\* The table t1 is t after the hits and the new blocks.
TableGrown(t, c, hits, new, t1, hash) ==
  /\ t1 \in Seq(Blocks) /\ Len(t1) = Len(t) + Len(hits) + Len(new)
  /\ TableOk(t1, c + Len(hits), hash)
  /\ \A b \in Blocks : Has(t1, b) = Has(t, b) + Has(hits, b) + Has(new, b)

LEMMA GrownTable ==
  ASSUME NEW k, NEW d, ManagerInv(k, d), NEW r \in Reqs, NEW hits, HitsOk(k, r, hits),
         NEW k1, NEW new, Taken(k.pool, k1.pool, hits, new), NEW t1,
         t1 = Cat3(k.req_to_blocks[r], hits, new)
  PROVE  TableGrown(k.req_to_blocks[r], k.num_cached_block[r], hits, new, t1, k1.pool.hash)
<1>1. PICK t, p, c, s, hash : /\ t = k.req_to_blocks[r] /\ p = k.pool /\ c = k.num_cached_block[r]
                              /\ s = t \o hits /\ hash = k1.pool.hash
  OBVIOUS
<1>2. /\ PoolInv(p) /\ t \in Seq(Blocks) /\ c \in Nat /\ TableOk(t, c, p.hash)
  BY <1>1 DEF ManagerInv
<1>3. hits \in Seq(Blocks) /\ Different(hits) /\ (hits = << >> \/ t = << >>)
  BY <1>1 DEF HitsOk
<1>4. /\ new \in Seq(Blocks) /\ Different(new)
      /\ \A b \in ToSet(new) : p.ref[b] = 0 /\ b \notin ToSet(hits)
      /\ \A b \in Blocks : hash[b] = IF b \in ToSet(new) THEN NoHash ELSE p.hash[b]
  BY <1>1 DEF Taken
<1>5. ToSet(t) \cap ToSet(hits) = {}
  BY <1>3, NoBlocks
<1>6. Different(t)
  BY <1>2 DEF TableOk
<1>7. /\ s \in Seq(Blocks) /\ ToSet(s) = ToSet(t) \cup ToSet(hits) /\ Len(s) = Len(t) + Len(hits)
      /\ Different(s)
  BY <1>1, <1>2, <1>3, <1>5, <1>6, CatSet
<1>8. ToSet(t) \cap ToSet(new) = {}
  <2>1. ASSUME NEW b \in ToSet(t), b \in ToSet(new) PROVE FALSE
    <3>1. p.ref[b] >= 1
      BY <1>1, TableHeld
    <3>2. p.ref[b] = 0
      BY <1>4, <2>1
    <3> QED BY <3>1, <3>2
  <2> QED BY <2>1
<1>9. ToSet(s) \cap ToSet(new) = {}
  BY <1>4, <1>7, <1>8
<1>10. /\ t1 \in Seq(Blocks) /\ ToSet(t1) = ToSet(s) \cup ToSet(new) /\ Len(t1) = Len(s) + Len(new)
       /\ Different(t1)
  <2>1. t1 = s \o new
    BY <1>1 DEF Cat3
  <2>2. s \in Seq(Blocks) /\ new \in Seq(Blocks) /\ Different(s) /\ Different(new)
    BY <1>4, <1>7
  <2> QED BY <1>9, <2>1, <2>2, CatSet
<1>11. Len(t) \in Nat /\ Len(hits) \in Nat /\ Len(new) \in Nat
  BY <1>2, <1>3, <1>4
<1>12. ASSUME NEW i \in 1 .. Len(t1), i > c + Len(hits) PROVE hash[t1[i]] = NoHash
  <2>1. t1[i] \in Blocks
    <3>1. t1 \in Seq(Blocks)
      BY <1>10
    <3> QED BY <1>12, <3>1
  <2>2. CASE i <= Len(s)
    <3>1. hits = << >>
      <4>1. ASSUME t = << >> PROVE FALSE
        <5>1. Len(t) = 0
          BY <4>1
        <5> QED BY <1>2, <1>7, <1>11, <1>12, <2>2, <5>1 DEF TableOk
      <4> QED BY <1>3, <4>1
    <3>2. Len(hits) = 0
      BY <3>1
    <3>3. i \in 1 .. Len(t) /\ i > c /\ i \in 1 .. Len(s)
      BY <1>2, <1>7, <1>11, <1>12, <2>2, <3>2
    <3>4. t1[i] = s[i]
      BY <1>1, <1>4, <1>7, <3>3 DEF Cat3
    <3>5. s[i] = t[i]
      BY <1>1, <1>2, <1>3, <3>3
    <3>6. p.hash[t[i]] = NoHash
      BY <1>2, <3>3 DEF TableOk
    <3> QED BY <1>4, <2>1, <3>4, <3>5, <3>6
  <2>3. CASE ~ (i <= Len(s))
    <3>1. PICK j : j = i - Len(s)
      OBVIOUS
    <3>2. j \in 1 .. Len(new) /\ i = Len(s) + j
      BY <1>7, <1>10, <1>11, <2>3, <3>1
    <3>3. t1[i] = new[j]
      <4>1. t1 = s \o new /\ s \in Seq(Blocks) /\ new \in Seq(Blocks)
        BY <1>1, <1>4, <1>7 DEF Cat3
      <4>2. Len(s) \in Nat /\ i \in 1 .. (Len(s) + Len(new)) /\ ~ (i <= Len(s))
        BY <1>10, <1>12, <2>3, <4>1
      <4>3. t1[i] = new[i - Len(s)]
        BY <4>1, <4>2
      <4> QED BY <3>1, <4>3
    <3>4. new[j] \in ToSet(new)
      BY <1>4, <3>2, SetIs
    <3> QED BY <1>4, <2>1, <3>3, <3>4
  <2> QED BY <2>2, <2>3
<1>13. c + Len(hits) <= Len(t1)
  BY <1>2, <1>7, <1>10, <1>11 DEF TableOk
<1>14. TableOk(t1, c + Len(hits), hash)
  BY <1>10, <1>12, <1>13 DEF TableOk
<1>15. ASSUME NEW b \in Blocks PROVE Has(t1, b) = Has(t, b) + Has(hits, b) + Has(new, b)
  BY <1>4, <1>5, <1>7, <1>8, <1>10 DEF Has
<1>16. Len(t1) = Len(t) + Len(hits) + Len(new)
  BY <1>7, <1>10, <1>11
<1> QED BY <1>1, <1>10, <1>14, <1>15, <1>16 DEF TableGrown

\* Only the table of r has changed.
OthersKeep(k, k1, r) ==
  \A q \in Reqs : q # r => /\ k1.req_to_blocks[q] = k.req_to_blocks[q]
                           /\ k1.num_cached_block[q] = k.num_cached_block[q]

\* Only free blocks that are not hits have lost their hashes.
Forgets(k, k1, hits) ==
  \A b \in Blocks :
    \/ k1.pool.hash[b] = k.pool.hash[b]
    \/ k1.pool.hash[b] = NoHash /\ k.pool.ref[b] = 0 /\ b \notin ToSet(hits)

\* The allocation of n slots.
Allocated(k, k1, r, hits, n) ==
  /\ OthersKeep(k, k1, r)
  /\ Len(k1.req_to_blocks[r]) \in Nat /\ Len(k.req_to_blocks[r]) \in Nat
  /\ Len(k.req_to_blocks[r]) <= Len(k1.req_to_blocks[r])
  /\ n <= Len(k1.req_to_blocks[r]) * block_size
  /\ \E new \in Seq(Blocks) : k1.req_to_blocks[r] = Cat3(k.req_to_blocks[r], hits, new)
  /\ k1.num_cached_block[r] = k.num_cached_block[r] + Len(hits)
  /\ Forgets(k, k1, hits)

LEMMA AllocateManager ==
  ASSUME NEW k, NEW d, ManagerInv(k, d), NEW r \in Reqs, NEW hits, HitsOk(k, r, hits),
         NEW n \in Nat, num_blocks_to_allocate(k, r, n, hits) <= get_num_free_blocks(k.pool),
         NEW k1, k1 = allocate_blocks(k, r, hits, n)
  PROVE  ManagerInv(k1, d) /\ Allocated(k, k1, r, hits, n)
<1>1. PICK new : /\ Taken(k.pool, k1.pool, hits, new) /\ Grown(k, k1, r, hits, new)
                 /\ n <= (Len(k.req_to_blocks[r]) + Len(hits) + Len(new)) * block_size
  BY AllocateIs
<1>2. PICK t, p, c, t1, p1, c1 : /\ t = k.req_to_blocks /\ p = k.pool /\ c = k.num_cached_block
                                 /\ t1 = k1.req_to_blocks /\ p1 = k1.pool /\ c1 = k1.num_cached_block
  OBVIOUS
<1>3. PICK s : s = Cat3(t[r], hits, new)
  OBVIOUS
<1>4. /\ PoolInv(p) /\ t \in [Reqs -> Seq(Blocks)] /\ c \in [Reqs -> Nat]
      /\ \A q \in Reqs : TableOk(t[q], c[q], p.hash)
      /\ FreesOk(d) /\ RefsExact(p.ref, t, d)
  BY <1>2 DEF ManagerInv
<1>5. /\ s \in Seq(Blocks) /\ Len(s) = Len(t[r]) + Len(hits) + Len(new)
      /\ TableOk(s, c[r] + Len(hits), p1.hash)
      /\ \A b \in Blocks : Has(s, b) = Has(t[r], b) + Has(hits, b) + Has(new, b)
  <2>1. TableGrown(t[r], c[r], hits, new, s, p1.hash)
    BY <1>1, <1>2, <1>3, GrownTable
  <2> QED BY <2>1 DEF TableGrown
<1>6. t1 = [t EXCEPT ![r] = s] /\ c1 = [c EXCEPT ![r] = c[r] + Len(hits)] /\ DOMAIN k1 = ManagerFields
  BY <1>1, <1>2, <1>3 DEF Grown
<1>7. new \in Seq(Blocks) /\ hits \in Seq(Blocks) /\ t[r] \in Seq(Blocks) /\ c[r] \in Nat
  BY <1>1, <1>4 DEF Taken, HitsOk
<1>8. Len(t[r]) \in Nat /\ Len(hits) \in Nat /\ Len(new) \in Nat /\ Len(s) \in Nat
  BY <1>5, <1>7
<1>9. t1 \in [Reqs -> Seq(Blocks)] /\ c1 \in [Reqs -> Nat]
  BY <1>4, <1>5, <1>6, <1>7, <1>8
<1>10. /\ t1[r] = s /\ c1[r] = c[r] + Len(hits)
       /\ \A q \in Reqs : q # r => t1[q] = t[q] /\ c1[q] = c[q]
  BY <1>4, <1>6
<1>11. PoolInv(p1) /\ \A b \in Blocks : p1.hash[b] = IF b \in ToSet(new) THEN NoHash ELSE p.hash[b]
  BY <1>1, <1>2 DEF Taken
<1>12. ASSUME NEW q \in Reqs PROVE TableOk(t1[q], c1[q], p1.hash)
  <2>1. CASE q = r
    BY <1>5, <1>10, <2>1
  <2>2. CASE q # r
    <3>1. TableOk(t[q], c[q], p.hash) /\ \A i \in 1 .. Len(t[q]) : t[q][i] \in Blocks
      BY <1>4
    <3>2. \A i \in 1 .. Len(t[q]) : i > c[q] => p1.hash[t[q][i]] = NoHash
      BY <1>11, <3>1 DEF TableOk
    <3>3. TableOk(t[q], c[q], p1.hash)
      BY <3>1, <3>2 DEF TableOk
    <3> QED BY <1>10, <2>2, <3>3
  <2> QED BY <2>1, <2>2
<1>13. ASSUME NEW b \in Blocks PROVE p1.ref[b] = InTables(t1, b) + InFrees(d, b)
  <2>1. p.ref[b] = InTables(t, b) + InFrees(d, b)
    BY <1>4 DEF RefsExact
  <2>2. p1.ref[b] = p.ref[b] + Has(hits, b) + Has(new, b)
    BY <1>1, <1>2 DEF Taken
  <2>3. InTables(t1, b) + Has(t[r], b) = InTables(t, b) + Has(t1[r], b)
    <3>1. \A q \in Reqs : q # r => t1[q] = t[q]
      BY <1>10
    <3> QED BY <3>1, TablesChange
  <2>4. InTables(t, b) \in Nat /\ InTables(t1, b) \in Nat
    BY TablesNat
  <2>5. InFrees(d, b) \in Nat
    BY <1>4, FreesNat DEF FreesOk
  <2>6. Has(hits, b) \in Nat /\ Has(new, b) \in Nat /\ Has(t[r], b) \in Nat
    BY DEF Has
  <2>7. Has(t1[r], b) = Has(t[r], b) + Has(hits, b) + Has(new, b)
    BY <1>5, <1>10
  <2> QED BY <2>1, <2>2, <2>3, <2>4, <2>5, <2>6, <2>7
<1>14. RefsExact(p1.ref, t1, d)
  BY <1>13 DEF RefsExact
<1>15. ManagerInv(k1, d)
  BY <1>2, <1>4, <1>6, <1>9, <1>11, <1>12, <1>14 DEF ManagerInv
<1>16. OthersKeep(k, k1, r)
  BY <1>2, <1>10 DEF OthersKeep
<1>17. Len(t[r]) <= Len(s) /\ n <= Len(s) * block_size
  BY <1>1, <1>2, <1>5, <1>8
<1>18. Forgets(k, k1, hits)
  BY <1>1, <1>2, <1>11 DEF Taken, Forgets
<1> QED BY <1>2, <1>3, <1>7, <1>8, <1>10, <1>15, <1>16, <1>17, <1>18 DEF Allocated

\* The blocks of table t are in t1.
Within(t, t1) == \A b \in ToSet(t) : b \in ToSet(t1)

\* allocate_slots.
LEMMA SlotsManager ==
  ASSUME NEW k, NEW d, ManagerInv(k, d), NEW r \in Reqs, NEW hits, HitsOk(k, r, hits),
         NEW c \in Nat, NEW n \in Nat,
         num_blocks_to_allocate(k, r, c + n, hits) <= get_num_free_blocks(k.pool),
         NEW N \in Nat, N <= MaxLen(r),
         NEW k1, k1 = allocate_slots(k, r, hits, c, n, N)
  PROVE  /\ ManagerInv(k1, d) /\ OthersKeep(k, k1, r)
         /\ Len(k1.req_to_blocks[r]) \in Nat /\ Len(k.req_to_blocks[r]) \in Nat
         /\ Len(k.req_to_blocks[r]) <= Len(k1.req_to_blocks[r])
         /\ c + n <= Len(k1.req_to_blocks[r]) * block_size
         /\ Within(k.req_to_blocks[r], k1.req_to_blocks[r])
<1>0. PICK x : x = c + n
  OBVIOUS
<1>1. PICK k0, l : k0 = allocate_blocks(k, r, hits, x) /\ l = Min2(x, N)
  OBVIOUS
<1>2. /\ x \in Nat /\ l \in Nat /\ l <= x /\ l <= N
      /\ num_blocks_to_allocate(k, r, x, hits) <= get_num_free_blocks(k.pool)
  BY <1>0, <1>1 DEF Min2
<1>3. ManagerInv(k0, d) /\ Allocated(k, k0, r, hits, x)
  BY <1>1, <1>2, AllocateManager
<1>11. /\ OthersKeep(k, k0, r)
       /\ Len(k0.req_to_blocks[r]) \in Nat /\ Len(k.req_to_blocks[r]) \in Nat
       /\ Len(k.req_to_blocks[r]) <= Len(k0.req_to_blocks[r])
       /\ x <= Len(k0.req_to_blocks[r]) * block_size
       /\ \E new \in Seq(Blocks) : k0.req_to_blocks[r] = Cat3(k.req_to_blocks[r], hits, new)
  BY <1>3 DEF Allocated
<1>4. k1 = cache_blocks(k0, r, l)
  BY <1>0, <1>1 DEF allocate_slots
<1>5. MaxLen(r) \in Nat /\ block_size \in Nat /\ Len(k0.req_to_blocks[r]) * block_size \in Nat
  BY <1>11, MaxLenNat, ConstantFacts
<1>6. l <= MaxLen(r) /\ l <= Len(k0.req_to_blocks[r]) * block_size
  BY <1>2, <1>5, <1>11
<1>7. ManagerInv(k1, d) /\ CachedFrom(k0, k1, r)
  BY <1>2, <1>3, <1>4, <1>6, CacheManager
<1>8. k1.req_to_blocks = k0.req_to_blocks
  BY <1>7 DEF CachedFrom
<1>9. OthersKeep(k, k1, r)
  BY <1>7, <1>11 DEF OthersKeep, CachedFrom
<1>10. ASSUME NEW b \in ToSet(k.req_to_blocks[r]) PROVE b \in ToSet(k0.req_to_blocks[r])
  <2>1. PICK new \in Seq(Blocks) : k0.req_to_blocks[r] = Cat3(k.req_to_blocks[r], hits, new)
    BY <1>11
  <2>2. k.req_to_blocks[r] \in Seq(Blocks) /\ hits \in Seq(Blocks)
    BY DEF ManagerInv, HitsOk
  <2>3. PICK s : s = k.req_to_blocks[r] \o hits
    OBVIOUS
  <2>4. s \in Seq(Blocks) /\ b \in ToSet(s)
    BY <2>2, <2>3, CatSet
  <2>5. k0.req_to_blocks[r] = s \o new
    BY <2>1, <2>3 DEF Cat3
  <2>6. ToSet(s \o new) = ToSet(s) \cup ToSet(new)
    BY <2>4, CatSet
  <2> QED BY <2>4, <2>5, <2>6
<1>12. Within(k.req_to_blocks[r], k1.req_to_blocks[r])
  BY <1>8, <1>10 DEF Within
<1> QED BY <1>0, <1>11, <1>7, <1>8, <1>9, <1>12

-----------------------------------------------------------------------------
(* The blocks of a lookup, and what is left free.                           *)

\* A block that a lookup finds has the hash that was looked up.
LEMMA CachedIs ==
  ASSUME NEW p, PoolInv(p), NEW h, NEW b \in get_cached_block(p, h)
  PROVE  b \in Blocks /\ p.hash[b] = h /\ p.hash[b] # NoHash
<1>1. PICK e \in p.cached : e[1] = h /\ e[2] = b
  BY DEF get_cached_block
<1>2. p.cached = {<<p.hash[c], c>> : c \in {a \in Blocks : p.hash[a] # NoHash}}
  BY DEF PoolInv, MapMatchesHashes
<1>3. PICK c \in Blocks : p.hash[c] # NoHash /\ e = <<p.hash[c], c>>
  BY <1>1, <1>2
<1> QED BY <1>1, <1>3

\* The hits may enter the table, unless it holds more than a first token.
LEMMA HitsFit ==
  ASSUME NEW d, ManagerInv(m, d), NEW r \in Reqs, Numbers(req[r]), req[r].num_tokens < MaxLen(r),
         NEW hits \in Hits(r),
         m.req_to_blocks[r] # << >> => req[r].num_computed_tokens > 0 \/ req[r].num_tokens = 1
  PROVE  HitsOk(m, r, hits)
<1>0. /\ block_size \in Nat /\ block_size >= 1 /\ MaxLen(r) \in Nat
      /\ req[r].num_tokens \in Nat /\ req[r].num_tokens >= 1 /\ req[r].num_computed_tokens \in Nat
  BY ConstantFacts, MaxLenNat DEF Numbers
<1>1. /\ hits \in Seq(Blocks) /\ Len(hits) \in Nat
      /\ Len(hits) * block_size <= req[r].num_tokens - 1
      /\ req[r].num_computed_tokens # 0 => hits = << >>
      /\ \A i \in 1 .. Len(hits) : hits[i] \in get_cached_block(m.pool, BlockHash(r, i))
  BY <1>0, HitsAre
<1>2. PoolInv(m.pool)
  BY DEF ManagerInv
<1>3. ASSUME NEW i \in 1 .. Len(hits)
      PROVE  /\ m.pool.hash[hits[i]] = BlockHash(r, i) /\ m.pool.hash[hits[i]] # NoHash
             /\ BlockHash(r, i)[2] = i * block_size
  <2>1. i \in Nat /\ i >= 1 /\ i <= Len(hits)
    BY <1>1
  <2>2. i * block_size <= Len(hits) * block_size
    BY <1>0, <1>1, <2>1, TimesMonotone
  <2>3. i * block_size <= MaxLen(r)
    <3>1. i * block_size \in Nat /\ Len(hits) * block_size \in Nat
      BY <1>0, <1>1, <2>1
    <3> QED BY <1>0, <1>1, <2>2, <3>1
  <2>4. BlockHash(r, i)[2] = i * block_size
    BY <2>1, <2>3, HashIs
  <2>5. hits[i] \in get_cached_block(m.pool, BlockHash(r, i))
    BY <1>1
  <2>6. m.pool.hash[hits[i]] = BlockHash(r, i) /\ m.pool.hash[hits[i]] # NoHash
    BY <1>2, <2>5, CachedIs
  <2> QED BY <2>4, <2>6
<1>4. Different(hits)
  <2> SUFFICES ASSUME NEW i \in 1 .. Len(hits), NEW j \in 1 .. Len(hits), hits[i] = hits[j]
               PROVE  i = j
    BY DEF Different
  <2>1. i * block_size = j * block_size /\ i \in Nat /\ j \in Nat
    <3>1. BlockHash(r, i) = BlockHash(r, j)
      BY <1>3
    <3> QED BY <1>1, <1>3, <3>1
  <2>2. ~ (i + 1 <= j) /\ ~ (j + 1 <= i)
    <3>1. (i + 1) * block_size = i * block_size + block_size /\ i * block_size \in Nat
          /\ (j + 1) * block_size = j * block_size + block_size /\ j * block_size \in Nat
      BY <1>0, <2>1
    <3>2. i + 1 <= j => (i + 1) * block_size <= j * block_size
      BY <1>0, <2>1, TimesMonotone
    <3>3. j + 1 <= i => (j + 1) * block_size <= i * block_size
      BY <1>0, <2>1, TimesMonotone
    <3> QED BY <1>0, <2>1, <3>1, <3>2, <3>3
  <2> QED BY <2>1, <2>2
<1>5. \A b \in ToSet(hits) : m.pool.hash[b] # NoHash
  BY <1>1, <1>3, SetIs
<1>6. hits = << >> \/ m.req_to_blocks[r] = << >>
  <2>1. ASSUME req[r].num_tokens = 1 PROVE hits = << >>
    <3>1. Len(hits) * block_size <= 0
      BY <1>1, <2>1
    <3>2. ~ (1 <= Len(hits))
      <4>1. 1 <= Len(hits) => 1 * block_size <= Len(hits) * block_size
        BY <1>0, <1>1, TimesMonotone
      <4>2. 1 * block_size = block_size /\ Len(hits) * block_size \in Nat
        BY <1>0, <1>1
      <4> QED BY <1>0, <3>1, <4>1, <4>2
    <3>3. Len(hits) = 0
      BY <1>1, <3>2
    <3> QED BY <1>1, <3>3
  <2> QED BY <1>0, <1>1, <2>1
<1> QED BY <1>1, <1>4, <1>5, <1>6 DEF HitsOk

\* No hits at all.
LEMMA NoHitsFit ==
  ASSUME NEW k, NEW r
  PROVE  HitsOk(k, r, << >>)
<1>1. PICK s : s = << >>
  OBVIOUS
<1>2. Different(s) /\ ToSet(s) = {} /\ Len(s) = 0 /\ s \in Seq(Blocks)
  BY <1>1, NoBlocks
<1> QED BY <1>1, <1>2 DEF HitsOk

LEMMA CdivMonotone ==
  ASSUME NEW a \in Nat, NEW b \in Nat, a <= b, NEW d \in Nat, d >= 1
  PROVE  cdiv(a, d) <= cdiv(b, d) /\ cdiv(a, d) \in Nat /\ cdiv(b, d) \in Nat
<1>1. PICK x, y : x = cdiv(a, d) /\ y = cdiv(b, d)
  OBVIOUS
<1>2. x \in Nat /\ x * d < a + d /\ y \in Nat /\ b <= y * d
  BY <1>1, CdivIs
<1>3. x * d < (y + 1) * d
  <2>1. (y + 1) * d = y * d + d /\ x * d \in Nat /\ y * d \in Nat
    BY <1>2
  <2> QED BY <1>2, <2>1
<1>4. x < y + 1
  BY <1>2, <1>3, TimesStrict
<1> QED BY <1>1, <1>2, <1>4

\* Fewer tokens need no more blocks.
LEMMA NeedMonotone ==
  ASSUME NEW k, NEW d, ManagerInv(k, d), NEW r \in Reqs, NEW hits, HitsOk(k, r, hits),
         NEW a \in Nat, NEW b \in Nat, a <= b
  PROVE  /\ num_blocks_to_allocate(k, r, a, hits) \in Nat
         /\ num_blocks_to_allocate(k, r, b, hits) \in Nat
         /\ num_blocks_to_allocate(k, r, a, hits) <= num_blocks_to_allocate(k, r, b, hits)
<1>1. PICK x, y : x = cdiv(a, block_size) /\ y = cdiv(b, block_size)
  OBVIOUS
<1>2. x \in Nat /\ y \in Nat /\ x <= y
  BY <1>1, CdivMonotone, ConstantFacts
<1>3. PICK ev, h, t : /\ ev = Cardinality({e \in ToSet(hits) : k.pool.ref[e] = 0})
                      /\ h = Len(hits) /\ t = Len(k.req_to_blocks[r])
  OBVIOUS
<1>4. h \in Nat /\ t \in Nat
  <2>1. hits \in Seq(Blocks) /\ k.req_to_blocks[r] \in Seq(Blocks)
    BY DEF HitsOk, ManagerInv
  <2> QED BY <1>3, <2>1
<1>5. ev \in Nat
  <2>1. /\ PoolInv(k.pool) /\ hits \in Seq(Blocks) /\ Different(hits)
        /\ \A e \in ToSet(hits) : k.pool.hash[e] # NoHash
    BY DEF HitsOk, ManagerInv
  <2> QED BY <1>3, <2>1, TouchPool
<1>6. /\ num_blocks_to_allocate(k, r, a, hits) = AtLeast0(x - h - t) + ev
      /\ num_blocks_to_allocate(k, r, b, hits) = AtLeast0(y - h - t) + ev
  BY <1>1, <1>3 DEF num_blocks_to_allocate
<1>7. AtLeast0(x - h - t) \in Nat /\ AtLeast0(y - h - t) \in Nat /\ AtLeast0(x - h - t) <= AtLeast0(y - h - t)
  BY <1>2, <1>4 DEF AtLeast0
<1> QED BY <1>5, <1>6, <1>7

\* c holds the sums of the first numbers of s, up to n of them.
SumsTo(c, s, n) ==
  c \in [0 .. n -> Nat] /\ c[0] = 0 /\ \A i \in 1 .. n : c[i] = c[i - 1] + s[i]

LEMMA SumsNext ==
  ASSUME NEW s, NEW n \in Nat, s[n + 1] \in Nat, NEW c, SumsTo(c, s, n)
  PROVE  \E c1 : SumsTo(c1, s, n + 1)
<1>1. PICK c1 : c1 = [i \in 0 .. (n + 1) |-> IF i = n + 1 THEN c[n] + s[n + 1] ELSE c[i]]
  OBVIOUS
<1>2. c \in [0 .. n -> Nat] /\ c[0] = 0 /\ \A i \in 1 .. n : c[i] = c[i - 1] + s[i]
  BY DEF SumsTo
<1>3. c[n] \in Nat /\ c[n] + s[n + 1] \in Nat
  BY <1>2
<1>4. c1 \in [0 .. (n + 1) -> Nat]
  <2>1. \A i \in 0 .. (n + 1) : i # n + 1 => i \in 0 .. n
    OBVIOUS
  <2> QED BY <1>1, <1>2, <1>3, <2>1
<1>5. c1[0] = 0 /\ c1[n + 1] = c[n] + s[n + 1] /\ \A i \in 0 .. n : c1[i] = c[i]
  BY <1>1, <1>2
<1>6. ASSUME NEW i \in 1 .. (n + 1) PROVE c1[i] = c1[i - 1] + s[i]
  <2>1. CASE i = n + 1
    BY <1>5, <2>1
  <2>2. CASE i # n + 1
    <3>1. i \in 1 .. n /\ i \in 0 .. n /\ i - 1 \in 0 .. n
      BY <2>2
    <3> QED BY <1>2, <1>5, <3>1
  <2> QED BY <2>1, <2>2
<1>7. SumsTo(c1, s, n + 1)
  BY <1>4, <1>5, <1>6 DEF SumsTo
<1> QED BY <1>7

\* Sums of natural numbers are natural numbers.
LEMMA SumsNat ==
  ASSUME NEW s \in Seq(Nat)
  PROVE  Sums(s)[Len(s)] \in Nat
<1>1. PICK l \in Nat : l = Len(s)
  OBVIOUS
<1>2. PICK S : S = {n \in 0 .. l : ~ \E c : SumsTo(c, s, n)}
  OBVIOUS
<1>3. \E c : SumsTo(c, s, 0)
  <2>1. PICK c : c = [i \in 0 .. 0 |-> 0]
    OBVIOUS
  <2>2. SumsTo(c, s, 0)
    BY <2>1 DEF SumsTo
  <2> QED BY <2>2
<1>4. S = {}
  <2> SUFFICES ASSUME S # {} PROVE FALSE
    OBVIOUS
  <2>1. PICK n \in S : \A k \in S : n <= k
    <3>1. S \subseteq Nat
      BY <1>2
    <3> QED BY <3>1, LeastNat
  <2>2. n \in 0 .. l /\ n # 0 /\ ~ \E c : SumsTo(c, s, n)
    BY <1>2, <1>3, <2>1
  <2>3. PICK k \in Nat : n = k + 1
    <3>1. n - 1 \in Nat /\ n = (n - 1) + 1
      BY <2>2
    <3> QED BY <3>1
  <2>4. k \notin S /\ k \in 0 .. l
    BY <2>1, <2>2, <2>3
  <2>5. PICK c : SumsTo(c, s, k)
    BY <1>2, <2>4
  <2>6. s[k + 1] \in Nat
    <3>1. k + 1 \in 1 .. Len(s)
      BY <1>1, <2>2, <2>3
    <3> QED BY <3>1
  <2>7. \E c1 : SumsTo(c1, s, k + 1)
    BY <2>5, <2>6, SumsNext
  <2> QED BY <2>2, <2>3, <2>7
<1>5. PICK c : SumsTo(c, s, l)
  <2>1. l \in 0 .. l
    BY <1>1
  <2> QED BY <1>2, <1>4, <2>1
<1>6. /\ c \in [0 .. l -> Nat] /\ c[0] = 0 /\ \A i \in 1 .. l : c[i] = c[i - 1] + s[i]
  BY <1>5 DEF SumsTo
<1>7. DOMAIN c = 0 .. Len(s) /\ c = [i \in DOMAIN c |-> c[i]] /\ c[l] \in Nat
  BY <1>1, <1>6
<1>8. Sums(s) = c
  <2>1. \A i \in 1 .. Len(s) : c[i] = c[i - 1] + s[i]
    BY <1>1, <1>6
  <2>2. Len(s) \in Nat /\ c[0] = 0
    BY <1>1, <1>6
  <2> QED BY <1>7, <2>1, <2>2, SumsAre
<1> QED BY <1>1, <1>7, <1>8

LEMMA ReservedNat ==
  ASSUME NEW d, ManagerInv(m, d), \A r \in Reqs : Numbers(req[r])
  PROVE  ReservedBlocks \in Nat
<1>1. PICK s : s = [q \in Reqs |-> IF req[q].prefilling
                                   THEN num_blocks_to_allocate(m, q, req[q].num_tokens, << >>)
                                   ELSE 0]
  OBVIOUS
<1>2. ASSUME NEW q \in Reqs PROVE s[q] \in Nat
  <2>1. req[q].num_tokens \in Nat
    BY DEF Numbers
  <2>2. HitsOk(m, q, << >>)
    BY NoHitsFit
  <2>3. num_blocks_to_allocate(m, q, req[q].num_tokens, << >>) \in Nat
    <3>1. PICK n, h : n = req[q].num_tokens /\ h = << >>
      OBVIOUS
    <3>2. n \in Nat /\ n <= n /\ HitsOk(m, q, h)
      BY <2>1, <2>2, <3>1
    <3>3. num_blocks_to_allocate(m, q, n, h) \in Nat
      BY <3>2, NeedMonotone
    <3> QED BY <3>1, <3>3
  <2> QED BY <1>1, <2>3
<1>3. NumReqs \in Nat
  BY ManagerAssumption
<1>4. s \in Seq(Nat) /\ Len(s) = NumReqs
  <2>1. s \in [1 .. NumReqs -> Nat]
    BY <1>1, <1>2 DEF Reqs
  <2> QED BY <1>3, <2>1
<1>5. Sums(s)[NumReqs] \in Nat
  BY <1>4, SumsNat
<1> QED BY <1>1, <1>5 DEF ReservedBlocks

-----------------------------------------------------------------------------
(* The invariant.                                                           *)

PCs == {"idle", "running", "allocate", "waiting", "issue", "drain", "update",
        "reset", "reset_running", "reset_failed"}

\* The table t of a request q, of which c blocks are cached, has room for its
\* computed tokens. A request that waits has a table only from a load: it lost
\* all its output in flight, and a lookup finds nothing for it.
HeldBy(q, t, c) ==
  /\ q.status = "ABSENT" => t = << >>
  /\ q.status \notin {"ABSENT", "FINISHED"} => q.num_computed_tokens <= Len(t) * block_size
  /\ q.status \in Waitable /\ t # << >> =>
       /\ q.num_stale_output_tokens > 0 => q.drop_stale_output
       /\ q.status # "WAITING_FOR_REMOTE_KVS" => q.num_computed_tokens > 0 \/ q.num_tokens = 1
       /\ block_size > 1 /\ q.num_tokens = 1 => c = 0

\* The load l of request q writes blocks of its table that are not cached.
LoadedBy(q, l, t, c) ==
  /\ l.state \in {"none", "transfer", "arrived", "finished"}
  /\ q.status = "WAITING_FOR_REMOTE_KVS" => l.state # "none"
  /\ l.state \in {"transfer", "arrived"} =>
       /\ q.status \in {"WAITING_FOR_REMOTE_KVS", "FINISHED"}
       /\ block_size > 1 => \A b \in l.blocks : \E i \in 1 .. Len(t) : i > c /\ t[i] = b

TablesInv ==
  \A r \in Reqs : HeldBy(req[r], m.req_to_blocks[r], m.num_cached_block[r])
LoadsInv ==
  \A r \in Reqs : LoadedBy(req[r], load[r], m.req_to_blocks[r], m.num_cached_block[r])

\* A load that brought nothing has failed, or its request is about to.
FailedLoad(r) ==
  load[r].failed \/ (pc = "update" /\ Invalid(r) /\ config.kv_load = "fail")
LoadingInv ==
  \A r \in Reqs : Loading(r) =>
    config.kv_load # "none" /\ (req[r].num_computed_tokens = 0 => FailedLoad(r))

\* The tables have room for the step in the making.
RoomInv ==
  pc \in LoopStates => \A i \in DOMAIN loop.scheduled :
    req[loop.scheduled[i][1]].num_computed_tokens + loop.scheduled[i][2]
      <= Len(m.req_to_blocks[loop.scheduled[i][1]]) * block_size

BlockInv ==
  /\ config \in Configurations /\ pc \in PCs
  /\ ManagerInv(m, deferred_frees) /\ TablesInv /\ LoadsInv /\ LoadingInv /\ RoomInv

-----------------------------------------------------------------------------
(* What changes.                                                            *)

LEMMA FreeRequestManager ==
  ASSUME NEW k, ManagerInv(k, deferred_frees), NEW r \in Reqs, FreeRequestBlocks(k, r)
  PROVE  ManagerInv(m', deferred_frees') /\ Emptied(k, m', r)
<1>1. CASE CanFreeNow(r)
  <2>1. m' = free(k, r) /\ deferred_frees' = deferred_frees
    BY <1>1 DEF FreeRequestBlocks
  <2> QED BY <2>1, FreeManager
<1>2. CASE ~ CanFreeNow(r)
  <2>1. /\ m' = pop_blocks_for_free(k, r)
        /\ deferred_frees' = IF k.req_to_blocks[r] = << >> THEN deferred_frees
                             ELSE Append(deferred_frees, <<sched_step_seq, k.req_to_blocks[r]>>)
    BY <1>2 DEF FreeRequestBlocks
  <2>2. PICK k1, d : k1 = pop_blocks_for_free(k, r)
                     /\ d = Append(deferred_frees, <<sched_step_seq, k.req_to_blocks[r]>>)
    OBVIOUS
  <2>3. /\ Emptied(k, k1, r) /\ ManagerInv(k1, d)
        /\ k.req_to_blocks[r] = << >> => ManagerInv(k1, deferred_frees)
    BY <2>2, PopManager
  <2> QED BY <2>1, <2>2, <2>3
<1> QED BY <1>1, <1>2

LEMMA EmptiedKeeps ==
  ASSUME NEW k, NEW d, ManagerInv(k, d), NEW r \in Reqs, NEW k1, Emptied(k, k1, r)
  PROVE  OthersKeep(k, k1, r) /\ k1.req_to_blocks[r] = << >> /\ Len(k1.req_to_blocks[r]) = 0
<1>1. /\ k1.req_to_blocks[r] = << >>
      /\ \A q \in Reqs : q # r => /\ k1.req_to_blocks[q] = k.req_to_blocks[q]
                                 /\ k1.num_cached_block[q] = k.num_cached_block[q]
  BY EmptiedTables
<1>2. Len(k1.req_to_blocks[r]) = 0
  BY <1>1
<1> QED BY <1>1, <1>2 DEF OthersKeep

\* Only request r changes.
LEMMA OneTable ==
  ASSUME TablesInv, LoadsInv, NEW r \in Reqs, OthersKeep(m, m', r),
         \A q \in Reqs : q # r => req'[q] = req[q] /\ load'[q] = load[q],
         HeldBy(req'[r], m'.req_to_blocks[r], m'.num_cached_block[r]),
         LoadedBy(req'[r], load'[r], m'.req_to_blocks[r], m'.num_cached_block[r])
  PROVE  TablesInv' /\ LoadsInv'
<1>1. ASSUME NEW q \in Reqs
      PROVE  /\ HeldBy(req'[q], m'.req_to_blocks[q], m'.num_cached_block[q])
             /\ LoadedBy(req'[q], load'[q], m'.req_to_blocks[q], m'.num_cached_block[q])
  <2>1. CASE q = r
    BY <2>1
  <2>2. CASE q # r
    <3>1. /\ req'[q] = req[q] /\ load'[q] = load[q]
          /\ m'.req_to_blocks[q] = m.req_to_blocks[q]
          /\ m'.num_cached_block[q] = m.num_cached_block[q]
      BY <2>2 DEF OthersKeep
    <3>2. /\ HeldBy(req[q], m.req_to_blocks[q], m.num_cached_block[q])
          /\ LoadedBy(req[q], load[q], m.req_to_blocks[q], m.num_cached_block[q])
      BY DEF TablesInv, LoadsInv
    <3> QED BY <3>1, <3>2
  <2> QED BY <2>1, <2>2
<1> QED BY <1>1 DEF TablesInv, LoadsInv, HeldBy, LoadedBy

\* The fields of a request that its blocks depend on.
SameNeeds(q, q1) ==
  /\ q1.status = q.status /\ q1.num_tokens = q.num_tokens
  /\ q1.num_computed_tokens = q.num_computed_tokens
  /\ q1.drop_stale_output = q.drop_stale_output
  /\ q1.num_stale_output_tokens > 0 => q.num_stale_output_tokens > 0

\* No table changes.
LEMMA NoTable ==
  ASSUME TablesInv, LoadsInv, UNCHANGED m,
         \A r \in Reqs : SameNeeds(req[r], req'[r])
                         /\ load'[r].state = load[r].state /\ load'[r].blocks = load[r].blocks
  PROVE  TablesInv' /\ LoadsInv'
<1>1. ASSUME NEW r \in Reqs
      PROVE  /\ HeldBy(req'[r], m'.req_to_blocks[r], m'.num_cached_block[r])
             /\ LoadedBy(req'[r], load'[r], m'.req_to_blocks[r], m'.num_cached_block[r])
  <2>1. PICK q, q1, t, c : /\ q = req[r] /\ q1 = req'[r]
                           /\ t = m.req_to_blocks[r] /\ c = m.num_cached_block[r]
    OBVIOUS
  <2>2. m'.req_to_blocks[r] = t /\ m'.num_cached_block[r] = c
    BY <2>1
  <2>3. HeldBy(q, t, c) /\ LoadedBy(q, load[r], t, c) /\ SameNeeds(q, q1)
    BY <2>1 DEF TablesInv, LoadsInv
  <2>4. HeldBy(q1, t, c)
    BY <2>3 DEF HeldBy, SameNeeds
  <2>5. LoadedBy(q1, load'[r], t, c)
    BY <2>3 DEF LoadedBy, SameNeeds
  <2> QED BY <2>1, <2>2, <2>4, <2>5
<1> QED BY <1>1 DEF TablesInv, LoadsInv, HeldBy, LoadedBy

\* The loads that are under way stay as they are.
LEMMA LoadingKept ==
  ASSUME LoadingInv, UNCHANGED config,
         \A q \in Reqs : Loading(q)' => (/\ Loading(q)
                                         /\ req'[q].num_computed_tokens = req[q].num_computed_tokens
                                         /\ FailedLoad(q) => FailedLoad(q)')
  PROVE  LoadingInv'
BY DEF LoadingInv

\* A load has failed already when update_from_output is not at work.
LEMMA FailedKept ==
  ASSUME NEW q \in Reqs, pc # "update", load'[q].failed = load[q].failed
  PROVE  FailedLoad(q) => FailedLoad(q)'
BY DEF FailedLoad

LEMMA RoomIdle ==
  ASSUME pc' \notin LoopStates \/ loop'.scheduled = << >>
  PROVE  RoomInv'
BY DEF RoomInv

\* What is scheduled stays, and so do the tables of the requests that run.
LEMMA RoomKept ==
  ASSUME LoopInv, RoomInv, pc \in LoopStates, loop'.scheduled = loop.scheduled,
         \A q \in Reqs : req[q].status = "RUNNING" =>
           /\ req'[q].num_computed_tokens = req[q].num_computed_tokens
           /\ m'.req_to_blocks[q] = m.req_to_blocks[q]
  PROVE  RoomInv'
<1> SUFFICES ASSUME NEW i \in DOMAIN loop.scheduled
             PROVE  req'[loop.scheduled[i][1]].num_computed_tokens + loop.scheduled[i][2]
                      <= Len(m'.req_to_blocks[loop.scheduled[i][1]]) * block_size
  BY DEF RoomInv
<1>1. PICK q, n : q = loop.scheduled[i][1] /\ n = loop.scheduled[i][2]
  OBVIOUS
<1>2. loop.scheduled[i] \in Reqs \X (Nat \ {0}) /\ Takes(req[q], n)
  BY <1>1 DEF LoopInv, LoopStates
<1>3. q \in Reqs /\ req[q].status = "RUNNING"
  BY <1>1, <1>2 DEF Takes
<1>4. req[q].num_computed_tokens + n <= Len(m.req_to_blocks[q]) * block_size
  BY <1>1 DEF RoomInv
<1>5. /\ req'[q].num_computed_tokens = req[q].num_computed_tokens
      /\ m'.req_to_blocks[q] = m.req_to_blocks[q]
  BY <1>3
<1> QED BY <1>1, <1>4, <1>5

LEMMA BlockInit == Init => BlockInv
<1> SUFFICES ASSUME Init PROVE BlockInv
  OBVIOUS
<1>1. config \in Configurations /\ pc \in PCs /\ deferred_frees = << >> /\ m = InitManager
  BY DEF Init, PCs
<1>2. ManagerInv(m, << >>)
  <2>1. PICK k : k = InitManager
    OBVIOUS
  <2>2. /\ DOMAIN k = ManagerFields /\ k.pool = InitPool
        /\ k.req_to_blocks = [r \in Reqs |-> << >>] /\ k.num_cached_block = [r \in Reqs |-> 0]
    BY <2>1 DEF InitManager, ManagerFields
  <2>3. PICK p : p = InitPool
    OBVIOUS
  <2>4. /\ DOMAIN p = PoolFields /\ p.free = [i \in Blocks |-> i]
        /\ p.ref = [b \in Blocks |-> 0] /\ p.hash = [b \in Blocks |-> NoHash] /\ p.cached = {}
    BY <2>3 DEF InitPool, PoolFields
  <2>5. PICK f : f = p.free
    OBVIOUS
  <2>6. f \in Seq(Blocks) /\ Len(f) = num_gpu_blocks - 1 /\ \A i \in Blocks : f[i] = i
    <3>1. num_gpu_blocks - 1 \in Nat
      BY PoolAssumption
    <3> QED BY <2>4, <2>5, <3>1 DEF Blocks
  <2>7. Different(f) /\ ToSet(f) = Blocks
    BY <2>6 DEF Different, ToSet, Blocks
  <2>8. PoolInv(p)
    <3>1. MapMatchesHashes(p)
      BY <2>4 DEF MapMatchesHashes
    <3>2. p.ref \in [Blocks -> Nat] /\ \A b \in Blocks : p.ref[b] = 0
      BY <2>4
    <3>3. p.free \in Seq(Blocks) /\ Different(p.free) /\ ToSet(p.free) = Blocks
      BY <2>5, <2>6, <2>7
    <3>4. /\ DOMAIN p.hash = Blocks /\ \A b \in Blocks : b \in ToSet(p.free) <=> p.ref[b] = 0
          /\ \A b \in Blocks : p.ref[b] <= 1
      BY <2>4, <3>2, <3>3
    <3> QED BY <2>4, <3>1, <3>2, <3>3, <3>4 DEF PoolInv
  <2>9. << >> \in Seq(Blocks) /\ 0 \in Nat
    OBVIOUS
  <2>10. /\ k.req_to_blocks \in [Reqs -> Seq(Blocks)] /\ k.num_cached_block \in [Reqs -> Nat]
    BY <2>2, <2>9
  <2>11. \A r \in Reqs : TableOk(k.req_to_blocks[r], k.num_cached_block[r], k.pool.hash)
    <3>1. PICK s : s = << >>
      OBVIOUS
    <3>2. TableOk(s, 0, k.pool.hash)
      BY <3>1, EmptyTable
    <3> QED BY <2>2, <3>1, <3>2
  <2>12. FreesOk(<< >>)
    <3>1. << >> \in Seq({}) /\ DOMAIN << >> = {}
      OBVIOUS
    <3> QED BY <3>1 DEF FreesOk
  <2>13. \A b \in Blocks : InTables(k.req_to_blocks, b) = 0 /\ InFrees(<< >>, b) = 0
    <3> SUFFICES ASSUME NEW b \in Blocks
                 PROVE  InTables(k.req_to_blocks, b) = 0 /\ InFrees(<< >>, b) = 0
      OBVIOUS
    <3>1. {r \in Reqs : b \in ToSet(k.req_to_blocks[r])} = {}
      BY <2>2 DEF ToSet
    <3>2. {i \in DOMAIN << >> : b \in ToSet(<< >>[i][2])} = {}
      OBVIOUS
    <3> QED BY <3>1, <3>2, FS_EmptySet DEF InTables, InFrees
  <2>14. RefsExact(k.pool.ref, k.req_to_blocks, << >>)
    <3>1. \A b \in Blocks : k.pool.ref[b] = 0
      BY <2>2, <2>3, <2>4
    <3> QED BY <2>13, <3>1 DEF RefsExact
  <2>15. PoolInv(k.pool)
    BY <2>2, <2>3, <2>8
  <2> QED BY <1>1, <2>1, <2>2, <2>10, <2>11, <2>12, <2>14, <2>15 DEF ManagerInv
<1>3. \A r \in Reqs : /\ req[r].status = "ABSENT" /\ load[r].state = "none"
                     /\ m.req_to_blocks[r] = << >>
  BY DEF Init, NewRequest, NoLoad, InitManager
<1>4. TablesInv /\ LoadsInv
  BY <1>3 DEF TablesInv, LoadsInv, HeldBy, LoadedBy, Waitable
<1>5. LoadingInv /\ RoomInv
  BY <1>3 DEF LoadingInv, Loading, RoomInv, Init, LoopStates
<1> QED BY <1>1, <1>2, <1>4, <1>5 DEF BlockInv

\* A step that leaves the manager alone.
LEMMA CalmBlocks ==
  ASSUME BlockInv, UNCHANGED <<config, m, deferred_frees>>, pc' \in PCs,
         \A r \in Reqs : SameNeeds(req[r], req'[r])
                         /\ load'[r].state = load[r].state /\ load'[r].blocks = load[r].blocks,
         LoadingInv', RoomInv'
  PROVE  BlockInv'
<1>1. TablesInv' /\ LoadsInv'
  BY NoTable DEF BlockInv
<1>2. ManagerInv(m', deferred_frees')
  BY DEF BlockInv
<1> QED BY <1>1, <1>2 DEF BlockInv, ManagerInv

LEMMA SameRequest ==
  ASSUME NEW q
  PROVE  SameNeeds(q, q)
BY DEF SameNeeds

LEMMA BlockLoopSteps ==
  ASSUME QueueInv, TokenInv, BlockInv, UNCHANGED config,
         ScheduleBegin \/ RunningSelect \/ RunningDone \/ WaitingSkip \/ WaitingDone
  PROVE  BlockInv'
<1>0. /\ DOMAIN loop = LoopFields /\ DOMAIN req = Reqs /\ LoopInv
      /\ \A r \in Reqs : DOMAIN req[r] = RequestFields
      /\ LoadingInv /\ RoomInv
  BY DEF QueueInv, Fields, TokenInv, BlockInv
<1>1. /\ UNCHANGED <<config, m, deferred_frees, load>> /\ pc # "update"
      /\ pc' \in LoopStates /\ pc' \in PCs /\ pc' # "update"
  BY DEF ScheduleBegin, RunningSelect, RunningDone, WaitingSkip, WaitingDone, LoopStates, PCs
<1>2. /\ \A r \in Reqs : SameNeeds(req[r], req'[r])
      /\ \A r \in Reqs : req'[r].status = req[r].status
                         /\ req'[r].num_computed_tokens = req[r].num_computed_tokens
  <2>1. CASE ScheduleBegin
    <3> SUFFICES ASSUME NEW r \in Reqs
                 PROVE  /\ SameNeeds(req[r], req'[r]) /\ req'[r].status = req[r].status
                        /\ req'[r].num_computed_tokens = req[r].num_computed_tokens
      OBVIOUS
    <3>1. req'[r] = [req[r] EXCEPT !.decode_wait = AtLeast0(@ - 1)]
      BY <2>1 DEF ScheduleBegin
    <3> QED BY <1>0, <3>1 DEF SameNeeds, RequestFields
  <2>2. CASE ~ ScheduleBegin
    <3>1. req' = req
      BY <2>2 DEF RunningSelect, RunningDone, WaitingSkip, WaitingDone
    <3> QED BY <3>1, SameRequest
  <2> QED BY <2>1, <2>2
<1>3. LoadingInv'
  <2>1. \A q \in Reqs : FailedLoad(q) => FailedLoad(q)'
    BY <1>1, FailedKept
  <2> QED BY <1>0, <1>1, <1>2, <2>1, LoadingKept DEF Loading
<1>4. RoomInv'
  <2>1. CASE ScheduleBegin
    <3>1. loop'.scheduled = << >>
      BY <2>1 DEF ScheduleBegin, NoLoop
    <3> QED BY <3>1, RoomIdle
  <2>2. CASE ~ ScheduleBegin
    <3>1. pc \in LoopStates
      BY <2>2 DEF RunningSelect, RunningDone, WaitingSkip, WaitingDone, LoopStates
    <3>2. loop'.scheduled = loop.scheduled
      <4>1. CASE RunningSelect
        BY <1>0, <4>1 DEF RunningSelect, LoopFields
      <4>2. CASE ~ RunningSelect
        BY <1>0, <2>2, <4>2 DEF RunningDone, WaitingSkip, WaitingDone, LoopFields
      <4> QED BY <4>1, <4>2
    <3> QED BY <1>0, <1>1, <1>2, <3>1, <3>2, RoomKept
  <2> QED BY <2>1, <2>2
<1> QED BY <1>1, <1>2, <1>3, <1>4, CalmBlocks

LEMMA BlockResetSteps ==
  ASSUME QueueInv, TokenInv, BlockInv, UNCHANGED config,
         ResetRaised \/ ResetEnd \/ \E reset_running \in BOOLEAN : ResetBegin(reset_running)
  PROVE  BlockInv'
<1>1. /\ UNCHANGED <<config, deferred_frees, load, req>> /\ pc # "update"
      /\ pc' \notin LoopStates /\ pc' \in PCs /\ pc' # "update"
  <2>1. CASE ResetRaised \/ ResetEnd
    BY <2>1 DEF ResetRaised, ResetEnd, LoopStates, PCs
  <2>2. CASE \E reset_running \in BOOLEAN : ResetBegin(reset_running)
    <3>1. PICK reset_running \in BOOLEAN : ResetBegin(reset_running)
      BY <2>2
    <3>2. /\ pc = "idle" /\ pc' \in {"reset_running", "reset"}
          /\ UNCHANGED <<config, deferred_frees, load, req>>
      BY <3>1 DEF ResetBegin, BetweenSteps
    <3> QED BY <3>2 DEF LoopStates, PCs
  <2> QED BY <2>1, <2>2
<1>2. RoomInv'
  BY <1>1, RoomIdle
<1>3. LoadingInv'
  <2>1. \A q \in Reqs : FailedLoad(q) => FailedLoad(q)'
    BY <1>1, FailedKept
  <2> QED BY <1>1, <2>1, LoadingKept DEF Loading, BlockInv
<1>4. CASE m' = m
  <2>1. \A r \in Reqs : SameNeeds(req[r], req'[r])
    BY <1>1, SameRequest
  <2> QED BY <1>1, <1>2, <1>3, <1>4, <2>1, CalmBlocks
<1>5. CASE m' # m
  <2>1. CanReset(m.pool) /\ m' = [m EXCEPT !.pool = reset_prefix_cache(@)]
    BY <1>5 DEF ResetRaised, ResetEnd, ResetBegin
  <2>2. ManagerInv(m, deferred_frees) /\ DOMAIN m = ManagerFields
    BY DEF BlockInv, ManagerInv
  <2>3. ManagerInv(m', deferred_frees)
    BY <2>1, <2>2, ResetManager
  <2>4. m'.req_to_blocks = m.req_to_blocks /\ m'.num_cached_block = m.num_cached_block
    BY <2>1, <2>2 DEF ManagerFields
  <2>5. ASSUME NEW r \in Reqs
        PROVE  /\ HeldBy(req'[r], m'.req_to_blocks[r], m'.num_cached_block[r])
               /\ LoadedBy(req'[r], load'[r], m'.req_to_blocks[r], m'.num_cached_block[r])
    BY <1>1, <2>4 DEF BlockInv, TablesInv, LoadsInv
  <2>6. TablesInv' /\ LoadsInv'
    BY <2>5 DEF TablesInv, LoadsInv, HeldBy, LoadedBy
  <2>7. ManagerInv(m', deferred_frees')
    BY <1>1, <2>3
  <2> QED BY <1>1, <1>2, <1>3, <2>6, <2>7 DEF BlockInv, ManagerInv
<1> QED BY <1>4, <1>5

LEMMA BlockUpdateBegin ==
  ASSUME QueueInv, TokenInv, FenceInv, BlockInv, UNCHANGED config, UpdateBegin
  PROVE  BlockInv'
<1>1. /\ UNCHANGED <<config, m, load>> /\ pc = "idle" /\ pc' = "drain"
      /\ \/ StepProcessed
         \/ UNCHANGED <<req, deferred_frees>>
  BY DEF UpdateBegin
<1>2. \A r \in Reqs : SameNeeds(req[r], req'[r])
  <2>1. CASE StepProcessed
    <3> SUFFICES ASSUME NEW r \in Reqs
                 PROVE  SameNeeds(req[r], req'[r])
      OBVIOUS
    <3>1. req'[r] = [req[r] EXCEPT !.last_sched_seq = AtLeast0(@ - 1)]
      BY <2>1 DEF StepProcessed
    <3>2. DOMAIN req[r] = RequestFields
      BY DEF QueueInv, Fields
    <3> QED BY <3>1, <3>2 DEF SameNeeds, RequestFields
  <2>2. CASE UNCHANGED <<req, deferred_frees>>
    BY <2>2, SameRequest
  <2> QED BY <1>1, <2>1, <2>2
<1>3. ManagerInv(m, deferred_frees')
  <2>1. CASE StepProcessed
    <3>1. PICK d, d1 : d = deferred_frees /\ d1 = deferred_frees'
      OBVIOUS
    <3>2. ManagerInv(m, d)
      BY <3>1 DEF BlockInv
    <3>3. d1 = [i \in DOMAIN d |-> <<d[i][1] - 1, d[i][2]>>]
      BY <2>1, <3>1 DEF StepProcessed
    <3>4. PICK X : d \in Seq(X)
      BY <3>2 DEF ManagerInv, FreesOk
    <3>5. DOMAIN d1 = DOMAIN d /\ \A i \in DOMAIN d : d1[i][2] = d[i][2]
      BY <3>3
    <3>6. \E Y : d1 \in Seq(Y)
      <4>1. PICK Y : Y = {d1[i] : i \in DOMAIN d1}
        OBVIOUS
      <4>2. DOMAIN d1 = 1 .. Len(d) /\ Len(d) \in Nat
        BY <3>4, <3>5
      <4>3. d1 \in [1 .. Len(d) -> Y]
        BY <3>3, <4>1, <4>2
      <4>4. d1 \in Seq(Y)
        BY <4>2, <4>3
      <4> QED BY <4>4
    <3> QED BY <3>1, <3>2, <3>5, <3>6, ShiftManager
  <2>2. CASE UNCHANGED <<req, deferred_frees>>
    BY <2>2 DEF BlockInv
  <2> QED BY <1>1, <2>1, <2>2
<1>4. TablesInv' /\ LoadsInv'
  BY <1>1, <1>2, NoTable DEF BlockInv
<1>5. RoomInv'
  BY <1>1, RoomIdle DEF LoopStates
<1>6. LoadingInv'
  <2>1. \A q \in Reqs : FailedLoad(q) => FailedLoad(q)'
    BY <1>1, FailedKept
  <2>2. \A q \in Reqs : req'[q].status = req[q].status
                        /\ req'[q].num_computed_tokens = req[q].num_computed_tokens
    BY <1>2 DEF SameNeeds
  <2> QED BY <1>1, <2>1, <2>2, LoadingKept DEF Loading, BlockInv
<1>7. ManagerInv(m', deferred_frees') /\ pc' \in PCs
  BY <1>1, <1>3 DEF PCs
<1> QED BY <1>1, <1>4, <1>5, <1>6, <1>7 DEF BlockInv, ManagerInv

LEMMA BlockDrainOne ==
  ASSUME QueueInv, TokenInv, BlockInv, UNCHANGED config, DrainOne
  PROVE  BlockInv'
<1>1. /\ UNCHANGED <<config, load, req, pc>> /\ pc = "drain"
      /\ m' = [m EXCEPT !.pool = free_blocks(@, Reverse(deferred_frees[1][2]))]
      /\ deferred_frees' = Tail(deferred_frees) /\ deferred_frees # << >>
  BY DEF DrainOne, FenceReached
<1>2. ManagerInv(m, deferred_frees) /\ DOMAIN m = ManagerFields
  BY DEF BlockInv, ManagerInv
<1>3. ManagerInv(m', deferred_frees')
  BY <1>1, <1>2, DrainManager
<1>4. m'.req_to_blocks = m.req_to_blocks /\ m'.num_cached_block = m.num_cached_block
  BY <1>1, <1>2 DEF ManagerFields
<1>5. ASSUME NEW r \in Reqs
      PROVE  /\ HeldBy(req'[r], m'.req_to_blocks[r], m'.num_cached_block[r])
             /\ LoadedBy(req'[r], load'[r], m'.req_to_blocks[r], m'.num_cached_block[r])
  BY <1>1, <1>4 DEF BlockInv, TablesInv, LoadsInv
<1>6. TablesInv' /\ LoadsInv'
  BY <1>5 DEF TablesInv, LoadsInv, HeldBy, LoadedBy
<1>7. RoomInv'
  BY <1>1, RoomIdle DEF LoopStates
<1>8. LoadingInv'
  <2>1. \A q \in Reqs : FailedLoad(q) => FailedLoad(q)'
    BY <1>1, FailedKept
  <2> QED BY <1>1, <2>1, LoadingKept DEF Loading, BlockInv
<1> QED BY <1>1, <1>3, <1>6, <1>7, <1>8 DEF BlockInv, ManagerInv

\* A step that is about request r.
LEMMA OneBlocks ==
  ASSUME BlockInv, UNCHANGED config, pc' \in PCs, NEW r \in Reqs,
         ManagerInv(m', deferred_frees'), OthersKeep(m, m', r),
         \A q \in Reqs : q # r => req'[q] = req[q] /\ load'[q] = load[q],
         HeldBy(req'[r], m'.req_to_blocks[r], m'.num_cached_block[r]),
         LoadedBy(req'[r], load'[r], m'.req_to_blocks[r], m'.num_cached_block[r]),
         LoadingInv', RoomInv'
  PROVE  BlockInv'
<1>1. TablesInv' /\ LoadsInv'
  BY OneTable DEF BlockInv
<1> QED BY <1>1 DEF BlockInv, ManagerInv

LEMMA SameOthers ==
  ASSUME UNCHANGED m, NEW r
  PROVE  OthersKeep(m, m', r)
BY DEF OthersKeep

LEMMA BlockUpdateNoOutput ==
  ASSUME QueueInv, TokenInv, BlockInv, UNCHANGED config, UpdateNoOutput
  PROVE  BlockInv'
<1>1. PICK e : e = Head(todo)
  OBVIOUS
<1>2. /\ UNCHANGED <<config, m, deferred_frees, load, pc>> /\ pc = "update"
      /\ req' = IF e.request \in Known THEN [req EXCEPT ![e.request] = Landed(e)] ELSE req
  BY <1>1 DEF UpdateNoOutput
<1>3. \A r \in Reqs : SameNeeds(req[r], req'[r])
  <2>1. CASE e.request \in Known
    <3>1. /\ e.request \in Reqs /\ DOMAIN req = Reqs
          /\ DOMAIN req[e.request] = RequestFields
      BY <2>1 DEF Known, QueueInv, Fields
    <3>2. SameNeeds(req[e.request], Landed(e))
      BY <3>1, LandedFields DEF SameNeeds
    <3> QED BY <1>2, <2>1, <3>1, <3>2, SameRequest
  <2>2. CASE e.request \notin Known
    BY <1>2, <2>2, SameRequest
  <2> QED BY <2>1, <2>2
<1>4. RoomInv' /\ pc' \in PCs
  BY <1>2, RoomIdle DEF LoopStates, PCs
<1>5. LoadingInv'
  <2>1. \A q \in Reqs : Loading(q)' <=> Loading(q)
    BY <1>3 DEF SameNeeds, Loading
  <2>2. \A q \in Reqs : FailedLoad(q) => FailedLoad(q)'
    BY <1>2, <2>1 DEF FailedLoad, Invalid
  <2> QED BY <1>2, <1>3, <2>1, <2>2, LoadingKept DEF SameNeeds, BlockInv
<1> QED BY <1>2, <1>3, <1>4, <1>5, CalmBlocks

LEMMA BlockUpdateDone ==
  ASSUME QueueInv, TokenInv, BlockInv, UNCHANGED config, UpdateDone
  PROVE  BlockInv'
<1>1. /\ UNCHANGED <<config, m, deferred_frees, req>> /\ pc = "update" /\ pc' = "idle"
      /\ load' = [r \in Reqs |-> [load[r] EXCEPT !.steps = AtLeast0(@ - 1)]]
      /\ \A r \in Reqs : load[r].state # "arrived"
  BY DEF UpdateDone
<1>2. \A r \in Reqs : /\ load'[r].state = load[r].state /\ load'[r].blocks = load[r].blocks
                     /\ load'[r].failed = load[r].failed
  <2>1. \A r \in Reqs : DOMAIN load[r] = LoadFields
    BY DEF QueueInv, Fields
  <2> QED BY <1>1, <2>1 DEF LoadFields
<1>3. RoomInv' /\ pc' \in PCs
  BY <1>1, RoomIdle DEF LoopStates, PCs
<1>4. LoadingInv'
  <2>1. \A q \in Reqs : FailedLoad(q) => FailedLoad(q)'
    BY <1>1, <1>2 DEF FailedLoad, Invalid
  <2> QED BY <1>1, <2>1, LoadingKept DEF Loading, BlockInv
<1>5. \A r \in Reqs : SameNeeds(req[r], req'[r])
  BY <1>1, SameRequest
<1> QED BY <1>1, <1>2, <1>3, <1>4, <1>5, CalmBlocks

LEMMA BlockDrainDone ==
  ASSUME QueueInv, TokenInv, BlockInv, UNCHANGED config, DrainDone
  PROVE  BlockInv'
<1>0. /\ \A r \in Reqs : DOMAIN req[r] = RequestFields /\ DOMAIN load[r] = LoadFields
      /\ TablesInv /\ LoadsInv /\ LoadingInv /\ LoadInv /\ NumbersInv
      /\ ManagerInv(m, deferred_frees)
  BY DEF QueueInv, Fields, BlockInv, TokenInv
<1>1. /\ UNCHANGED <<config, m, deferred_frees>> /\ pc = "drain" /\ pc' = "update"
      /\ req' = [r \in Reqs |-> IF Invalid(r)
                                THEN [req[r] EXCEPT !.num_computed_tokens = ValidTokens(r)]
                                ELSE req[r]]
      /\ load' = [r \in Reqs |-> [load[r] EXCEPT
                    !.failed = @ \/ (Invalid(r) /\ config.kv_load = "recompute")]]
  BY DEF DrainDone
<1>2. ASSUME NEW r \in Reqs
      PROVE  /\ load'[r].state = load[r].state /\ load'[r].blocks = load[r].blocks
             /\ load'[r].invalid = load[r].invalid
             /\ req'[r].status = req[r].status /\ req'[r].num_tokens = req[r].num_tokens
             /\ req'[r].drop_stale_output = req[r].drop_stale_output
             /\ req'[r].num_stale_output_tokens = req[r].num_stale_output_tokens
             /\ ~ Invalid(r) => req'[r].num_computed_tokens = req[r].num_computed_tokens
  <2>1. load'[r].state = load[r].state /\ load'[r].blocks = load[r].blocks
        /\ load'[r].invalid = load[r].invalid
    BY <1>0, <1>1 DEF LoadFields
  <2>2. CASE Invalid(r)
    <3>1. req'[r] = [req[r] EXCEPT !.num_computed_tokens = ValidTokens(r)]
      BY <1>1, <2>2
    <3> QED BY <1>0, <2>1, <2>2, <3>1 DEF RequestFields
  <2>3. CASE ~ Invalid(r)
    BY <1>1, <2>1, <2>3
  <2> QED BY <2>2, <2>3
<1>3. ASSUME NEW r \in Reqs
      PROVE  /\ load[r].failed => load'[r].failed
             /\ Invalid(r) /\ config.kv_load = "recompute" => load'[r].failed
  <2>1. PICK x : x = (load[r].failed \/ (Invalid(r) /\ config.kv_load = "recompute"))
    OBVIOUS
  <2>2. load'[r] = [load[r] EXCEPT !.failed = x]
    BY <1>1, <2>1
  <2>3. load'[r].failed = x
    BY <1>0, <2>2 DEF LoadFields
  <2> QED BY <2>1, <2>3, Zenon
<1>4. ASSUME NEW r \in Reqs, Invalid(r)
      PROVE  /\ req'[r].num_computed_tokens = ValidTokens(r)
             /\ ValidTokens(r) \in Nat /\ ValidTokens(r) < req[r].num_computed_tokens
             /\ Loading(r)
  <2>1. req'[r] = [req[r] EXCEPT !.num_computed_tokens = ValidTokens(r)] /\ Loading(r)
    BY <1>1, <1>4 DEF Invalid
  <2>2. req'[r].num_computed_tokens = ValidTokens(r)
    BY <1>0, <2>1 DEF RequestFields
  <2>3. ValidTokens(r) < req[r].num_computed_tokens /\ load[r].invalid \in Nat /\ load[r].invalid > 0
    BY <1>0, <1>1, <1>4, <2>1 DEF LoadInv, Invalid
  <2>4. PICK i \in Nat : i = load[r].invalid - 1
    BY <2>3
  <2>5. i * block_size \in Nat
    BY ConstantFacts
  <2> QED BY <2>1, <2>2, <2>3, <2>4, <2>5 DEF ValidTokens
<1>5. ASSUME NEW r \in Reqs
      PROVE  /\ HeldBy(req'[r], m'.req_to_blocks[r], m'.num_cached_block[r])
             /\ LoadedBy(req'[r], load'[r], m'.req_to_blocks[r], m'.num_cached_block[r])
  <2>1. PICK q, q1, t, c : /\ q = req[r] /\ q1 = req'[r]
                           /\ t = m.req_to_blocks[r] /\ c = m.num_cached_block[r]
    OBVIOUS
  <2>2. m'.req_to_blocks[r] = t /\ m'.num_cached_block[r] = c
    BY <1>1, <2>1
  <2>3. HeldBy(q, t, c) /\ LoadedBy(q, load[r], t, c)
    BY <1>0, <2>1 DEF TablesInv, LoadsInv
  <2>4. LoadedBy(q1, load'[r], t, c)
    BY <1>2, <2>1, <2>3 DEF LoadedBy
  <2>5. HeldBy(q1, t, c)
    <3>1. CASE Invalid(r)
      <4>1. PICK x, y, z : x = q.num_computed_tokens /\ y = q1.num_computed_tokens
                           /\ z = Len(t) * block_size
        OBVIOUS
      <4>2. q.status = "WAITING_FOR_REMOTE_KVS" /\ q1.status = q.status /\ x <= z
        BY <1>2, <1>4, <2>1, <2>3, <3>1, <4>1 DEF Loading, HeldBy
      <4>3. y \in Nat /\ y < x /\ x \in Nat
        BY <1>0, <1>4, <2>1, <3>1, <4>1 DEF NumbersInv, Numbers
      <4>4. z \in Nat
        <5>1. t \in Seq(Blocks)
          BY <1>0, <2>1 DEF ManagerInv
        <5>2. Len(t) \in Nat
          BY <5>1
        <5> QED BY <4>1, <5>2, ConstantFacts
      <4>5. y <= z
        BY <4>2, <4>3, <4>4
      <4>6. /\ q1.num_tokens = q.num_tokens /\ q1.drop_stale_output = q.drop_stale_output
            /\ q1.num_stale_output_tokens = q.num_stale_output_tokens
        BY <1>2, <2>1
      <4> QED BY <2>3, <4>1, <4>2, <4>5, <4>6 DEF HeldBy
    <3>2. CASE ~ Invalid(r)
      BY <1>2, <2>1, <2>3, <3>2 DEF HeldBy
    <3> QED BY <3>1, <3>2
  <2> QED BY <2>1, <2>2, <2>4, <2>5
<1>6. TablesInv' /\ LoadsInv'
  BY <1>5 DEF TablesInv, LoadsInv, HeldBy, LoadedBy
<1>7. RoomInv' /\ pc' \in PCs
  BY <1>1, RoomIdle DEF LoopStates, PCs
<1>8. LoadingInv'
  <2> SUFFICES ASSUME NEW r \in Reqs, Loading(r)'
               PROVE  /\ config'.kv_load # "none"
                      /\ req'[r].num_computed_tokens = 0 => FailedLoad(r)'
    BY DEF LoadingInv
  <2>1. Loading(r)
    BY <1>2 DEF Loading
  <2>2. config'.kv_load # "none" /\ config.kv_load # "none"
    BY <1>0, <1>1, <2>1 DEF LoadingInv
  <2>3. CASE Invalid(r)
    <3>1. config.kv_load \in {"recompute", "fail"}
      BY <2>2, SchedulerAssumption DEF BlockInv
    <3>2. CASE config.kv_load = "recompute"
      BY <1>3, <2>2, <2>3, <3>2 DEF FailedLoad
    <3>3. CASE config.kv_load = "fail"
      <4>1. Invalid(r)' /\ pc' = "update" /\ config'.kv_load = "fail"
        BY <1>1, <1>2, <2>3, <3>3 DEF Invalid, Loading
      <4> QED BY <2>2, <4>1 DEF FailedLoad
    <3> QED BY <3>1, <3>2, <3>3
  <2>4. CASE ~ Invalid(r)
    <3>1. req[r].num_computed_tokens = 0 => load[r].failed
      BY <1>0, <1>1, <2>1 DEF LoadingInv, FailedLoad
    <3>2. req'[r].num_computed_tokens = req[r].num_computed_tokens
      BY <1>2, <2>4
    <3>3. req'[r].num_computed_tokens = 0 => load'[r].failed
      BY <1>3, <3>1, <3>2, Zenon
    <3> QED BY <2>2, <3>3 DEF FailedLoad
  <2> QED BY <2>3, <2>4
<1>9. ManagerInv(m', deferred_frees')
  BY <1>0, <1>1
<1> QED BY <1>1, <1>6, <1>7, <1>8, <1>9 DEF BlockInv, ManagerInv

LEMMA BlockLoadArrives ==
  ASSUME QueueInv, TokenInv, BlockInv, UNCHANGED config, NEW r \in Reqs, LoadArrives(r)
  PROVE  BlockInv'
<1>1. PICK i : load' = [load EXCEPT ![r].state = "arrived", ![r].invalid = i]
  BY DEF LoadArrives
<1>2. /\ UNCHANGED <<config, m, deferred_frees, req, pc>> /\ pc = "idle"
      /\ load[r].state = "transfer"
  BY DEF LoadArrives
<1>3. /\ load'[r].state = "arrived" /\ load'[r].blocks = load[r].blocks
      /\ load'[r].failed = load[r].failed
      /\ \A q \in Reqs : q # r => load'[q] = load[q] /\ req'[q] = req[q]
  <2>1. DOMAIN load = Reqs /\ DOMAIN load[r] = LoadFields
    BY DEF QueueInv, Fields
  <2> QED BY <1>1, <1>2, <2>1 DEF LoadFields
<1>4. HeldBy(req'[r], m'.req_to_blocks[r], m'.num_cached_block[r])
  BY <1>2 DEF BlockInv, TablesInv
<1>5. LoadedBy(req'[r], load'[r], m'.req_to_blocks[r], m'.num_cached_block[r])
  <2>1. LoadedBy(req[r], load[r], m.req_to_blocks[r], m.num_cached_block[r])
    BY DEF BlockInv, LoadsInv
  <2> QED BY <1>2, <1>3, <2>1 DEF LoadedBy
<1>6. RoomInv' /\ pc' \in PCs
  BY <1>2, RoomIdle DEF LoopStates, PCs
<1>7. LoadingInv'
  <2>1. \A q \in Reqs : load'[q].failed = load[q].failed
    BY <1>3
  <2>2. \A q \in Reqs : FailedLoad(q) => FailedLoad(q)'
    BY <1>2, <2>1, FailedKept
  <2> QED BY <1>2, <2>2, LoadingKept DEF Loading, BlockInv
<1>8. ManagerInv(m', deferred_frees') /\ OthersKeep(m, m', r)
  BY <1>2, SameOthers DEF BlockInv
<1> QED BY <1>3, <1>4, <1>5, <1>6, <1>7, <1>8, OneBlocks

LEMMA BlockAdd ==
  ASSUME QueueInv, TokenInv, BlockInv, UNCHANGED config, NEW r \in Reqs, add_request(r)
  PROVE  BlockInv'
<1>1. /\ UNCHANGED <<config, m, deferred_frees, load, pc>> /\ pc = "idle"
      /\ req[r].status = "ABSENT" /\ req' = [req EXCEPT ![r] = NewRequest(r)]
  BY DEF add_request, BetweenSteps
<1>2. req'[r] = NewRequest(r) /\ \A q \in Reqs : q # r => req'[q] = req[q] /\ load'[q] = load[q]
  <2>1. DOMAIN req = Reqs
    BY DEF QueueInv, Fields
  <2> QED BY <1>1, <2>1
<1>3. m.req_to_blocks[r] = << >>
  BY <1>1 DEF BlockInv, TablesInv, HeldBy
<1>4. HeldBy(req'[r], m'.req_to_blocks[r], m'.num_cached_block[r])
  <2>1. 0 <= 0 * block_size
    BY ConstantFacts
  <2>2. PICK q, t : q = req'[r] /\ t = m'.req_to_blocks[r]
    OBVIOUS
  <2>3. /\ q.status = "WAITING" /\ q.num_computed_tokens = 0
        /\ t = << >> /\ Len(t) = 0
    BY <1>1, <1>2, <1>3, <2>2 DEF NewRequest
  <2>4. HeldBy(q, t, m'.num_cached_block[r])
    BY <2>1, <2>3 DEF HeldBy
  <2> QED BY <2>2, <2>4
<1>5. LoadedBy(req'[r], load'[r], m'.req_to_blocks[r], m'.num_cached_block[r])
  <2>1. LoadedBy(req[r], load[r], m.req_to_blocks[r], m.num_cached_block[r])
    BY DEF BlockInv, LoadsInv
  <2>2. req'[r].status = "WAITING"
    BY <1>2 DEF NewRequest
  <2> QED BY <1>1, <2>1, <2>2 DEF LoadedBy
<1>6. RoomInv' /\ pc' \in PCs
  BY <1>1, RoomIdle DEF LoopStates, PCs
<1>7. LoadingInv'
  <2>1. \A q \in Reqs : FailedLoad(q) => FailedLoad(q)'
    BY <1>1, FailedKept
  <2>2. ~ Loading(r)'
    BY <1>2 DEF Loading, NewRequest
  <2> QED BY <1>1, <1>2, <2>1, <2>2, LoadingKept DEF Loading, BlockInv
<1>8. ManagerInv(m', deferred_frees') /\ OthersKeep(m, m', r)
  BY <1>1, SameOthers DEF BlockInv
<1> QED BY <1>2, <1>4, <1>5, <1>6, <1>7, <1>8, OneBlocks

LEMMA HeldEmpty ==
  ASSUME NEW q, NEW t, t = << >>, NEW c,
         q.status # "FINISHED" => q.num_computed_tokens = 0
  PROVE  HeldBy(q, t, c)
<1>1. Len(t) = 0 /\ 0 <= 0 * block_size
  BY ConstantFacts
<1> QED BY <1>1 DEF HeldBy, Waitable

\* The blocks of request r are freed.
LEMMA FreedBlocks ==
  ASSUME BlockInv, UNCHANGED config, pc' \in PCs, NEW r \in Reqs,
         NEW k, ManagerInv(k, deferred_frees), OthersKeep(m, k, r), FreeRequestBlocks(k, r),
         \A q \in Reqs : q # r => req'[q] = req[q] /\ load'[q] = load[q],
         req'[r].status # "WAITING_FOR_REMOTE_KVS",
         req'[r].status # "FINISHED" => req'[r].num_computed_tokens = 0,
         load'[r].state \in {"none", "finished"},
         LoadingInv', RoomInv'
  PROVE  BlockInv'
<1>1. ManagerInv(m', deferred_frees') /\ Emptied(k, m', r)
  BY FreeRequestManager
<1>2. OthersKeep(k, m', r) /\ m'.req_to_blocks[r] = << >>
  BY <1>1, EmptiedKeeps
<1>3. OthersKeep(m, m', r)
  BY <1>2 DEF OthersKeep
<1>4. HeldBy(req'[r], m'.req_to_blocks[r], m'.num_cached_block[r])
  BY <1>2, HeldEmpty
<1>5. LoadedBy(req'[r], load'[r], m'.req_to_blocks[r], m'.num_cached_block[r])
  BY DEF LoadedBy
<1> QED BY <1>1, <1>3, <1>4, <1>5, OneBlocks

LEMMA BlockFinish ==
  ASSUME QueueInv, TokenInv, BlockInv, UNCHANGED <<config, pc>>, pc \in {"idle", "update"},
         NEW r \in Known, FinishRequest(r)
  PROVE  BlockInv'
<1>0. /\ r \in Reqs /\ DOMAIN req = Reqs /\ DOMAIN load = Reqs /\ DOMAIN load[r] = LoadFields
      /\ DOMAIN req[r] = RequestFields
  BY DEF QueueInv, Fields, Known
<1>1. /\ IF DelaysFree(r) THEN UNCHANGED <<m, deferred_frees>> ELSE FreeRequestBlocks(m, r)
      /\ load' = [load EXCEPT ![r] = IF @.state = "finished" THEN NoLoad
                                     ELSE [@ EXCEPT !.failed = FALSE]]
      /\ req' = [req EXCEPT ![r].status = "FINISHED", ![r].prefilling = FALSE]
  BY DEF FinishRequest
<1>2. /\ req'[r].status = "FINISHED"
      /\ \A q \in Reqs : q # r => req'[q] = req[q] /\ load'[q] = load[q]
  BY <1>0, <1>1 DEF RequestFields
<1>3. load'[r].state = (IF load[r].state = "finished" THEN "none" ELSE load[r].state)
      /\ (load[r].state # "finished" => load'[r].blocks = load[r].blocks)
  <2>1. CASE load[r].state = "finished"
    <3>1. load'[r] = NoLoad
      BY <1>0, <1>1, <2>1
    <3> QED BY <2>1, <3>1 DEF NoLoad
  <2>2. CASE load[r].state # "finished"
    <3>1. load'[r] = [load[r] EXCEPT !.failed = FALSE]
      BY <1>0, <1>1, <2>2
    <3> QED BY <1>0, <2>2, <3>1 DEF LoadFields
  <2> QED BY <2>1, <2>2
<1>4. RoomInv' /\ pc' \in PCs
  BY RoomIdle DEF LoopStates, PCs
<1>5. LoadingInv'
  <2>1. ASSUME NEW q \in Reqs, Loading(q)'
        PROVE  /\ Loading(q) /\ req'[q].num_computed_tokens = req[q].num_computed_tokens
               /\ FailedLoad(q) => FailedLoad(q)'
    <3>1. q # r
      BY <1>2, <2>1 DEF Loading
    <3>2. req'[q] = req[q] /\ load'[q] = load[q]
      BY <1>2, <3>1
    <3> QED BY <2>1, <3>2 DEF Loading, FailedLoad, Invalid
  <2> QED BY <2>1, LoadingKept DEF BlockInv
<1>6. LoadedBy(req[r], load[r], m.req_to_blocks[r], m.num_cached_block[r])
  BY <1>0 DEF BlockInv, LoadsInv
<1>7. CASE DelaysFree(r)
  <2>1. UNCHANGED <<m, deferred_frees>> /\ load[r].state # "finished"
    BY <1>1, <1>7 DEF DelaysFree
  <2>2. HeldBy(req'[r], m'.req_to_blocks[r], m'.num_cached_block[r])
    BY <1>2 DEF HeldBy, Waitable
  <2>3. LoadedBy(req'[r], load'[r], m'.req_to_blocks[r], m'.num_cached_block[r])
    BY <1>2, <1>3, <1>6, <2>1 DEF LoadedBy
  <2>4. ManagerInv(m', deferred_frees') /\ OthersKeep(m, m', r)
    BY <2>1, SameOthers DEF BlockInv
  <2> QED BY <1>0, <1>2, <1>4, <1>5, <2>2, <2>3, <2>4, OneBlocks
<1>8. CASE ~ DelaysFree(r)
  <2>1. load[r].state \in {"none", "finished"}
    BY <1>6, <1>8 DEF LoadedBy, DelaysFree, Loading, Known
  <2>2. load'[r].state \in {"none", "finished"}
    BY <1>3, <2>1
  <2>3. FreeRequestBlocks(m, r) /\ ManagerInv(m, deferred_frees) /\ OthersKeep(m, m, r)
    BY <1>1, <1>8 DEF BlockInv, OthersKeep
  <2>4. req'[r].status # "WAITING_FOR_REMOTE_KVS"
    BY <1>2
  <2> QED BY <1>0, <1>2, <1>4, <1>5, <2>2, <2>3, <2>4, FreedBlocks
<1> QED BY <1>7, <1>8

LEMMA BlockLoadFinished ==
  ASSUME QueueInv, TokenInv, BlockInv, UNCHANGED config, NEW r \in Reqs, UpdateLoadFinished(r)
  PROVE  BlockInv'
<1>0. DOMAIN load = Reqs /\ DOMAIN load[r] = LoadFields
  BY DEF QueueInv, Fields
<1>1. /\ pc = "update" /\ UNCHANGED <<pc, req>> /\ load[r].state = "arrived"
      /\ config.kv_load = "fail" => \A q \in Reqs : ~ Invalid(q)
      /\ IF Loading(r)
         THEN /\ load' = [load EXCEPT ![r].state = "finished"]
              /\ UNCHANGED <<m, deferred_frees>>
         ELSE /\ load' = [load EXCEPT ![r] = NoLoad]
              /\ FreeRequestBlocks(m, r)
  BY DEF UpdateLoadFinished
<1>2. \A q \in Reqs : q # r => req'[q] = req[q] /\ load'[q] = load[q]
  BY <1>0, <1>1
<1>3. RoomInv' /\ pc' \in PCs
  BY <1>1, RoomIdle DEF LoopStates, PCs
<1>4. LoadedBy(req[r], load[r], m.req_to_blocks[r], m.num_cached_block[r])
  BY DEF BlockInv, LoadsInv
<1>5. Loading(r) => load'[r].state = "finished" /\ load'[r].failed = load[r].failed
  BY <1>0, <1>1 DEF LoadFields
<1>6. ~ Loading(r) => load'[r].state = "none" /\ req[r].status = "FINISHED"
  <2>1. ~ Loading(r) => load'[r] = NoLoad
    BY <1>0, <1>1
  <2> QED BY <1>1, <1>4, <2>1 DEF NoLoad, LoadedBy, Loading
<1>7. LoadingInv'
  <2>1. ASSUME NEW q \in Reqs, Loading(q)'
        PROVE  /\ Loading(q) /\ req'[q].num_computed_tokens = req[q].num_computed_tokens
               /\ FailedLoad(q) => FailedLoad(q)'
    <3>1. Loading(q)
      BY <1>1, <2>1 DEF Loading
    <3>2. FailedLoad(q) => load[q].failed
      BY <1>1 DEF FailedLoad
    <3>3. load'[q].failed = load[q].failed
      BY <1>2, <1>5, <3>1
    <3> QED BY <1>1, <3>1, <3>2, <3>3 DEF FailedLoad
  <2> QED BY <2>1, LoadingKept DEF BlockInv
<1>8. CASE Loading(r)
  <2>1. UNCHANGED <<m, deferred_frees>>
    BY <1>1, <1>8
  <2>2. HeldBy(req'[r], m'.req_to_blocks[r], m'.num_cached_block[r])
    BY <1>1, <2>1 DEF BlockInv, TablesInv
  <2>3. LoadedBy(req'[r], load'[r], m'.req_to_blocks[r], m'.num_cached_block[r])
    BY <1>5, <1>8 DEF LoadedBy
  <2>4. ManagerInv(m', deferred_frees') /\ OthersKeep(m, m', r)
    BY <2>1, SameOthers DEF BlockInv
  <2> QED BY <1>2, <1>3, <1>7, <2>2, <2>3, <2>4, OneBlocks
<1>9. CASE ~ Loading(r)
  <2>1. FreeRequestBlocks(m, r) /\ ManagerInv(m, deferred_frees) /\ OthersKeep(m, m, r)
    BY <1>1, <1>9 DEF BlockInv, OthersKeep
  <2>2. req'[r].status = "FINISHED" /\ load'[r].state \in {"none", "finished"}
    BY <1>1, <1>6, <1>9
  <2> QED BY <1>2, <1>3, <1>7, <2>1, <2>2, FreedBlocks
<1> QED BY <1>8, <1>9

\* A request that runs is preempted.
LEMMA PreemptBlocks ==
  ASSUME QueueInv, TokenInv, BlockInv, UNCHANGED <<config, load>>, pc' \in PCs,
         pc # "update", NEW v \in Reqs, req[v].status = "RUNNING", FreeRequestBlocks(m, v),
         NEW drop, req' = [req EXCEPT ![v] = Preempted(v, drop)],
         RoomInv'
  PROVE  BlockInv'
<1>1. /\ req'[v].status = "PREEMPTED" /\ req'[v].num_computed_tokens = 0
      /\ \A q \in Reqs : q # v => req'[q] = req[q] /\ load'[q] = load[q]
  <2>1. DOMAIN req = Reqs /\ DOMAIN req[v] = RequestFields
    BY DEF QueueInv, Fields
  <2>2. PICK x, y : x = (drop \/ (req[v].drop_stale_output /\ req[v].num_stale_output_tokens > 0))
                    /\ y = req[v].num_in_flight_tokens
    OBVIOUS
  <2>3. req'[v] = [req[v] EXCEPT
     !.status = "PREEMPTED", !.num_computed_tokens = 0, !.num_output_placeholders = 0,
     !.prefilling = FALSE, !.drop_stale_output = x, !.num_stale_output_tokens = y]
    BY <2>1, <2>2 DEF Preempted
  <2> QED BY <2>1, <2>3 DEF RequestFields
<1>2. load'[v].state \in {"none", "finished"}
  <2>1. LoadedBy(req[v], load[v], m.req_to_blocks[v], m.num_cached_block[v])
    BY DEF BlockInv, LoadsInv
  <2> QED BY <2>1 DEF LoadedBy
<1>3. LoadingInv'
  <2>1. \A q \in Reqs : FailedLoad(q) => FailedLoad(q)'
    BY FailedKept
  <2>2. \A q \in Reqs : Loading(q)' => q # v
    BY <1>1 DEF Loading
  <2> QED BY <1>1, <2>1, <2>2, LoadingKept DEF Loading, BlockInv
<1>4. ManagerInv(m, deferred_frees) /\ OthersKeep(m, m, v)
  BY DEF BlockInv, OthersKeep
<1> QED BY <1>1, <1>2, <1>3, <1>4, FreedBlocks

LEMMA BlockResetPreempt ==
  ASSUME QueueInv, TokenInv, BlockInv, UNCHANGED config, ResetPreempt
  PROVE  BlockInv'
<1>1. PICK v : v = Last(running)
  OBVIOUS
<1>2. /\ pc = "reset_running" /\ UNCHANGED <<pc, load>> /\ running # << >>
      /\ FreeRequestBlocks(m, v) /\ req' = [req EXCEPT ![v] = Preempted(v, TRUE)]
  BY <1>1 DEF ResetPreempt, PreemptRequest
<1>3. v \in Reqs /\ req[v].status = "RUNNING"
  <2>1. running \in Seq(Reqs)
    BY RunningAre
  <2>2. Len(running) \in DOMAIN running
    BY <1>2, <2>1
  <2>3. v = running[Len(running)]
    BY <1>1 DEF Last
  <2> QED BY <2>2, <2>3, RunningAre
<1>4. RoomInv' /\ pc' \in PCs
  BY <1>2, RoomIdle DEF LoopStates, PCs
<1> QED BY <1>2, <1>3, <1>4, PreemptBlocks

LEMMA BlockRunningPreempt ==
  ASSUME QueueInv, TokenInv, BlockInv, UNCHANGED config, RunningPreempt
  PROVE  BlockInv'
<1>0. LoopInv /\ RoomInv /\ DOMAIN req = Reqs /\ DOMAIN loop = LoopFields
  BY DEF TokenInv, QueueInv, Fields, BlockInv
<1>1. PICK v, s, kept :
        v = Victim /\ s = loop.scheduled /\ kept = {e \in ToSet(s) : e[1] # v}
  OBVIOUS
<1>1a. PICK b : b = IF ToSet(s) \ kept = {} THEN loop.budget
                    ELSE loop.budget + (CHOOSE e \in ToSet(s) \ kept : TRUE)[2]
  OBVIOUS
<1>2. /\ pc = "allocate" /\ pc' \in {"issue", "allocate"}
      /\ FreeRequestBlocks(m, v)
      /\ req' = [req EXCEPT ![v] = Preempted(v, requires_kv_delivery)]
      /\ loop' = [loop EXCEPT
              !.preempted = TRUE, !.index = IndexAfter(v), !.scheduled = Filter(@, kept),
              !.budget = b]
      /\ UNCHANGED load
  BY <1>1, <1>1a DEF RunningPreempt, PreemptRequest
<1>3. v \in Reqs /\ req[v].status = "RUNNING"
  <2>1. running \in Seq(Reqs) /\ loop.request \in ToSet(running)
    BY <1>2, RunningAre DEF QueueInv, Cursor
  <2>2. running # << >>
    BY <2>1 DEF ToSet
  <2>3. v \in ToSet(running)
    BY <1>1, <2>1, <2>2, VictimIn
  <2>4. PICK i \in DOMAIN running : running[i] = v
    BY <2>3 DEF ToSet
  <2> QED BY <2>4, RunningAre
<1>4. PICK f : f = Filter(s, kept)
  OBVIOUS
<1>5. loop'.scheduled = f
  BY <1>0, <1>1, <1>2, <1>4 DEF LoopFields
<1>6. s \in Seq(Reqs \X (Nat \ {0}))
  BY <1>0, <1>1 DEF LoopInv
<1>7. PICK g : Picks(f, g, s, Len(s), kept) /\ f \in Seq(Reqs \X (Nat \ {0}))
  BY <1>4, <1>6, FilterPicks
<1>8. \A i \in DOMAIN f : g[i] \in DOMAIN s /\ f[i] = s[g[i]] /\ f[i][1] # v
  <2>1. DOMAIN f = 1 .. Len(f) /\ DOMAIN s = 1 .. Len(s)
    BY <1>6, <1>7
  <2>2. \A i \in DOMAIN f : g[i] \in DOMAIN s /\ f[i] = s[g[i]] /\ f[i] \in kept
    BY <1>7, <2>1 DEF Picks
  <2> QED BY <1>1, <2>2
<1>9. OthersKeep(m, m', v)
  <2>1. ManagerInv(m, deferred_frees)
    BY DEF BlockInv
  <2>2. Emptied(m, m', v)
    BY <1>2, <1>3, <2>1, FreeRequestManager
  <2> QED BY <1>3, <2>1, <2>2, EmptiedKeeps
<1>10. RoomInv'
  <2> SUFFICES ASSUME NEW i \in DOMAIN f
               PROVE  req'[f[i][1]].num_computed_tokens + f[i][2]
                        <= Len(m'.req_to_blocks[f[i][1]]) * block_size
    BY <1>5 DEF RoomInv
  <2>1. /\ g[i] \in DOMAIN s /\ f[i] = s[g[i]] /\ f[i][1] # v
        /\ f[i] \in Reqs \X (Nat \ {0})
    BY <1>7, <1>8
  <2>2. PICK q, n : q = f[i][1] /\ n = f[i][2]
    OBVIOUS
  <2>3. q \in Reqs /\ q # v /\ s[g[i]][1] = q /\ s[g[i]][2] = n
    BY <2>1, <2>2
  <2>4. req[q].num_computed_tokens + n <= Len(m.req_to_blocks[q]) * block_size
    BY <1>0, <1>1, <1>2, <2>1, <2>3 DEF RoomInv, LoopStates
  <2>5. req'[q] = req[q] /\ m'.req_to_blocks[q] = m.req_to_blocks[q]
    BY <1>0, <1>2, <1>9, <2>3 DEF OthersKeep
  <2> QED BY <2>2, <2>4, <2>5
<1>11. pc' \in PCs
  BY <1>2 DEF PCs
<1> QED BY <1>2, <1>3, <1>10, <1>11, PreemptBlocks

\* What the issue of a step changes in a request.
LEMMA IssueIs ==
  ASSUME QueueInv, TokenInv, Issue, NEW s, s = loop.scheduled
  PROVE  /\ s \in Seq(Reqs \X (Nat \ {0}))
         /\ \A i \in DOMAIN s :
              /\ s[i][1] \in Reqs /\ s[i][2] \in Nat
              /\ req[s[i][1]].status = "RUNNING" /\ req'[s[i][1]].status = "RUNNING"
              /\ req'[s[i][1]].num_computed_tokens = req[s[i][1]].num_computed_tokens + s[i][2]
              /\ req'[s[i][1]].last_sched_seq = sched_step_seq'
         /\ \A r \in Reqs : (\A i \in DOMAIN s : s[i][1] # r) => req'[r] = req[r]
<1> DEFINE s0 == loop.scheduled
           entry(r) == CHOOSE e \in ToSet(s0) : e[1] = r
           seq == sched_step_seq + (IF config.defer_block_free /\ s0 # << >> THEN 1 ELSE 0)
<1>1. /\ pc = "issue" /\ sched_step_seq' = seq
      /\ req' = [r \in Reqs |->
             IF \A e \in ToSet(s0) : e[1] # r THEN req[r]
             ELSE [req[r] EXCEPT
                     !.num_computed_tokens = @ + entry(r)[2],
                     !.num_in_flight_tokens = @ + entry(r)[2],
                     !.last_sched_seq = seq,
                     !.prefilling = @ /\ ~ Samples(r, entry(r)[2]),
                     !.num_output_placeholders =
                       IF async_scheduling /\ Samples(r, entry(r)[2]) THEN @ + 1 ELSE @,
                     !.decode_wait =
                       IF async_scheduling /\ Samples(r, entry(r)[2]) THEN pp_size ELSE @]]
  BY DEF Issue
<1>2. /\ s \in Seq(Reqs \X (Nat \ {0}))
      /\ \A i \in DOMAIN s : Takes(req[s[i][1]], s[i][2])
      /\ \A i, j \in DOMAIN s : s[i][1] = s[j][1] => i = j
  BY <1>1 DEF LoopInv, TokenInv
<1>3. ASSUME NEW i \in DOMAIN s
      PROVE  /\ s[i][1] \in Reqs /\ s[i][2] \in Nat
             /\ req[s[i][1]].status = "RUNNING" /\ req'[s[i][1]].status = "RUNNING"
             /\ req'[s[i][1]].num_computed_tokens = req[s[i][1]].num_computed_tokens + s[i][2]
             /\ req'[s[i][1]].last_sched_seq = sched_step_seq'
  <2>1. PICK r, n : r = s[i][1] /\ n = s[i][2]
    OBVIOUS
  <2>2. s[i] \in ToSet(s) /\ \A e \in ToSet(s) : e[1] = r => e = s[i]
    BY <1>2, <2>1 DEF ToSet
  <2>3. entry(r) = s[i]
    BY <2>1, <2>2
  <2>4. s[i] \in Reqs \X (Nat \ {0})
    BY <1>2
  <2>5. r \in Reqs /\ n \in Nat /\ ~ \A e \in ToSet(s0) : e[1] # r
    BY <2>1, <2>2, <2>4
  <2>6. entry(r)[2] = n
    BY <2>1, <2>3
  <2> HIDE DEF entry, seq, s0
  <2>7. req'[r] = [req[r] EXCEPT
                     !.num_computed_tokens = @ + n,
                     !.num_in_flight_tokens = @ + n,
                     !.last_sched_seq = seq,
                     !.prefilling = @ /\ ~ Samples(r, n),
                     !.num_output_placeholders = IF async_scheduling /\ Samples(r, n) THEN @ + 1 ELSE @,
                     !.decode_wait = IF async_scheduling /\ Samples(r, n) THEN pp_size ELSE @]
    BY <1>1, <2>5, <2>6
  <2>8. DOMAIN req[r] = RequestFields
    BY <2>5 DEF QueueInv, Fields
  <2>9. /\ req'[r].status = req[r].status /\ req'[r].last_sched_seq = seq
        /\ req'[r].num_computed_tokens = req[r].num_computed_tokens + n
    BY <2>7, <2>8 DEF RequestFields
  <2>10. req[r].status = "RUNNING"
    BY <1>2, <2>1 DEF Takes
  <2> QED BY <1>1, <2>1, <2>5, <2>9, <2>10
<1>4. ASSUME NEW r \in Reqs, \A i \in DOMAIN s : s[i][1] # r
      PROVE  req'[r] = req[r]
  <2>1. \A e \in ToSet(s0) : e[1] # r
    BY <1>4 DEF ToSet
  <2> HIDE DEF entry, seq, s0
  <2> QED BY <1>1, <2>1
<1> QED BY <1>2, <1>3, <1>4

LEMMA BlockIssue ==
  ASSUME QueueInv, TokenInv, BlockInv, UNCHANGED config, Issue
  PROVE  BlockInv'
<1>1. pc = "issue" /\ pc' = "idle" /\ UNCHANGED <<m, deferred_frees, load>>
  BY DEF Issue
<1>2. PICK s : s = loop.scheduled
  OBVIOUS
<1>3. /\ \A i \in DOMAIN s :
              /\ s[i][1] \in Reqs /\ s[i][2] \in Nat
              /\ req[s[i][1]].status = "RUNNING" /\ req'[s[i][1]].status = "RUNNING"
              /\ req'[s[i][1]].num_computed_tokens = req[s[i][1]].num_computed_tokens + s[i][2]
      /\ \A r \in Reqs : (\A i \in DOMAIN s : s[i][1] # r) => req'[r] = req[r]
  BY <1>2, IssueIs
<1>4. ASSUME NEW r \in Reqs
      PROVE  /\ HeldBy(req'[r], m'.req_to_blocks[r], m'.num_cached_block[r])
             /\ LoadedBy(req'[r], load'[r], m'.req_to_blocks[r], m'.num_cached_block[r])
  <2>1. /\ HeldBy(req[r], m.req_to_blocks[r], m.num_cached_block[r])
        /\ LoadedBy(req[r], load[r], m.req_to_blocks[r], m.num_cached_block[r])
    BY DEF BlockInv, TablesInv, LoadsInv
  <2>2. CASE \E i \in DOMAIN s : s[i][1] = r
    <3>1. PICK i \in DOMAIN s : s[i][1] = r
      BY <2>2
    <3>2. /\ req[r].status = "RUNNING" /\ req'[r].status = "RUNNING"
          /\ req'[r].num_computed_tokens = req[r].num_computed_tokens + s[i][2]
      BY <1>3, <3>1
    <3>3. req'[r].num_computed_tokens <= Len(m.req_to_blocks[r]) * block_size
      BY <1>1, <1>2, <3>1, <3>2 DEF BlockInv, RoomInv, LoopStates
    <3>4. HeldBy(req'[r], m'.req_to_blocks[r], m'.num_cached_block[r])
      BY <1>1, <3>2, <3>3 DEF HeldBy, Waitable
    <3>5. LoadedBy(req'[r], load'[r], m'.req_to_blocks[r], m'.num_cached_block[r])
      BY <1>1, <2>1, <3>2 DEF LoadedBy
    <3> QED BY <3>4, <3>5
  <2>3. CASE ~ \E i \in DOMAIN s : s[i][1] = r
    <3>1. req'[r] = req[r]
      BY <1>3, <2>3
    <3> QED BY <1>1, <2>1, <3>1
  <2> QED BY <2>2, <2>3
<1>5. TablesInv' /\ LoadsInv'
  BY <1>4 DEF TablesInv, LoadsInv, HeldBy, LoadedBy
<1>6. RoomInv' /\ pc' \in PCs
  BY <1>1, RoomIdle DEF LoopStates, PCs
<1>7. LoadingInv'
  <2>1. \A q \in Reqs : FailedLoad(q) => FailedLoad(q)'
    BY <1>1, FailedKept
  <2>2. \A q \in Reqs : Loading(q)' => req'[q] = req[q]
    BY <1>3 DEF Loading
  <2> QED BY <1>1, <2>1, <2>2, LoadingKept DEF Loading, BlockInv
<1>8. ManagerInv(m', deferred_frees')
  BY <1>1 DEF BlockInv
<1> QED BY <1>1, <1>5, <1>6, <1>7, <1>8 DEF BlockInv, ManagerInv

\* Request r is scheduled too, with n tokens.
LEMMA RoomMore ==
  ASSUME LoopInv, RoomInv, pc \in LoopStates, NEW r \in Reqs, NEW n \in Nat, n >= 1,
         loop'.scheduled = Append(loop.scheduled, <<r, n>>),
         req'[r].num_computed_tokens + n <= Len(m'.req_to_blocks[r]) * block_size,
         \A q \in Reqs : q # r =>
           (/\ req'[q].num_computed_tokens = req[q].num_computed_tokens
            /\ m'.req_to_blocks[q] = m.req_to_blocks[q]),
         \A i \in DOMAIN loop.scheduled : loop.scheduled[i][1] # r
  PROVE  RoomInv'
<1>1. PICK s, s1, e : s = loop.scheduled /\ s1 = Append(s, e) /\ e = <<r, n>>
  OBVIOUS
<1>2. s \in Seq(Reqs \X (Nat \ {0})) /\ e \in Reqs \X (Nat \ {0})
  BY <1>1 DEF LoopInv
<1>3. /\ s1 \in Seq(Reqs \X (Nat \ {0})) /\ Len(s1) = Len(s) + 1 /\ Len(s) \in Nat
      /\ s1[Len(s) + 1] = e /\ \A i \in 1 .. Len(s) : s1[i] = s[i]
  BY <1>1, <1>2, AppendIs
<1> SUFFICES ASSUME NEW i \in DOMAIN s1
             PROVE  req'[s1[i][1]].num_computed_tokens + s1[i][2]
                      <= Len(m'.req_to_blocks[s1[i][1]]) * block_size
  BY <1>1 DEF RoomInv
<1>4. i \in 1 .. (Len(s) + 1)
  BY <1>3
<1>5. CASE i = Len(s) + 1
  <2>1. s1[i][1] = r /\ s1[i][2] = n
    BY <1>1, <1>3, <1>5
  <2> QED BY <2>1
<1>6. CASE i # Len(s) + 1
  <2>1. i \in DOMAIN s /\ i \in 1 .. Len(s)
    BY <1>2, <1>3, <1>4, <1>6
  <2>2. s[i] \in Reqs \X (Nat \ {0}) /\ s1[i] = s[i]
    BY <1>2, <1>3, <2>1
  <2>3. PICK q, k : q = s[i][1] /\ k = s[i][2]
    OBVIOUS
  <2>4. q \in Reqs /\ q # r
    BY <1>1, <2>1, <2>2, <2>3
  <2>5. req[q].num_computed_tokens + k <= Len(m.req_to_blocks[q]) * block_size
    BY <1>1, <2>1, <2>3 DEF RoomInv
  <2>6. /\ req'[q].num_computed_tokens = req[q].num_computed_tokens
        /\ m'.req_to_blocks[q] = m.req_to_blocks[q]
    BY <2>4
  <2> QED BY <2>2, <2>3, <2>5, <2>6
<1> QED BY <1>5, <1>6

\* The tokens of a request that is not finished.
LEMMA KnownTokens ==
  ASSUME TokenInv, NEW r \in Reqs, req[r].status \notin {"ABSENT", "FINISHED"}
  PROVE  Numbers(req[r]) /\ req[r].num_tokens < MaxLen(r)
BY DEF TokenInv, NumbersInv, AccountedInv, Known, Accounted

LEMMA BlockRunningAllocate ==
  ASSUME QueueInv, TokenInv, BlockInv, UNCHANGED config, RunningAllocate
  PROVE  BlockInv'
<1>0. LoopInv /\ RoomInv /\ DOMAIN loop = LoopFields /\ ManagerInv(m, deferred_frees)
  BY DEF TokenInv, QueueInv, Fields, BlockInv
<1>1. PICK r, n, c, N : /\ r = loop.request /\ n = loop.num_new
                        /\ c = req[r].num_computed_tokens /\ N = req[r].num_tokens
  OBVIOUS
<1>2. /\ pc = "allocate" /\ pc' = "running" /\ UNCHANGED <<req, load, deferred_frees>>
      /\ num_blocks_to_allocate(m, r, c + n, << >>) <= get_num_free_blocks(m.pool)
      /\ m' = allocate_slots(m, r, << >>, c, n, N)
      /\ loop' = [loop EXCEPT !.index = @ + 1, !.budget = @ - n,
                              !.scheduled = Append(@, <<r, n>>)]
  BY <1>1 DEF RunningAllocate, Fits
<1>3. /\ loop.index \in DOMAIN running /\ r = running[loop.index]
      /\ n \in Nat /\ n >= 1 /\ Takes(req[r], n)
  BY <1>0, <1>1, <1>2 DEF LoopInv
<1>4. r \in Reqs /\ req[r].status = "RUNNING"
  BY <1>3, RunningAre
<1>5. Numbers(req[r]) /\ N < MaxLen(r)
  BY <1>1, <1>4, KnownTokens
<1>6. c \in Nat /\ N \in Nat /\ N <= MaxLen(r)
  BY <1>1, <1>4, <1>5, MaxLenNat DEF Numbers
<1>7. PICK k1 : k1 = m'
  OBVIOUS
<1>8. HitsOk(m, r, << >>)
  BY NoHitsFit
<1>9. /\ ManagerInv(k1, deferred_frees) /\ OthersKeep(m, k1, r)
      /\ Len(k1.req_to_blocks[r]) \in Nat
      /\ c + n <= Len(k1.req_to_blocks[r]) * block_size
  BY <1>0, <1>2, <1>3, <1>4, <1>6, <1>7, <1>8, SlotsManager
<1>10. HeldBy(req'[r], m'.req_to_blocks[r], m'.num_cached_block[r])
  <2>1. PICK z \in Nat : z = Len(k1.req_to_blocks[r]) * block_size
    BY <1>9, ConstantFacts
  <2>2. c <= z
    BY <1>3, <1>6, <1>9, <2>1
  <2>3. req'[r].status = "RUNNING" /\ req'[r].num_computed_tokens = c
    BY <1>1, <1>2, <1>4
  <2> QED BY <1>7, <2>1, <2>2, <2>3 DEF HeldBy, Waitable
<1>11. LoadedBy(req'[r], load'[r], m'.req_to_blocks[r], m'.num_cached_block[r])
  <2>1. LoadedBy(req[r], load[r], m.req_to_blocks[r], m.num_cached_block[r])
    BY <1>4 DEF BlockInv, LoadsInv
  <2> QED BY <1>2, <1>4, <2>1 DEF LoadedBy
<1>12. RoomInv'
  <2>1. loop'.scheduled = Append(loop.scheduled, <<r, n>>)
    BY <1>0, <1>2 DEF LoopFields
  <2>2. \A i \in DOMAIN loop.scheduled : loop.scheduled[i][1] # r
    <3> SUFFICES ASSUME NEW i \in DOMAIN loop.scheduled
                 PROVE  loop.scheduled[i][1] # r
      OBVIOUS
    <3>1. PICK j \in DOMAIN running : j < loop.index /\ running[j] = loop.scheduled[i][1]
      BY <1>0, <1>2 DEF LoopInv
    <3>2. j # loop.index
      BY <1>3, <3>1, RunningAre
    <3> QED BY <1>3, <3>1, <3>2, RunningAre
  <2>3. \A q \in Reqs : q # r => m'.req_to_blocks[q] = m.req_to_blocks[q]
    BY <1>7, <1>9 DEF OthersKeep
  <2>4. req'[r].num_computed_tokens + n <= Len(m'.req_to_blocks[r]) * block_size
    BY <1>1, <1>2, <1>7, <1>9
  <2>5. pc \in LoopStates
    BY <1>2 DEF LoopStates
  <2> QED BY <1>0, <1>2, <1>3, <1>4, <2>1, <2>2, <2>3, <2>4, <2>5, RoomMore
<1>13. LoadingInv'
  <2>1. \A q \in Reqs : FailedLoad(q) => FailedLoad(q)'
    BY <1>2, FailedKept
  <2> QED BY <1>2, <2>1, LoadingKept DEF Loading, BlockInv
<1>14. ManagerInv(m', deferred_frees') /\ OthersKeep(m, m', r) /\ pc' \in PCs
  BY <1>2, <1>7, <1>9 DEF PCs
<1>15. \A q \in Reqs : q # r => req'[q] = req[q] /\ load'[q] = load[q]
  BY <1>2
<1> QED BY <1>4, <1>10, <1>11, <1>12, <1>13, <1>14, <1>15, OneBlocks

LEMMA BlockPromote ==
  ASSUME QueueInv, TokenInv, BlockInv, UNCHANGED config, WaitingPromote
  PROVE  BlockInv'
<1>0. /\ LoopInv /\ RoomInv /\ ManagerInv(m, deferred_frees) /\ DOMAIN req = Reqs
      /\ DOMAIN load = Reqs /\ \A q \in Reqs : load[q].back \in {"WAITING", "PREEMPTED"}
  BY DEF TokenInv, QueueInv, Fields, Statuses, BlockInv
<1>1. PICK r, n : r = NextWaiting /\ n = req[r].num_computed_tokens
  OBVIOUS
<1>2. PICK k : k = IF ~ load[r].failed /\ n = req[r].num_tokens THEN n - 1 ELSE n
  OBVIOUS
<1>3. /\ pc = "waiting" /\ CanAdmit /\ pc' = pc /\ Loading(r)
      /\ m' = IF load[r].failed /\ n = 0 THEN free(m, r) ELSE cache_blocks(m, r, n)
      /\ req' = [req EXCEPT ![r].status = load[r].back, ![r].num_computed_tokens = k]
      /\ load' = [load EXCEPT ![r] = NoLoad] /\ UNCHANGED <<deferred_frees, loop>>
  BY <1>1, <1>2 DEF WaitingPromote
<1>4. /\ r \in Reqs /\ r \in Known /\ Numbers(req[r]) /\ DOMAIN req[r] = RequestFields
      /\ n <= req[r].num_tokens /\ req[r].num_tokens < MaxLen(r)
  BY <1>1, <1>3, NextIs DEF Accounted
<1>5. PICK q, q1, t, t1, c, c1 :
        /\ q = req[r] /\ t = m.req_to_blocks[r] /\ c = m.num_cached_block[r]
        /\ q1 = req'[r] /\ t1 = m'.req_to_blocks[r] /\ c1 = m'.num_cached_block[r]
  OBVIOUS
<1>6. /\ q1.status \in {"WAITING", "PREEMPTED"} /\ q1.num_computed_tokens = k
      /\ q1.num_tokens = q.num_tokens
      /\ q1.num_stale_output_tokens = q.num_stale_output_tokens
      /\ q1.drop_stale_output = q.drop_stale_output
  BY <1>0, <1>3, <1>4, <1>5 DEF RequestFields
<1>7. \A p \in Reqs : p # r => req'[p] = req[p] /\ load'[p] = load[p]
  BY <1>0, <1>3, <1>4
<1>8. HeldBy(q, t, c) /\ q.status = "WAITING_FOR_REMOTE_KVS"
  BY <1>3, <1>4, <1>5 DEF BlockInv, TablesInv, Loading
<1>9. n \in Nat /\ q.num_tokens \in Nat /\ q.num_tokens >= 1
  BY <1>1, <1>4, <1>5 DEF Numbers
<1>10. n = 0 => load[r].failed
  BY <1>1, <1>3, <1>4 DEF BlockInv, LoadingInv, FailedLoad
<1>11. /\ ManagerInv(m', deferred_frees') /\ OthersKeep(m, m', r) /\ HeldBy(q1, t1, c1)
  <2>1. CASE load[r].failed /\ n = 0
    <3>1. m' = free(m, r)
      BY <1>3, <2>1
    <3>2. ManagerInv(m', deferred_frees) /\ Emptied(m, m', r)
      BY <1>0, <1>4, <3>1, FreeManager
    <3>3. OthersKeep(m, m', r) /\ t1 = << >>
      BY <1>0, <1>4, <1>5, <3>2, EmptiedKeeps
    <3>4. q1.num_computed_tokens = 0
      BY <1>2, <1>6, <2>1
    <3> QED BY <1>3, <3>2, <3>3, <3>4, HeldEmpty
  <2>2. CASE ~ (load[r].failed /\ n = 0)
    <3>1. m' = cache_blocks(m, r, n) /\ n >= 1
      BY <1>3, <1>9, <1>10, <2>2
    <3>2. n <= Len(t) * block_size
      BY <1>1, <1>5, <1>8 DEF HeldBy
    <3>3. n <= MaxLen(r)
      BY <1>4, <1>5, <1>9, MaxLenNat
    <3>4. /\ ManagerInv(m', deferred_frees) /\ CachedFrom(m, m', r)
          /\ n < block_size => m' = m
      BY <1>0, <1>4, <1>5, <1>9, <3>1, <3>2, <3>3, CacheManager
    <3>5. OthersKeep(m, m', r) /\ t1 = t
      BY <1>5, <3>4 DEF OthersKeep, CachedFrom
    <3>6. k \in Nat /\ k <= n /\ (k > 0 \/ q.num_tokens = 1)
      BY <1>2, <1>4, <1>5, <1>9, <3>1
    <3>7. k <= Len(t) * block_size
      <4>1. t \in Seq(Blocks)
        BY <1>0, <1>4, <1>5 DEF ManagerInv
      <4>2. Len(t) * block_size \in Nat
        BY <4>1, ConstantFacts
      <4>3. PICK z \in Nat : z = Len(t) * block_size
        BY <4>2
      <4> QED BY <1>9, <3>2, <3>6, <4>3
    <3>8. block_size > 1 /\ q.num_tokens = 1 => c1 = c
      <4>1. block_size > 1 /\ q.num_tokens = 1 => n < block_size
        BY <1>4, <1>5, <1>9, ConstantFacts
      <4> QED BY <1>5, <3>4, <4>1
    <3>9. HeldBy(q1, t, c1)
      <4>1. q.status \in Waitable /\ q1.status \notin {"ABSENT", "FINISHED"}
        BY <1>6, <1>8 DEF Waitable
      <4> QED BY <1>6, <1>8, <3>6, <3>7, <3>8, <4>1 DEF HeldBy
    <3> QED BY <1>3, <3>4, <3>5, <3>9
  <2> QED BY <2>1, <2>2
<1>12. LoadedBy(q1, load'[r], t1, c1)
  <2>1. load'[r] = NoLoad
    BY <1>0, <1>3, <1>4
  <2>2. load'[r].state = "none"
    BY <2>1 DEF NoLoad
  <2> QED BY <1>6, <2>2 DEF LoadedBy
<1>13. RoomInv'
  <2>1. \A p \in Reqs : req[p].status = "RUNNING" =>
          /\ req'[p].num_computed_tokens = req[p].num_computed_tokens
          /\ m'.req_to_blocks[p] = m.req_to_blocks[p]
    BY <1>5, <1>7, <1>8, <1>11 DEF OthersKeep
  <2>2. pc \in LoopStates /\ loop'.scheduled = loop.scheduled
    BY <1>3 DEF LoopStates
  <2> QED BY <1>0, <2>1, <2>2, RoomKept
<1>14. LoadingInv'
  <2>1. ASSUME NEW p \in Reqs, Loading(p)'
        PROVE  /\ Loading(p) /\ req'[p].num_computed_tokens = req[p].num_computed_tokens
               /\ FailedLoad(p) => FailedLoad(p)'
    <3>1. p # r
      BY <1>5, <1>6, <2>1 DEF Loading
    <3>2. req'[p] = req[p] /\ load'[p] = load[p]
      BY <1>7, <3>1
    <3> QED BY <1>3, <2>1, <3>2, FailedKept DEF Loading
  <2> QED BY <2>1, LoadingKept DEF BlockInv
<1>15. pc' \in PCs
  BY <1>3 DEF PCs
<1> QED BY <1>4, <1>5, <1>7, <1>11, <1>12, <1>13, <1>14, <1>15, OneBlocks

LEMMA BlockAdmit ==
  ASSUME QueueInv, TokenInv, BlockInv, UNCHANGED config, WaitingAdmit
  PROVE  BlockInv'
<1>0. LoopInv /\ RoomInv /\ ManagerInv(m, deferred_frees) /\ DOMAIN req = Reqs /\ DOMAIN loop = LoopFields
  BY DEF TokenInv, QueueInv, Fields, BlockInv
<1>1. PICK r : r = NextWaiting
  OBVIOUS
<1>2. PICK hits \in Hits(r) :
        LET computed == NumComputed(r, hits)
            num_new == Chunk(req[r].num_tokens - computed)
        IN /\ AdmissionFits(r, hits)
           /\ m' = allocate_slots(m, r, hits, computed, num_new, req[r].num_tokens)
           /\ req' = [req EXCEPT
               ![r].status = "RUNNING", ![r].num_computed_tokens = computed,
               ![r].prefilling = @ \/ computed + num_new < req[r].num_tokens]
           /\ loop' = [loop EXCEPT !.budget = @ - num_new,
                                   !.scheduled = Append(@, <<r, num_new>>)]
  BY <1>1 DEF WaitingAdmit
<1>3. /\ pc = "waiting" /\ CanAdmit /\ Ready(r) /\ pc' = pc /\ UNCHANGED <<deferred_frees, load>>
  BY <1>1 DEF WaitingAdmit
<1>4. PICK k, n, N : k = NumComputed(r, hits) /\ N = req[r].num_tokens /\ n = Chunk(N - k)
  OBVIOUS
<1>5. /\ m' = allocate_slots(m, r, hits, k, n, N)
      /\ req' = [req EXCEPT
           ![r].status = "RUNNING", ![r].num_computed_tokens = k,
           ![r].prefilling = @ \/ k + n < N]
      /\ loop' = [loop EXCEPT !.budget = @ - n, !.scheduled = Append(@, <<r, n>>)]
  BY <1>2, <1>4
<1>6. /\ r \in Reqs /\ r \in Known /\ Numbers(req[r]) /\ DOMAIN req[r] = RequestFields
      /\ req[r].status \in Waitable /\ N < MaxLen(r)
  BY <1>1, <1>3, <1>4, NextIs DEF Accounted
<1>7. k \in Nat /\ k < N /\ N \in Nat
  BY <1>1, <1>3, <1>4, ComputedIs
<1>8. n \in Nat /\ n >= 1 /\ n <= N - k
  <2>1. loop.budget \in Nat /\ loop.budget >= 1
    BY <1>0, <1>3 DEF LoopInv, CanAdmit
  <2>2. PICK w \in Nat : w = N - k /\ w >= 1
    BY <1>7
  <2> QED BY <1>4, <2>1, <2>2, ChunkIs
<1>9. HitsOk(m, r, hits)
  <2>1. HeldBy(req[r], m.req_to_blocks[r], m.num_cached_block[r])
    BY <1>6 DEF BlockInv, TablesInv
  <2>2. m.req_to_blocks[r] # << >> => req[r].num_computed_tokens > 0 \/ req[r].num_tokens = 1
    BY <1>3, <1>6, <2>1 DEF HeldBy, Ready, Loading
  <2> QED BY <1>0, <1>4, <1>6, <2>2, HitsFit
<1>10. num_blocks_to_allocate(m, r, k + n, hits) <= get_num_free_blocks(m.pool)
  <2>1. PICK w, a, b, f : /\ w = Watermark /\ a = num_blocks_to_allocate(m, r, k + n, hits)
                          /\ b = num_blocks_to_allocate(m, r, N, hits)
                          /\ f = get_num_free_blocks(m.pool)
    OBVIOUS
  <2>2. w \in Nat
    BY <2>1, SchedulerAssumption DEF Watermark
  <2>3. f \in Nat
    <3>1. m.pool.free \in Seq(Blocks)
      BY <1>0 DEF ManagerInv, PoolInv
    <3> QED BY <2>1, <3>1 DEF get_num_free_blocks
  <2>4. PICK x \in Nat : x = k + n
    BY <1>7, <1>8
  <2>5. x <= N
    BY <1>7, <1>8, <2>4
  <2>6. a \in Nat /\ b \in Nat /\ a <= b
    BY <1>0, <1>6, <1>7, <1>9, <2>1, <2>4, <2>5, NeedMonotone
  <2>7. (IF config.reserve_full_isl THEN b ELSE a) + w <= f
    BY <1>2, <1>4, <2>1 DEF AdmissionFits
  <2>8. a + w <= f
    BY <2>2, <2>3, <2>6, <2>7
  <2> QED BY <2>1, <2>2, <2>3, <2>6, <2>8
<1>11. PICK k1 : k1 = m'
  OBVIOUS
<1>12. /\ ManagerInv(k1, deferred_frees) /\ OthersKeep(m, k1, r)
       /\ Len(k1.req_to_blocks[r]) \in Nat
       /\ k + n <= Len(k1.req_to_blocks[r]) * block_size
  <2>1. N <= MaxLen(r)
    BY <1>6, <1>7, MaxLenNat
  <2> QED BY <1>0, <1>5, <1>6, <1>7, <1>8, <1>9, <1>10, <1>11, <2>1, SlotsManager
<1>13. /\ req'[r].status = "RUNNING" /\ req'[r].num_computed_tokens = k
       /\ \A p \in Reqs : p # r => req'[p] = req[p] /\ load'[p] = load[p]
  <2>1. PICK x : req' = [req EXCEPT ![r].status = "RUNNING", ![r].num_computed_tokens = k,
                                    ![r].prefilling = x]
    <3>1. PICK x : x = (req[r].prefilling \/ k + n < N)
      OBVIOUS
    <3> QED BY <1>0, <1>5, <1>6, <3>1
  <2> QED BY <1>0, <1>3, <1>6, <2>1 DEF RequestFields
<1>14. HeldBy(req'[r], m'.req_to_blocks[r], m'.num_cached_block[r])
  <2>1. PICK z \in Nat : z = Len(k1.req_to_blocks[r]) * block_size
    BY <1>12, ConstantFacts
  <2>2. k <= z
    BY <1>7, <1>8, <1>12, <2>1
  <2> QED BY <1>11, <1>13, <2>1, <2>2 DEF HeldBy, Waitable
<1>15. LoadedBy(req'[r], load'[r], m'.req_to_blocks[r], m'.num_cached_block[r])
  <2>1. LoadedBy(req[r], load[r], m.req_to_blocks[r], m.num_cached_block[r])
    BY <1>6 DEF BlockInv, LoadsInv
  <2>2. load[r].state \notin {"transfer", "arrived"}
    BY <1>3, <1>6, <2>1 DEF LoadedBy, Ready, Loading, Known
  <2> QED BY <1>3, <1>13, <2>1, <2>2 DEF LoadedBy
<1>16. RoomInv'
  <2>1. loop'.scheduled = Append(loop.scheduled, <<r, n>>)
    BY <1>0, <1>5 DEF LoopFields
  <2>2. pc \in LoopStates
    BY <1>3 DEF LoopStates
  <2>3. \A i \in DOMAIN loop.scheduled : loop.scheduled[i][1] # r
    BY <1>0, <1>6, <2>2 DEF LoopInv, Takes, Waitable, LoopStates
  <2>4. \A q \in Reqs : q # r =>
          (/\ req'[q].num_computed_tokens = req[q].num_computed_tokens
           /\ m'.req_to_blocks[q] = m.req_to_blocks[q])
    BY <1>11, <1>12, <1>13 DEF OthersKeep
  <2>5. req'[r].num_computed_tokens + n <= Len(m'.req_to_blocks[r]) * block_size
    BY <1>11, <1>12, <1>13
  <2> QED BY <1>0, <1>6, <1>8, <2>1, <2>2, <2>3, <2>4, <2>5, RoomMore
<1>17. LoadingInv'
  <2>1. \A q \in Reqs : FailedLoad(q) => FailedLoad(q)'
    BY <1>3, FailedKept
  <2>2. \A q \in Reqs : Loading(q)' => q # r
    BY <1>13 DEF Loading
  <2> QED BY <1>13, <2>1, <2>2, LoadingKept DEF Loading, BlockInv
<1>18. ManagerInv(m', deferred_frees') /\ OthersKeep(m, m', r) /\ pc' \in PCs
  BY <1>3, <1>11, <1>12 DEF PCs
<1> QED BY <1>6, <1>13, <1>14, <1>15, <1>16, <1>17, <1>18, OneBlocks

LEMMA BlockLoad ==
  ASSUME QueueInv, TokenInv, BlockInv, UNCHANGED config, WaitingLoad
  PROVE  BlockInv'
<1>0. /\ LoopInv /\ RoomInv /\ ManagerInv(m, deferred_frees) /\ DOMAIN req = Reqs
      /\ DOMAIN loop = LoopFields /\ DOMAIN load = Reqs /\ NumbersInv
  BY DEF TokenInv, QueueInv, Fields, BlockInv
<1>1. PICK r : r = NextWaiting
  OBVIOUS
<1>2a. PICK hits \in Hits(r) : \E end \in Offers(r, NumComputed(r, hits)) :
        /\ LoadFits(r, hits, end)
        /\ m' = LoadAllocation(r, hits, end)
        /\ req' = [req EXCEPT ![r].status = "WAITING_FOR_REMOTE_KVS",
                              ![r].num_computed_tokens = end, ![r].prefilling = TRUE]
        /\ load' = [load EXCEPT ![r] =
             [NoLoad EXCEPT !.state = "transfer", !.first = NumComputed(r, hits),
                            !.blocks = ToSet(m'.req_to_blocks[r]) \ ToSet(hits),
                            !.steps = Len(in_flight) + 1, !.back = req[r].status]]
        /\ loop' = [loop EXCEPT !.skipped = <<r>> \o @]
  BY <1>1 DEF WaitingLoad
<1>2. PICK end \in Offers(r, NumComputed(r, hits)) :
        /\ LoadFits(r, hits, end)
        /\ m' = LoadAllocation(r, hits, end)
        /\ req' = [req EXCEPT ![r].status = "WAITING_FOR_REMOTE_KVS",
                              ![r].num_computed_tokens = end, ![r].prefilling = TRUE]
        /\ load' = [load EXCEPT ![r] =
             [NoLoad EXCEPT !.state = "transfer", !.first = NumComputed(r, hits),
                            !.blocks = ToSet(m'.req_to_blocks[r]) \ ToSet(hits),
                            !.steps = Len(in_flight) + 1, !.back = req[r].status]]
        /\ loop' = [loop EXCEPT !.skipped = <<r>> \o @]
  BY <1>2a
<1>3. /\ pc = "waiting" /\ CanAdmit /\ Ready(r) /\ pc' = pc /\ UNCHANGED deferred_frees
  BY <1>1 DEF WaitingLoad
<1>4. /\ r \in Reqs /\ r \in Known /\ Numbers(req[r]) /\ DOMAIN req[r] = RequestFields
      /\ req[r].status \in Waitable /\ req[r].num_tokens < MaxLen(r)
  BY <1>1, <1>3, NextIs DEF Accounted
<1>5. PICK k, N : k = NumComputed(r, hits) /\ N = req[r].num_tokens
  OBVIOUS
<1>6. k \in Nat /\ N \in Nat /\ N >= 1
  BY <1>1, <1>3, <1>4, <1>5, ComputedIs DEF Numbers
<1>7. /\ end \in Nat /\ end >= 1 /\ config.kv_load # "none" /\ req[r].num_computed_tokens = 0
  <2>1. end \in (k + 1) .. N /\ config.kv_load # "none" /\ ~ (req[r].num_computed_tokens > 0)
    BY <1>2, <1>5 DEF Offers
  <2>2. req[r].num_computed_tokens \in Nat
    BY <1>4 DEF Numbers
  <2> QED BY <1>6, <2>1, <2>2
<1>8. PICK q, q1, t, t1, c, c1 :
        /\ q = req[r] /\ t = m.req_to_blocks[r] /\ c = m.num_cached_block[r]
        /\ q1 = req'[r] /\ t1 = m'.req_to_blocks[r] /\ c1 = m'.num_cached_block[r]
  OBVIOUS
<1>9. HeldBy(q, t, c) /\ LoadedBy(q, load[r], t, c)
  BY <1>4, <1>8 DEF BlockInv, TablesInv, LoadsInv
<1>10. t # << >> => N = 1 /\ (block_size > 1 => c = 0)
  BY <1>3, <1>4, <1>5, <1>7, <1>8, <1>9 DEF HeldBy, Ready, Loading
<1>11. HitsOk(m, r, hits)
  <2>1. m.req_to_blocks[r] # << >> => req[r].num_computed_tokens > 0 \/ req[r].num_tokens = 1
    BY <1>5, <1>8, <1>10
  <2> QED BY <1>0, <1>2a, <1>4, <2>1, HitsFit
<1>12. num_blocks_to_allocate(m, r, end, hits) <= get_num_free_blocks(m.pool)
  <2>1. PICK w, x, a, f : /\ w = Watermark /\ x = ReservedBlocks
                          /\ a = num_blocks_to_allocate(m, r, end, hits)
                          /\ f = get_num_free_blocks(m.pool)
    OBVIOUS
  <2>2. w \in Nat
    BY <2>1, SchedulerAssumption DEF Watermark
  <2>3. x \in Nat
    BY <1>0, <2>1, ReservedNat DEF NumbersInv
  <2>4. f \in Nat
    <3>1. m.pool.free \in Seq(Blocks)
      BY <1>0 DEF ManagerInv, PoolInv
    <3> QED BY <2>1, <3>1 DEF get_num_free_blocks
  <2>5. a \in Nat
    BY <1>0, <1>4, <1>7, <1>11, <2>1, NeedMonotone
  <2>6. a + w + x <= f
    BY <1>2, <2>1 DEF LoadFits
  <2> QED BY <2>1, <2>2, <2>3, <2>4, <2>5, <2>6
<1>13. PICK k1 : k1 = m'
  OBVIOUS
<1>14. ManagerInv(k1, deferred_frees) /\ Allocated(m, k1, r, hits, end)
  BY <1>0, <1>2, <1>4, <1>7, <1>11, <1>12, <1>13, AllocateManager DEF LoadAllocation
<1>15. /\ OthersKeep(m, m', r) /\ end <= Len(t1) * block_size
       /\ \E new \in Seq(Blocks) : t1 = Cat3(t, hits, new)
       /\ c1 = c + Len(hits)
  BY <1>8, <1>13, <1>14 DEF Allocated
<1>16. PICK new \in Seq(Blocks) : t1 = Cat3(t, hits, new)
  BY <1>15
<1>17. /\ hits \in Seq(Blocks) /\ Len(hits) \in Nat /\ Len(hits) * block_size <= N - 1
  BY <1>2a, <1>4, <1>5, <1>6, HitsAre DEF Numbers
<1>18. t \in Seq(Blocks) /\ c \in Nat /\ c <= Len(t)
  BY <1>0, <1>4, <1>8 DEF ManagerInv, TableOk
<1>19. N = 1 => Len(hits) = 0
  <2>1. PICK h \in Nat : h = Len(hits)
    BY <1>17
  <2>2. h >= 1 => h * block_size >= 1
    <3>1. h >= 1 => 1 * block_size <= h * block_size
      BY ConstantFacts, TimesMonotone
    <3>2. h * block_size \in Nat /\ 1 * block_size = block_size
      BY ConstantFacts
    <3> QED BY <3>1, <3>2, ConstantFacts
  <2>3. h * block_size \in Nat
    BY ConstantFacts
  <2> QED BY <1>6, <1>17, <2>1, <2>2, <2>3
<1>20. block_size > 1 /\ N = 1 => c1 = 0
  <2>1. t = << >> => c = 0
    BY <1>18
  <2> QED BY <1>10, <1>15, <1>18, <1>19, <2>1
<1>21. /\ q1.status = "WAITING_FOR_REMOTE_KVS" /\ q1.num_computed_tokens = end
       /\ q1.num_tokens = N
       /\ q1.num_stale_output_tokens = q.num_stale_output_tokens
       /\ q1.drop_stale_output = q.drop_stale_output
  BY <1>0, <1>2, <1>4, <1>5, <1>8 DEF RequestFields
<1>22. /\ load'[r].state = "transfer" /\ load'[r].blocks = ToSet(t1) \ ToSet(hits)
  BY <1>0, <1>2, <1>4, <1>8 DEF NoLoad
<1>23. \A p \in Reqs : p # r => req'[p] = req[p] /\ load'[p] = load[p]
  BY <1>0, <1>2, <1>4
<1>24. HeldBy(q1, t1, c1)
  <2>1. q.num_stale_output_tokens > 0 => q.drop_stale_output
    BY <1>3, <1>8 DEF Ready, AwaitsStaleOutput
  <2> QED BY <1>15, <1>20, <1>21, <2>1 DEF HeldBy
<1>25. ASSUME block_size > 1, NEW b \in ToSet(t1) \ ToSet(hits)
       PROVE  \E i \in 1 .. Len(t1) : i > c1 /\ t1[i] = b
  <2>1. PICK th : th = t \o hits
    OBVIOUS
  <2>2. /\ th \in Seq(Blocks) /\ Len(th) = Len(t) + Len(hits)
        /\ \A i \in 1 .. Len(th) : i > Len(t) => th[i] = hits[i - Len(t)]
    <3>1. t \in Seq(Blocks) /\ hits \in Seq(Blocks)
      BY <1>17, <1>18
    <3>2. /\ t \o hits \in Seq(Blocks) /\ Len(t \o hits) = Len(t) + Len(hits)
          /\ \A i \in 1 .. Len(t \o hits) : i > Len(t) => (t \o hits)[i] = hits[i - Len(t)]
      BY ONLY <3>1, CatIs
    <3> QED BY <2>1, <3>2
  <2>3. t1 = th \o new
    BY <1>16, <2>1 DEF Cat3
  <2>4. /\ t1 \in Seq(Blocks) /\ Len(t1) = Len(th) + Len(new)
        /\ \A i \in 1 .. Len(th) : t1[i] = th[i]
    <3>1. th \in Seq(Blocks) /\ new \in Seq(Blocks)
      BY <1>16, <2>2
    <3>2. /\ th \o new \in Seq(Blocks) /\ Len(th \o new) = Len(th) + Len(new)
          /\ \A i \in 1 .. Len(th) : (th \o new)[i] = th[i]
      BY ONLY <3>1, CatIs
    <3> QED BY <2>3, <3>2
  <2>5. PICK i \in 1 .. Len(t1) : t1[i] = b
    BY <2>4 DEF ToSet
  <2>6. i > c1
    <3>1. CASE t = << >>
      <4>1. Len(t) = 0 /\ c = 0
        BY <1>18, <3>1
      <4>2. c1 = Len(hits) /\ Len(th) = Len(hits)
        BY <1>15, <1>17, <2>2, <4>1
      <4>3. ASSUME i <= Len(hits)
            PROVE  FALSE
        <5>1. i \in 1 .. Len(th) /\ i > Len(t) /\ i - Len(t) = i /\ i \in 1 .. Len(hits)
          BY <1>17, <4>1, <4>2, <4>3
        <5>2. t1[i] = hits[i]
          BY <2>2, <2>4, <5>1
        <5>3. b \in ToSet(hits)
          BY <1>17, <2>5, <5>1, <5>2 DEF ToSet
        <5> QED BY <5>3
      <4> QED BY <1>17, <4>2, <4>3
    <3>2. CASE t # << >>
      <4>1. c1 = 0
        BY <1>10, <1>20, <1>25, <3>2
      <4> QED BY <4>1
    <3> QED BY <3>1, <3>2
  <2> QED BY <2>5, <2>6
<1>26. LoadedBy(q1, load'[r], t1, c1)
  BY <1>21, <1>22, <1>25 DEF LoadedBy
<1>27. RoomInv'
  <2>1. \A p \in Reqs : req[p].status = "RUNNING" =>
          /\ req'[p].num_computed_tokens = req[p].num_computed_tokens
          /\ m'.req_to_blocks[p] = m.req_to_blocks[p]
    BY <1>4, <1>15, <1>23 DEF OthersKeep, Waitable
  <2>2. pc \in LoopStates /\ loop'.scheduled = loop.scheduled
    BY <1>0, <1>2, <1>3 DEF LoopStates, LoopFields
  <2> QED BY <1>0, <2>1, <2>2, RoomKept
<1>28. LoadingInv'
  <2> SUFFICES ASSUME NEW p \in Reqs, Loading(p)'
               PROVE  /\ config'.kv_load # "none"
                      /\ req'[p].num_computed_tokens = 0 => FailedLoad(p)'
    BY DEF LoadingInv
  <2>1. CASE p = r
    BY <1>7, <1>8, <1>21, <2>1
  <2>2. CASE p # r
    <3>1. req'[p] = req[p] /\ load'[p] = load[p]
      BY <1>23, <2>2
    <3>2. Loading(p)
      BY <3>1 DEF Loading
    <3>3. FailedLoad(p) => FailedLoad(p)'
      BY <1>3, <3>1, FailedKept
    <3> QED BY <3>1, <3>2, <3>3 DEF BlockInv, LoadingInv
  <2> QED BY <2>1, <2>2
<1>29. ManagerInv(m', deferred_frees') /\ pc' \in PCs
  BY <1>3, <1>13, <1>14 DEF PCs
<1> QED BY <1>4, <1>8, <1>15, <1>23, <1>24, <1>26, <1>27, <1>28, <1>29, OneBlocks

\* A request that waits for its output has no blocks.
LEMMA DeliversTo ==
  ASSUME QueueInv, TokenInv, BlockInv, pc = "update", todo # << >>, NEW e, e = Head(todo),
         Delivers(e), NEW r, r = e.request
  PROVE  /\ r \in Reqs /\ r \in Known /\ ~ Loading(r)
         /\ req[r].status # "RUNNING" =>
              m.req_to_blocks[r] = << >> /\ req[r].num_computed_tokens = 0
         /\ load[r].state \in {"none", "finished"}
         /\ req[r].status = "RUNNING" => req[r].num_stale_output_tokens = 0
<1>1. r \in Reqs /\ r \in Known /\ req[r].status \in Waitable \cup {"RUNNING"}
  BY DEF Delivers, Known, QueueInv, Statuses
<1>2. PICK q, s, x : /\ q = req[r] /\ x = (IF Delivers(e) THEN 1 ELSE 0)
                     /\ s = IF q.num_stale_output_tokens > 0 THEN q.num_stale_output_tokens - e.num
                            ELSE q.num_stale_output_tokens
  <2>1. PICK q : q = req[r]
    OBVIOUS
  <2>2. PICK s : s = IF q.num_stale_output_tokens > 0 THEN q.num_stale_output_tokens - e.num
                     ELSE q.num_stale_output_tokens
    OBVIOUS
  <2>3. PICK x : x = IF Delivers(e) THEN 1 ELSE 0
    OBVIOUS
  <2> QED BY <2>1, <2>2, <2>3
<1>3. Leaves(AfterFirst, r, e, q, x, s)
  BY <1>1, <1>2, LandedCounts
<1>4. PICK n \in Nat : Progress(q, n)
  BY <1>3 DEF Leaves
<1>5. e.num \in Nat /\ e.num >= 1 /\ q.num_in_flight_tokens - e.num \in Nat
  BY <1>3 DEF Leaves
<1>6. Numbers(q)
  BY <1>1, <1>2 DEF TokenInv, NumbersInv
<1>7. q.num_in_flight_tokens >= 1
  BY <1>5, <1>6 DEF Numbers
<1>8. ~ (q.num_stale_output_tokens > 0 /\ q.drop_stale_output)
  BY <1>2 DEF Delivers, IsStale
<1>9. q.status \in Waitable => q.num_stale_output_tokens > 0 /\ ~ q.drop_stale_output
  <2>1. q.status \in Waitable => q.num_stale_output_tokens = q.num_in_flight_tokens
    BY <1>4 DEF Progress
  <2>2. q.status \in Waitable => q.num_stale_output_tokens > 0
    BY <1>6, <1>7, <2>1 DEF Numbers
  <2> QED BY <1>8, <2>2
<1>10. q.status \in Waitable => q.status # "WAITING_FOR_REMOTE_KVS" /\ q.num_computed_tokens = 0
  <2>1. q.status \in Waitable => q.status # "WAITING_FOR_REMOTE_KVS" /\ ~ (q.num_computed_tokens > 0)
    BY <1>4, <1>9 DEF Progress
  <2> QED BY <1>6, <2>1 DEF Numbers
<1>11. q.status \in Waitable => m.req_to_blocks[r] = << >>
  <2>1. HeldBy(q, m.req_to_blocks[r], m.num_cached_block[r])
    BY <1>1, <1>2 DEF BlockInv, TablesInv
  <2> QED BY <1>9, <2>1 DEF HeldBy
<1>12. q.status = "RUNNING" => q.num_stale_output_tokens = 0
  <2>1. q.status = "RUNNING" => ~ (q.num_stale_output_tokens > 0)
    BY <1>4, <1>8 DEF Progress
  <2> QED BY <1>6, <2>1 DEF Numbers
<1>13. ~ Loading(r)
  BY <1>2, <1>10 DEF Loading, Waitable
<1>14. load[r].state \in {"none", "finished"}
  <2>1. LoadedBy(req[r], load[r], m.req_to_blocks[r], m.num_cached_block[r])
    BY <1>1 DEF BlockInv, LoadsInv
  <2> QED BY <1>1, <1>13, <2>1 DEF LoadedBy, Loading, Known
<1> QED BY <1>1, <1>2, <1>10, <1>11, <1>12, <1>13, <1>14

\* AsyncScheduler caches the tokens of a request that runs.
LEMMA CachedAfterManager ==
  ASSUME QueueInv, TokenInv, BlockInv, pc = "update", todo # << >>, NEW e, e = Head(todo),
         Delivers(e), NEW r, r = e.request
  PROVE  ManagerInv(CachedAfter(e), deferred_frees) /\ CachedFrom(m, CachedAfter(e), r)
<1>0. ManagerInv(m, deferred_frees)
  BY DEF BlockInv
<1>1. /\ r \in Reqs /\ r \in Known
      /\ req[r].status = "RUNNING" => req[r].num_stale_output_tokens = 0
  BY DeliversTo
<1>2. CASE async_scheduling /\ req[r].status = "RUNNING"
  <2>1. PICK q, q1 : q = req[r] /\ q1 = WithOutput(e)
    OBVIOUS
  <2>2. Numbers(q) /\ Numbers(q1) /\ q.num_tokens < MaxLen(r) /\ q.status = "RUNNING"
    BY <1>1, <1>2, <2>1, LandedAccounted, KnownTokens
  <2>3. /\ q1.num_computed_tokens = q.num_computed_tokens
        /\ q1.num_output_placeholders = q.num_output_placeholders - 1
    <3>1. DOMAIN req[e.request] = RequestFields /\ e.request \in Reqs
      BY <1>1 DEF QueueInv, Fields
    <3>2. /\ WithOutput(e).num_computed_tokens = req[e.request].num_computed_tokens
          /\ WithOutput(e).num_output_placeholders =
                 IF async_scheduling /\ ~ (req[e.request].num_stale_output_tokens > 0)
                 THEN req[e.request].num_output_placeholders - 1
                 ELSE req[e.request].num_output_placeholders
      BY <3>1, LandedFields
    <3> QED BY <1>1, <1>2, <2>1, <3>2
  <2>4. PICK o : Progress(q, o)
    BY <1>1, <2>1 DEF TokenInv, AccountedInv, Accounted
  <2>5. q.num_output_placeholders > 0 =>
          q.num_computed_tokens + 1 = q.num_tokens + q.num_output_placeholders
    BY <1>2, <2>2, <2>4 DEF Progress
  <2>6. PICK n : n = q1.num_computed_tokens - q1.num_output_placeholders
    OBVIOUS
  <2>7. n = q.num_tokens /\ n \in Nat /\ n <= q.num_computed_tokens
    <3>1. PICK c, o1, p, p1 : /\ c = q.num_computed_tokens /\ o1 = q.num_tokens
                              /\ p = q.num_output_placeholders /\ p1 = q1.num_output_placeholders
      OBVIOUS
    <3>2. c \in Nat /\ o1 \in Nat /\ p \in Nat /\ p1 \in Nat /\ p1 = p - 1
      BY <2>2, <2>3, <3>1 DEF Numbers
    <3>3. n = c - p1 /\ (p > 0 => c + 1 = o1 + p)
      BY <2>3, <2>5, <2>6, <3>1
    <3>4. n = o1 /\ n <= c
      BY <3>2, <3>3
    <3> QED BY <3>1, <3>2, <3>4
  <2>8. n <= MaxLen(r)
    BY <1>1, <2>2, <2>7, MaxLenNat
  <2>9. n <= Len(m.req_to_blocks[r]) * block_size
    <3>1. HeldBy(q, m.req_to_blocks[r], m.num_cached_block[r])
      BY <1>1, <2>1 DEF BlockInv, TablesInv
    <3>2. q.num_computed_tokens <= Len(m.req_to_blocks[r]) * block_size
      BY <2>2, <3>1 DEF HeldBy
    <3>3. m.req_to_blocks[r] \in Seq(Blocks)
      BY <1>0, <1>1 DEF ManagerInv
    <3>4. PICK z \in Nat : z = Len(m.req_to_blocks[r]) * block_size
      BY <3>3, ConstantFacts
    <3>5. q.num_computed_tokens \in Nat
      BY <2>2 DEF Numbers
    <3> QED BY <2>7, <3>2, <3>4, <3>5
  <2>10. CachedAfter(e) = cache_blocks(m, r, n)
    BY <1>2, <2>1, <2>6 DEF CachedAfter
  <2> QED BY <1>0, <1>1, <2>7, <2>8, <2>9, <2>10, CacheManager
<1>3. CASE ~ (async_scheduling /\ req[r].status = "RUNNING")
  <2>1. CachedAfter(e) = m
    BY <1>3 DEF CachedAfter
  <2> QED BY <1>0, <2>1 DEF CachedFrom
<1> QED BY <1>2, <1>3

\* The loads stay when one request, which is not loading, changes.
LEMMA LoadingOthers ==
  ASSUME LoadingInv, UNCHANGED <<config, pc, load>>, NEW r, ~ Loading(r)',
         \A q \in Reqs : q # r => req'[q] = req[q]
  PROVE  LoadingInv'
<1>1. ASSUME NEW q \in Reqs, Loading(q)'
      PROVE  /\ Loading(q) /\ req'[q].num_computed_tokens = req[q].num_computed_tokens
             /\ FailedLoad(q) => FailedLoad(q)'
  <2>1. req'[q] = req[q]
    BY <1>1
  <2> QED BY <1>1, <2>1 DEF Loading, FailedLoad, Invalid
<1> QED BY <1>1, LoadingKept

LEMMA BlockDeliver ==
  ASSUME QueueInv, TokenInv, BlockInv, UNCHANGED config, UpdateDeliver
  PROVE  BlockInv'
<1>1. PICK e, r : e = Head(todo) /\ r = e.request
  OBVIOUS
<1>2. /\ pc = "update" /\ todo # << >> /\ Delivers(e) /\ UNCHANGED <<pc, load, deferred_frees>>
      /\ req' = [req EXCEPT ![r] = WithOutput(e)] /\ m' = CachedAfter(e)
  BY <1>1 DEF UpdateDeliver
<1>3. /\ r \in Reqs /\ r \in Known /\ ~ Loading(r)
      /\ req[r].status # "RUNNING" =>
           m.req_to_blocks[r] = << >> /\ req[r].num_computed_tokens = 0
      /\ load[r].state \in {"none", "finished"}
  BY <1>1, <1>2, DeliversTo
<1>4. ManagerInv(m', deferred_frees) /\ CachedFrom(m, m', r)
  BY <1>1, <1>2, CachedAfterManager
<1>5. OthersKeep(m, m', r) /\ m'.req_to_blocks[r] = m.req_to_blocks[r]
  BY <1>4 DEF OthersKeep, CachedFrom
<1>6. /\ req'[r].status = req[r].status
      /\ req'[r].num_computed_tokens = req[r].num_computed_tokens
      /\ \A q \in Reqs : q # r => req'[q] = req[q] /\ load'[q] = load[q]
  <2>1. DOMAIN req = Reqs /\ DOMAIN req[e.request] = RequestFields /\ e.request \in Reqs
    BY <1>1, <1>3 DEF QueueInv, Fields
  <2>2. /\ WithOutput(e).status = req[e.request].status
        /\ WithOutput(e).num_computed_tokens = req[e.request].num_computed_tokens
    BY <2>1, LandedFields
  <2> QED BY <1>1, <1>2, <2>1, <2>2
<1>7. HeldBy(req'[r], m'.req_to_blocks[r], m'.num_cached_block[r])
  <2>1. CASE req[r].status = "RUNNING"
    <3>1. HeldBy(req[r], m.req_to_blocks[r], m.num_cached_block[r])
      BY <1>3 DEF BlockInv, TablesInv
    <3> QED BY <1>5, <1>6, <2>1, <3>1 DEF HeldBy, Waitable
  <2>2. CASE req[r].status # "RUNNING"
    <3>1. m'.req_to_blocks[r] = << >> /\ req'[r].num_computed_tokens = 0
      BY <1>3, <1>5, <1>6, <2>2
    <3> QED BY <3>1, HeldEmpty
  <2> QED BY <2>1, <2>2
<1>8. LoadedBy(req'[r], load'[r], m'.req_to_blocks[r], m'.num_cached_block[r])
  BY <1>2, <1>3, <1>6 DEF LoadedBy, Loading
<1>9. RoomInv' /\ pc' \in PCs
  BY <1>2, RoomIdle DEF LoopStates, PCs
<1>10. LoadingInv'
  <2>1. ~ Loading(r)'
    BY <1>3, <1>6 DEF Loading
  <2> QED BY <1>2, <1>6, <2>1, LoadingOthers DEF BlockInv
<1>11. ManagerInv(m', deferred_frees')
  BY <1>2, <1>4
<1> QED BY <1>3, <1>5, <1>6, <1>7, <1>8, <1>9, <1>10, <1>11, OneBlocks

LEMMA BlockStop ==
  ASSUME QueueInv, TokenInv, BlockInv, UNCHANGED config, UpdateStop
  PROVE  BlockInv'
<1>1. PICK e, r, k : e = Head(todo) /\ r = e.request /\ k = CachedAfter(e)
  OBVIOUS
<1>2. /\ pc = "update" /\ todo # << >> /\ Delivers(e) /\ UNCHANGED <<pc, load>>
      /\ FreeRequestBlocks(k, r)
      /\ req' = [req EXCEPT ![r] = [WithOutput(e) EXCEPT !.status = "FINISHED",
                                                         !.prefilling = FALSE]]
  BY <1>1 DEF UpdateStop
<1>3. r \in Reqs /\ load[r].state \in {"none", "finished"}
  BY <1>1, <1>2, DeliversTo
<1>4. ManagerInv(k, deferred_frees) /\ OthersKeep(m, k, r)
  BY <1>1, <1>2, CachedAfterManager DEF OthersKeep, CachedFrom
<1>5. /\ req'[r].status = "FINISHED"
      /\ \A q \in Reqs : q # r => req'[q] = req[q] /\ load'[q] = load[q]
  <2>1. DOMAIN req = Reqs /\ DOMAIN req[e.request] = RequestFields /\ e.request \in Reqs
    BY <1>1, <1>3 DEF QueueInv, Fields
  <2>2. DOMAIN WithOutput(e) = RequestFields
    BY <2>1, LandedFields
  <2> QED BY <1>1, <1>2, <2>1, <2>2 DEF RequestFields
<1>6. RoomInv' /\ pc' \in PCs
  BY <1>2, RoomIdle DEF LoopStates, PCs
<1>7. LoadingInv'
  <2>1. ~ Loading(r)'
    BY <1>5 DEF Loading
  <2> QED BY <1>2, <1>5, <2>1, LoadingOthers DEF BlockInv
<1>8. load'[r].state \in {"none", "finished"} /\ req'[r].status # "WAITING_FOR_REMOTE_KVS"
  BY <1>2, <1>3, <1>5
<1> QED BY <1>2, <1>3, <1>4, <1>5, <1>6, <1>7, <1>8, FreedBlocks

-----------------------------------------------------------------------------
(* The theorems.                                                            *)

LEMMA BlockStutter ==
  ASSUME BlockInv, UNCHANGED vars
  PROVE  BlockInv'
<1>1. UNCHANGED <<config, m, deferred_frees, req, load, pc, loop>>
  BY DEF vars
<1>2. /\ \A r \in Reqs : SameNeeds(req[r], req'[r])
      /\ pc' \in PCs
  BY <1>1, SameRequest DEF BlockInv
<1>3. LoadingInv'
  <2>1. \A q \in Reqs : FailedLoad(q) => FailedLoad(q)'
    BY <1>1 DEF FailedLoad, Invalid, Loading
  <2> QED BY <1>1, <2>1, LoadingKept DEF Loading, BlockInv
<1>4. RoomInv'
  BY <1>1 DEF BlockInv, RoomInv
<1> QED BY <1>1, <1>2, <1>3, <1>4, CalmBlocks

LEMMA BlockNext ==
  ASSUME QueueInv, TokenInv, FenceInv, BlockInv, Next
  PROVE  BlockInv'
<1>0. UNCHANGED config
  BY DEF Next
<1>1. CASE EngineStep
  <2>1. ASSUME NEW r \in Reqs, UpdateLoadError(r)
        PROVE  BlockInv'
    <3>1. r \in Known
      BY <2>1 DEF UpdateLoadError, Invalid, Loading, Known
    <3> QED BY <1>0, <2>1, <3>1, BlockFinish DEF UpdateLoadError
  <2>2. CASE \E r \in Reqs : UpdateLoadError(r) \/ UpdateLoadFinished(r)
    BY <1>0, <2>1, <2>2, BlockLoadFinished
  <2>3. CASE ScheduleBegin \/ RunningSelect \/ RunningDone \/ WaitingSkip \/ WaitingDone
             \/ ResetEnd \/ ResetRaised
    BY <1>0, <2>3, BlockLoopSteps, BlockResetSteps
  <2> QED BY <1>0, <1>1, <2>2, <2>3, BlockRunningAllocate, BlockRunningPreempt,
             BlockPromote, BlockAdmit, BlockLoad, BlockIssue, BlockUpdateBegin, BlockDrainOne,
             BlockDrainDone, BlockUpdateNoOutput, BlockDeliver, BlockStop, BlockUpdateDone,
             BlockResetPreempt
          DEF EngineStep
<1>2. CASE ClientStep
  <2>1. ASSUME NEW r \in Reqs, finish_requests(r)
        PROVE  BlockInv'
    <3>1. /\ r \in Known /\ UNCHANGED pc /\ pc = "idle" /\ FinishRequest(r)
      BY <2>1 DEF finish_requests
    <3> QED BY <1>0, <3>1, BlockFinish
  <2>2. CASE \E reset_running \in BOOLEAN : ResetBegin(reset_running)
    BY <1>0, <2>2, BlockResetSteps
  <2> QED BY <1>0, <1>2, <2>1, <2>2, BlockAdd DEF ClientStep
<1>3. CASE \E r \in Reqs : LoadArrives(r)
  BY <1>0, <1>3, BlockLoadArrives
<1> QED BY <1>1, <1>2, <1>3 DEF Next

\* The inductive invariant of the blocks.
THEOREM SchedulerBlocks == Spec => []BlockInv
<1>1. Init => BlockInv
  BY BlockInit
<1>2. QueueInv /\ TokenInv /\ FenceInv /\ BlockInv /\ [Next]_vars => BlockInv'
  BY BlockNext, BlockStutter
<1> QED BY <1>1, <1>2, SchedulerQueues, SchedulerTokens, SchedulerFences, PTL DEF Spec

\* BlocksAccounted of the scheduler's runs: whatever is admitted with shared
\* blocks, preempted, loaded, aborted, freed late or reset, the pool's reference
\* counts are the tables and deferred frees that hold each block, and the free
\* queue holds the blocks without a reference, each once.
THEOREM BlocksAlwaysAccounted == Spec => []BlocksAccounted
<1>1. BlockInv => BlocksAccounted
  <2> SUFFICES ASSUME BlockInv PROVE BlocksAccounted
    OBVIOUS
  <2>1. PoolInv(m.pool) /\ RefsExact(m.pool.ref, m.req_to_blocks, deferred_frees)
    BY DEF BlockInv, ManagerInv
  <2>2. PICK p : p = m.pool
    OBVIOUS
  <2>3. /\ p.free \in Seq(Blocks) /\ Different(p.free)
        /\ \A b \in Blocks : b \in ToSet(p.free) <=> p.ref[b] = 0
    BY <2>1, <2>2 DEF PoolInv
  <2>4. ToSet(p.free) \subseteq Blocks
    BY <2>3 DEF ToSet
  <2>5. ToSet(p.free) = {b \in Blocks : p.ref[b] = 0}
    BY <2>3, <2>4
  <2>6. Len(p.free) = Cardinality(ToSet(p.free))
    BY <2>3, DifferentLen
  <2>7. FreeQueueExact(p)
    BY <2>5, <2>6 DEF FreeQueueExact
  <2> QED BY <2>1, <2>2, <2>7 DEF BlocksAccounted, RefsExact, InTables, InFrees
<1> QED BY <1>1, SchedulerBlocks, PTL

\* TypeOK of the scheduler's runs: the tables hold blocks, the queues requests,
\* and no counter of a Request is negative.
THEOREM SchedulerTypes == Spec => []TypeOK
<1>1. QueueInv /\ TokenInv /\ FenceInv /\ BlockInv => TypeOK
  <2> SUFFICES ASSUME QueueInv, TokenInv, FenceInv, BlockInv PROVE TypeOK
    OBVIOUS
  <2>1. /\ m.pool.free \in Seq(Blocks) /\ m.pool.ref \in [Blocks -> Nat]
        /\ m.req_to_blocks \in [Reqs -> Seq(Blocks)]
        /\ m.num_cached_block \in [Reqs -> Nat]
    BY DEF BlockInv, ManagerInv, PoolInv
  <2>2. {running, waiting, skipped_waiting} \subseteq Seq(Reqs)
    BY DEF QueueInv, Queues
  <2>3. ASSUME NEW r \in Reqs
        PROVE  /\ req[r].status \in {"ABSENT", "WAITING", "WAITING_FOR_REMOTE_KVS", "RUNNING",
                                     "PREEMPTED", "FINISHED"}
               /\ {req[r].num_tokens, req[r].num_computed_tokens, req[r].num_in_flight_tokens,
                   req[r].num_output_placeholders, req[r].num_stale_output_tokens} \subseteq Nat
               /\ req[r].decode_wait \in 0 .. pp_size
    <3>1. req[r].status \in Waitable \cup {"ABSENT", "RUNNING", "FINISHED"}
      BY DEF QueueInv, Statuses
    <3>2. Numbers(req[r])
      BY DEF TokenInv, NumbersInv
    <3> QED BY <3>1, <3>2 DEF Waitable, Numbers
  <2>4. Len(in_flight) \in 0 .. batch_queue_size /\ sched_step_seq \in 0 .. batch_queue_size
    <3>1. PICK x : x = batch_queue_size
      OBVIOUS
    <3>2. x \in Nat
      BY <3>1, ConstantFacts DEF batch_queue_size
    <3>3. PICK X : in_flight \in Seq(X)
      BY StepNumber DEF TokenInv
    <3>4. Len(in_flight) \in Nat /\ Len(in_flight) <= x
      BY <3>1, <3>3 DEF TokenInv, StepInv
    <3>5. sched_step_seq \in Nat /\ sched_step_seq <= Len(in_flight)
      BY StepNumber DEF TokenInv
    <3> QED BY <3>1, <3>2, <3>4, <3>5
  <2>5. pc \in PCs
    BY DEF BlockInv
  <2> QED BY <2>1, <2>2, <2>3, <2>4, <2>5 DEF TypeOK, PCs
<1> QED BY <1>1, SchedulerQueues, SchedulerTokens, SchedulerFences, SchedulerBlocks, PTL

\* LoadedBlocksPinned of the scheduler's runs, with more than one token per
\* block: the blocks that a connector may still write are allocated to the
\* request of the load alone and cannot be found by a prefix lookup, whether or
\* not the request was aborted meanwhile.
THEOREM LoadedBlocksAlwaysPinned == Spec => [](block_size > 1 => LoadedBlocksPinned)
<1>1. BlockInv => (block_size > 1 => LoadedBlocksPinned)
  <2> SUFFICES ASSUME BlockInv, block_size > 1, NEW r \in Reqs,
                      load[r].state \in {"transfer", "arrived"}, NEW b \in load[r].blocks
               PROVE  /\ b \in ToSet(m.req_to_blocks[r]) /\ m.pool.ref[b] = 1
                      /\ \A e \in m.pool.cached : e[2] # b
    BY DEF LoadedBlocksPinned
  <2>1. PICK t, c : t = m.req_to_blocks[r] /\ c = m.num_cached_block[r]
    OBVIOUS
  <2>2. LoadedBy(req[r], load[r], t, c) /\ ManagerInv(m, deferred_frees)
    BY <2>1 DEF BlockInv, LoadsInv
  <2>3. PICK i \in 1 .. Len(t) : i > c /\ t[i] = b
    BY <2>2 DEF LoadedBy
  <2>4. t \in Seq(Blocks) /\ TableOk(t, c, m.pool.hash)
    BY <2>1, <2>2 DEF ManagerInv
  <2>5. b \in ToSet(t) /\ m.pool.hash[b] = NoHash
    BY <2>3, <2>4 DEF ToSet, TableOk
  <2>6. m.pool.ref[b] = 1
    BY <2>1, <2>2, <2>5, TableHeld
  <2>7. ASSUME NEW e \in m.pool.cached
        PROVE  e[2] # b
    <3>1. MapMatchesHashes(m.pool)
      BY <2>2 DEF ManagerInv, PoolInv
    <3>2. PICK x \in Blocks : m.pool.hash[x] # NoHash /\ e = <<m.pool.hash[x], x>>
      BY <3>1 DEF MapMatchesHashes
    <3> QED BY <2>5, <3>2
  <2> QED BY <2>1, <2>5, <2>6, <2>7
<1> QED BY <1>1, SchedulerBlocks, PTL

-----------------------------------------------------------------------------
(* The blocks of the steps in flight.                                       *)

\* Block b is held until the step with number n is processed, for a request r
\* that was in it: by the table of r, which runs and was scheduled in that step
\* or a later one, or by a free that waits for that step or a later one.
HeldUntil(rq, t, d, r, b, n) ==
  \/ rq[r].status = "RUNNING" /\ b \in ToSet(t[r]) /\ rq[r].last_sched_seq >= n
  \/ \E k \in DOMAIN d : b \in ToSet(d[k][2]) /\ d[k][1] >= n

\* The steps with tokens have numbers between 1 and n, in their order.
Numbered(g, steps, n) ==
  /\ g \in [DOMAIN steps -> Nat]
  /\ \A i \in DOMAIN steps : steps[i] # << >> => g[i] >= 1 /\ g[i] <= n
  /\ \A i, j \in DOMAIN steps : i < j /\ steps[i] # << >> /\ steps[j] # << >> => g[i] < g[j]

StepHeld(step, n, rq, t, d) ==
  \A j \in DOMAIN step : \A b \in step[j].blocks :
    step[j].request \in Reqs /\ b \in Blocks /\ HeldUntil(rq, t, d, step[j].request, b, n)

AllHeld(g, steps, rq, t, d) == \A i \in DOMAIN steps : StepHeld(steps[i], g[i], rq, t, d)

PinInv ==
  config.defer_block_free =>
    \E g : /\ Numbered(g, Later, sched_step_seq)
           /\ AllHeld(g, Later, req, m.req_to_blocks, deferred_frees)

LEMMA PinsKept ==
  ASSUME NEW g, NEW steps, NEW n \in Nat, Numbered(g, steps, n),
         NEW rq, NEW t, NEW d, NEW rq1, NEW t1, NEW d1, AllHeld(g, steps, rq, t, d),
         \A r \in Reqs : \A b \in Blocks : \A i \in 1 .. n :
           HeldUntil(rq, t, d, r, b, i) => HeldUntil(rq1, t1, d1, r, b, i)
  PROVE  AllHeld(g, steps, rq1, t1, d1)
<1> SUFFICES ASSUME NEW i \in DOMAIN steps, NEW j \in DOMAIN steps[i], NEW b \in steps[i][j].blocks
             PROVE  /\ steps[i][j].request \in Reqs /\ b \in Blocks
                    /\ HeldUntil(rq1, t1, d1, steps[i][j].request, b, g[i])
  BY DEF AllHeld, StepHeld
<1>1. PICK r : r = steps[i][j].request
  OBVIOUS
<1>2. r \in Reqs /\ b \in Blocks /\ HeldUntil(rq, t, d, r, b, g[i])
  BY <1>1 DEF AllHeld, StepHeld
<1>3. steps[i] # << >>
  OBVIOUS
<1>4. g[i] \in 1 .. n
  BY <1>3 DEF Numbered
<1>5. HeldUntil(rq1, t1, d1, r, b, g[i])
  BY <1>2, <1>4
<1> QED BY <1>1, <1>2, <1>5

LEMMA LaterSame ==
  ASSUME UNCHANGED in_flight, pc' \in {"drain", "update"} <=> pc \in {"drain", "update"}
  PROVE  Later' = Later
BY DEF Later

\* No step is issued or processed.
LEMMA PinKept ==
  ASSUME StepInv, FenceInv, PinInv, UNCHANGED <<sched_step_seq, config>>, Later' = Later,
         NEW t1, t1 = m'.req_to_blocks,
         \A r \in Reqs : \A b \in Blocks : \A i \in 1 .. sched_step_seq :
           HeldUntil(req, m.req_to_blocks, deferred_frees, r, b, i)
             => HeldUntil(req', t1, deferred_frees', r, b, i)
  PROVE  PinInv'
<1>1. CASE config.defer_block_free
  <2>1. PICK g : /\ Numbered(g, Later, sched_step_seq)
                 /\ AllHeld(g, Later, req, m.req_to_blocks, deferred_frees)
    BY <1>1 DEF PinInv
  <2>2. sched_step_seq \in Nat
    BY StepNumber
  <2>3. PICK d, d1, rq, rq1, s, n : /\ d = deferred_frees /\ d1 = deferred_frees' /\ rq = req
                                    /\ rq1 = req' /\ s = Later /\ n = sched_step_seq
    OBVIOUS
  <2>4. AllHeld(g, s, rq1, t1, d1)
    <3>1. PICK t : t = m.req_to_blocks
      OBVIOUS
    <3>2. /\ n \in Nat /\ Numbered(g, s, n) /\ AllHeld(g, s, rq, t, d)
          /\ \A r \in Reqs : \A b \in Blocks : \A i \in 1 .. n :
               HeldUntil(rq, t, d, r, b, i) => HeldUntil(rq1, t1, d1, r, b, i)
      BY <2>1, <2>2, <2>3, <3>1
    <3> QED BY <3>2, PinsKept
  <2>5. /\ Numbered(g, Later', sched_step_seq')
        /\ AllHeld(g, Later', req', m'.req_to_blocks, deferred_frees')
    BY <2>1, <2>3, <2>4
  <2> HIDE DEF Later
  <2> QED BY <2>5 DEF PinInv, Numbered, AllHeld, StepHeld, HeldUntil
<1>2. CASE ~ config.defer_block_free
  BY <1>2 DEF PinInv
<1> QED BY <1>1, <1>2

\* What a request that runs keeps.
Stays(q, q1, t, t1) ==
  q.status = "RUNNING" =>
    /\ q1.status = "RUNNING" /\ q1.last_sched_seq = q.last_sched_seq
    /\ Within(t, t1)

LEMMA StaysSame ==
  ASSUME NEW q, NEW t
  PROVE  Stays(q, q, t, t)
BY DEF Stays, Within

\* No block is freed.
LEMMA PinCalm ==
  ASSUME StepInv, FenceInv, PinInv, UNCHANGED <<sched_step_seq, config, deferred_frees>>,
         Later' = Later,
         \A r \in Reqs : Stays(req[r], req'[r], m.req_to_blocks[r], m'.req_to_blocks[r])
  PROVE  PinInv'
<1>1. PICK rq, rq1, t, t1, d : /\ rq = req /\ rq1 = req' /\ t = m.req_to_blocks
                               /\ t1 = m'.req_to_blocks /\ d = deferred_frees
  OBVIOUS
<1>2. ASSUME NEW r \in Reqs, NEW b \in Blocks, NEW i \in 1 .. sched_step_seq,
             HeldUntil(rq, t, d, r, b, i)
      PROVE  HeldUntil(rq1, t1, d, r, b, i)
  <2>1. Stays(rq[r], rq1[r], t[r], t1[r])
    BY <1>1
  <2> QED BY <1>2, <2>1 DEF HeldUntil, Stays, Within
<1>3. \A r \in Reqs : \A b \in Blocks : \A i \in 1 .. sched_step_seq :
        HeldUntil(req, m.req_to_blocks, deferred_frees, r, b, i)
          => HeldUntil(req', t1, deferred_frees', r, b, i)
  BY <1>1, <1>2
<1> QED BY <1>1, <1>3, PinKept

\* The blocks of request r are freed: if a step in flight may write them, the
\* free waits for the last step.
LEMMA PinFreed ==
  ASSUME StepInv, FenceInv, PinInv, ManagerInv(m, deferred_frees),
         UNCHANGED <<sched_step_seq, config>>, Later' = Later,
         NEW r \in Reqs, NEW k, ManagerInv(k, deferred_frees), k.req_to_blocks = m.req_to_blocks,
         FreeRequestBlocks(k, r), \A q \in Reqs : q # r => req'[q] = req[q]
  PROVE  PinInv'
<1>0. /\ sched_step_seq \in Nat /\ FreesOk(deferred_frees)
      /\ \A q \in Reqs : req[q].last_sched_seq \in Nat
  BY StepNumber DEF FenceInv, ManagerInv
<1>1. OthersKeep(k, m', r)
  BY FreeRequestManager, EmptiedKeeps
<1>2. PICK rq, rq1, t, t1, d, d1, n :
        /\ rq = req /\ rq1 = req' /\ t = m.req_to_blocks /\ t1 = m'.req_to_blocks
        /\ d = deferred_frees /\ d1 = deferred_frees' /\ n = sched_step_seq
  OBVIOUS
<1>3. \A q \in Reqs : q # r => t1[q] = t[q] /\ rq1[q] = rq[q]
  BY <1>1, <1>2 DEF OthersKeep
<1>4. d1 = d \/ d1 = Append(d, <<n, t[r]>>)
  BY <1>2 DEF FreeRequestBlocks
<1>5. PICK X : d \in Seq(X)
  BY <1>0, <1>2 DEF FreesOk
<1>6. \A i \in DOMAIN d : i \in DOMAIN d1 /\ d1[i] = d[i]
  <2>1. CASE d1 = d
    BY <2>1
  <2>2. CASE d1 = Append(d, <<n, t[r]>>)
    BY <1>5, <2>2
  <2> QED BY <1>4, <2>1, <2>2
<1>7. ASSUME NEW b \in Blocks, NEW i \in 1 .. n, config.defer_block_free,
             b \in ToSet(t[r]), rq[r].last_sched_seq >= i
      PROVE  \E j \in DOMAIN d1 : b \in ToSet(d1[j][2]) /\ d1[j][1] >= i
  <2>1. rq[r].last_sched_seq # 0
    BY <1>0, <1>2, <1>7
  <2>2. ~ CanFreeNow(r) /\ t[r] # << >>
    BY <1>2, <1>7, <2>1 DEF CanFreeNow, ToSet
  <2>3. d1 = Append(d, <<n, t[r]>>)
    BY <1>2, <2>2 DEF FreeRequestBlocks
  <2>4. Len(d) + 1 \in DOMAIN d1 /\ d1[Len(d) + 1] = <<n, t[r]>>
    BY <1>5, <2>3
  <2>5. d1[Len(d) + 1][1] >= i /\ d1[Len(d) + 1][2] = t[r]
    BY <1>0, <1>2, <2>4
  <2> QED BY <1>7, <2>4, <2>5
<1>8. ASSUME NEW q \in Reqs, NEW b \in Blocks, NEW i \in 1 .. n, config.defer_block_free,
             HeldUntil(rq, t, d, q, b, i)
      PROVE  HeldUntil(rq1, t1, d1, q, b, i)
  <2>1. CASE \E j \in DOMAIN d : b \in ToSet(d[j][2]) /\ d[j][1] >= i
    BY <1>6, <2>1 DEF HeldUntil
  <2>2. CASE /\ rq[q].status = "RUNNING" /\ b \in ToSet(t[q]) /\ rq[q].last_sched_seq >= i
    <3>1. CASE q = r
      BY <1>7, <1>8, <2>2, <3>1 DEF HeldUntil
    <3>2. CASE q # r
      BY <1>3, <2>2, <3>2 DEF HeldUntil
    <3> QED BY <3>1, <3>2
  <2> QED BY <1>8, <2>1, <2>2 DEF HeldUntil
<1>9. CASE config.defer_block_free
  <2>1. \A q \in Reqs : \A b \in Blocks : \A i \in 1 .. sched_step_seq :
          HeldUntil(req, m.req_to_blocks, deferred_frees, q, b, i)
            => HeldUntil(req', t1, deferred_frees', q, b, i)
    BY <1>2, <1>8, <1>9
  <2> QED BY <1>2, <2>1, PinKept
<1>10. CASE ~ config.defer_block_free
  BY <1>10 DEF PinInv
<1> QED BY <1>9, <1>10

\* Only the table of r changes in what the manager does for r.
LEMMA TablesOf ==
  ASSUME NEW k, NEW d, ManagerInv(k, d), NEW r \in Reqs
  PROVE  /\ \A n : cache_blocks(k, r, n).req_to_blocks = k.req_to_blocks
         /\ \A n : \A q \in Reqs : q # r =>
              cache_blocks(k, r, n).req_to_blocks[q] = k.req_to_blocks[q]
         /\ \A q \in Reqs : q # r => free(k, r).req_to_blocks[q] = k.req_to_blocks[q]
         /\ \A hits, n : \A q \in Reqs : q # r =>
              allocate_blocks(k, r, hits, n).req_to_blocks[q] = k.req_to_blocks[q]
         /\ \A hits, c, n, N : \A q \in Reqs : q # r =>
              allocate_slots(k, r, hits, c, n, N).req_to_blocks[q] = k.req_to_blocks[q]
<1>1. DOMAIN k = ManagerFields /\ DOMAIN k.req_to_blocks = Reqs
  BY DEF ManagerInv
<1>2. ASSUME NEW k1, DOMAIN k1 = ManagerFields, NEW n
      PROVE  cache_blocks(k1, r, n).req_to_blocks = k1.req_to_blocks
  BY <1>2 DEF cache_blocks, ManagerFields
<1>3. ASSUME NEW q \in Reqs, q # r
      PROVE  free(k, r).req_to_blocks[q] = k.req_to_blocks[q]
  BY <1>1, <1>3 DEF free, pop_blocks_for_free, ManagerFields
<1>4. ASSUME NEW hits, NEW n
      PROVE  /\ DOMAIN allocate_blocks(k, r, hits, n) = ManagerFields
             /\ \A q \in Reqs : q # r =>
                  allocate_blocks(k, r, hits, n).req_to_blocks[q] = k.req_to_blocks[q]
  BY <1>1 DEF allocate_blocks, ManagerFields
<1>5. ASSUME NEW hits, NEW c, NEW n, NEW N
      PROVE  \A q \in Reqs : q # r =>
               allocate_slots(k, r, hits, c, n, N).req_to_blocks[q] = k.req_to_blocks[q]
  <2>1. PICK k1, x, y : k1 = allocate_blocks(k, r, hits, c + n) /\ x = Min2(c + n, N) /\ y = c + n
    OBVIOUS
  <2>2. allocate_slots(k, r, hits, c, n, N) = cache_blocks(k1, r, x)
    BY <2>1 DEF allocate_slots
  <2>3. /\ DOMAIN k1 = ManagerFields
        /\ \A q \in Reqs : q # r => k1.req_to_blocks[q] = k.req_to_blocks[q]
    BY <1>4, <2>1
  <2> QED BY <1>2, <2>2, <2>3
<1> QED BY <1>1, <1>2, <1>3, <1>4, <1>5

\* Only request r changes, which does not run.
LEMMA PinAside ==
  ASSUME StepInv, FenceInv, PinInv, UNCHANGED <<sched_step_seq, config, deferred_frees>>,
         Later' = Later, NEW r, req[r].status # "RUNNING",
         \A q \in Reqs : q # r => req'[q] = req[q] /\ m'.req_to_blocks[q] = m.req_to_blocks[q]
  PROVE  PinInv'
<1>1. \A q \in Reqs : Stays(req[q], req'[q], m.req_to_blocks[q], m'.req_to_blocks[q])
  BY DEF Stays, Within
<1> QED BY <1>1, PinCalm

\* No table changes.
LEMMA PinQuiet ==
  ASSUME StepInv, FenceInv, PinInv, UNCHANGED <<sched_step_seq, config, deferred_frees>>,
         Later' = Later, m'.req_to_blocks = m.req_to_blocks,
         \A q \in Reqs : /\ req'[q].status = req[q].status
                         /\ req'[q].last_sched_seq = req[q].last_sched_seq
  PROVE  PinInv'
<1>1. \A q \in Reqs : Stays(req[q], req'[q], m.req_to_blocks[q], m'.req_to_blocks[q])
  BY DEF Stays, Within
<1> QED BY <1>1, PinCalm

LEMMA PinQuietSteps ==
  ASSUME QueueInv, TokenInv, FenceInv, BlockInv, PinInv, UNCHANGED config,
         \/ ScheduleBegin \/ RunningSelect \/ RunningDone \/ WaitingSkip \/ WaitingDone
         \/ DrainDone \/ UpdateNoOutput \/ UpdateDone \/ ResetEnd \/ ResetRaised
         \/ \E r \in Reqs : LoadArrives(r)
         \/ \E reset_running \in BOOLEAN : ResetBegin(reset_running)
  PROVE  PinInv'
<1>0. /\ StepInv /\ DOMAIN req = Reqs /\ \A r \in Reqs : DOMAIN req[r] = RequestFields
      /\ DOMAIN m = ManagerFields
  BY DEF QueueInv, Fields, TokenInv, BlockInv, ManagerInv
<1> DEFINE Same == \A q \in Reqs : /\ req'[q].status = req[q].status
                                   /\ req'[q].last_sched_seq = req[q].last_sched_seq
           Calm == UNCHANGED <<sched_step_seq, deferred_frees>> /\ m'.req_to_blocks = m.req_to_blocks
<1>1. ASSUME Calm, Same, Later' = Later PROVE PinInv'
  BY <1>0, <1>1, PinQuiet
<1>2. CASE RunningSelect \/ RunningDone \/ WaitingSkip \/ WaitingDone \/ ResetRaised
  <2>1. Calm /\ Same /\ UNCHANGED in_flight
        /\ pc \notin {"drain", "update"} /\ pc' \notin {"drain", "update"}
    BY <1>2 DEF RunningSelect, RunningDone, WaitingSkip, WaitingDone, ResetRaised
  <2> QED BY <1>1, <2>1, LaterSame
<1>3. CASE ResetEnd
  <2>1. Same /\ UNCHANGED <<in_flight, sched_step_seq, deferred_frees>>
        /\ pc \notin {"drain", "update"} /\ pc' \notin {"drain", "update"}
    BY <1>3 DEF ResetEnd
  <2>2. m' = m \/ m' = [m EXCEPT !.pool = reset_prefix_cache(@)]
    BY <1>3 DEF ResetEnd
  <2>3. m'.req_to_blocks = m.req_to_blocks
    BY <1>0, <2>2 DEF ManagerFields
  <2> QED BY <1>1, <2>1, <2>3, LaterSame
<1>4. CASE \E r \in Reqs : LoadArrives(r)
  <2>1. Calm /\ Same /\ UNCHANGED <<in_flight, pc>>
    BY <1>4 DEF LoadArrives
  <2> QED BY <1>1, <2>1, LaterSame
<1>5. CASE \E reset_running \in BOOLEAN : ResetBegin(reset_running)
  <2>1. PICK reset_running \in BOOLEAN : ResetBegin(reset_running)
    BY <1>5
  <2>2. Calm /\ Same /\ UNCHANGED in_flight /\ pc = "idle" /\ pc' \in {"reset_running", "reset"}
    BY <2>1 DEF ResetBegin, BetweenSteps
  <2> QED BY <1>1, <2>2, LaterSame
<1>6. CASE ScheduleBegin
  <2>1. /\ Calm /\ UNCHANGED in_flight /\ pc = "idle" /\ pc' = "running"
        /\ req' = [r \in Reqs |-> [req[r] EXCEPT !.decode_wait = AtLeast0(@ - 1)]]
    BY <1>6 DEF ScheduleBegin
  <2>2. Same
    BY <1>0, <2>1 DEF RequestFields
  <2> QED BY <1>1, <2>1, <2>2, LaterSame
<1>7. CASE DrainDone
  <2>1. /\ Calm /\ UNCHANGED in_flight /\ pc = "drain" /\ pc' = "update"
        /\ req' = [r \in Reqs |-> IF Invalid(r)
                            THEN [req[r] EXCEPT !.num_computed_tokens = ValidTokens(r)]
                            ELSE req[r]]
    BY <1>7 DEF DrainDone
  <2>2. Same
    BY <1>0, <2>1 DEF RequestFields
  <2> QED BY <1>1, <2>1, <2>2, LaterSame
<1>8. CASE UpdateNoOutput
  <2>1. PICK e : /\ Calm /\ UNCHANGED <<in_flight, pc>>
                 /\ \/ req' = req
                    \/ e.request \in Known /\ req' = [req EXCEPT ![e.request] = Landed(e)]
    <3>1. PICK e : e = Head(todo)
      OBVIOUS
    <3> QED BY <1>8, <3>1 DEF UpdateNoOutput
  <2>2. e.request \in Reqs => /\ Landed(e).last_sched_seq = req[e.request].last_sched_seq
                              /\ Landed(e).status = req[e.request].status
    BY <1>0 DEF Landed, RequestFields
  <2>3. Same
    BY <1>0, <2>1, <2>2 DEF Known
  <2> QED BY <1>1, <2>1, <2>3, LaterSame
<1>9. CASE UpdateDone
  <2>1. /\ Calm /\ Same /\ pc = "update" /\ pc' = "idle" /\ in_flight' = Tail(in_flight)
    BY <1>9 DEF UpdateDone
  <2>2. Later' = Later
    BY <2>1 DEF Later
  <2> QED BY <1>1, <2>1, <2>2
<1> QED BY <1>2, <1>3, <1>4, <1>5, <1>6, <1>7, <1>8, <1>9

LEMMA PinWaitingSteps ==
  ASSUME QueueInv, TokenInv, FenceInv, BlockInv, PinInv, UNCHANGED config,
         WaitingPromote \/ WaitingAdmit \/ WaitingLoad \/ \E r \in Reqs : add_request(r)
  PROVE  PinInv'
<1>0. /\ StepInv /\ DOMAIN req = Reqs /\ ManagerInv(m, deferred_frees)
  BY DEF QueueInv, Fields, TokenInv, BlockInv
<1>1. CASE \E r \in Reqs : add_request(r)
  <2>1. PICK r \in Reqs : add_request(r)
    BY <1>1
  <2>2. /\ UNCHANGED <<sched_step_seq, deferred_frees, in_flight, pc, m>>
        /\ req[r].status = "ABSENT" /\ req' = [req EXCEPT ![r] = NewRequest(r)]
    BY <2>1 DEF add_request
  <2>3. \A q \in Reqs : q # r => req'[q] = req[q]
    BY <1>0, <2>2
  <2> QED BY <1>0, <2>2, <2>3, LaterSame, PinAside
<1>2. CASE WaitingPromote \/ WaitingAdmit \/ WaitingLoad
  <2>1. PICK r : r = NextWaiting
    OBVIOUS
  <2>2. /\ UNCHANGED <<sched_step_seq, deferred_frees, in_flight, pc>> /\ CanAdmit /\ pc = "waiting"
    BY <1>2 DEF WaitingPromote, WaitingAdmit, WaitingLoad
  <2>3. r \in Reqs /\ req[r].status # "RUNNING"
    BY <2>1, <2>2, NextIs DEF Waitable
  <2>4. \A q \in Reqs : q # r => req'[q] = req[q] /\ m'.req_to_blocks[q] = m.req_to_blocks[q]
    <3>1. CASE WaitingPromote
      <4>1. PICK x, y, n : /\ req' = [req EXCEPT ![r].status = x, ![r].num_computed_tokens = y]
                           /\ m' = free(m, r) \/ m' = cache_blocks(m, r, n)
        BY <2>1, <3>1 DEF WaitingPromote
      <4> QED BY <1>0, <2>3, <4>1, TablesOf
    <3>2. CASE WaitingAdmit
      <4>1. PICK hits :
              LET computed == NumComputed(r, hits)
                  num_new == Chunk(req[r].num_tokens - computed)
              IN /\ m' = allocate_slots(m, r, hits, computed, num_new, req[r].num_tokens)
                 /\ req' = [req EXCEPT
                      ![r].status = "RUNNING", ![r].num_computed_tokens = computed,
                      ![r].prefilling = @ \/ computed + num_new < req[r].num_tokens]
        BY <2>1, <3>2 DEF WaitingAdmit
      <4>2. PICK c, n, N : /\ m' = allocate_slots(m, r, hits, c, n, N)
                           /\ req' = [req EXCEPT ![r].status = "RUNNING", ![r].num_computed_tokens = c,
                                                 ![r].prefilling = @ \/ c + n < N]
        BY <4>1, Zenon
      <4> QED BY <1>0, <2>3, <4>2, TablesOf
    <3>3. CASE WaitingLoad
      <4>1. PICK hits, end : /\ m' = allocate_blocks(m, r, hits, end)
                             /\ req' = [req EXCEPT ![r].status = "WAITING_FOR_REMOTE_KVS",
                                          ![r].num_computed_tokens = end, ![r].prefilling = TRUE]
        BY <2>1, <3>3, ZenonT(60) DEF WaitingLoad, LoadAllocation
      <4> QED BY <1>0, <2>3, <4>1, TablesOf
    <3> QED BY <1>2, <3>1, <3>2, <3>3
  <2> QED BY <1>0, <2>2, <2>3, <2>4, LaterSame, PinAside
<1> QED BY <1>1, <1>2

LEMMA PinRunningAllocate ==
  ASSUME QueueInv, TokenInv, FenceInv, BlockInv, PinInv, UNCHANGED config, RunningAllocate
  PROVE  PinInv'
<1>0. LoopInv /\ StepInv /\ ManagerInv(m, deferred_frees)
  BY DEF TokenInv, BlockInv
<1>1. PICK r, n, c, N : /\ r = loop.request /\ n = loop.num_new
                        /\ c = req[r].num_computed_tokens /\ N = req[r].num_tokens
  OBVIOUS
<1>2. /\ pc = "allocate" /\ pc' = "running"
      /\ UNCHANGED <<req, deferred_frees, in_flight, sched_step_seq>>
      /\ num_blocks_to_allocate(m, r, c + n, << >>) <= get_num_free_blocks(m.pool)
      /\ m' = allocate_slots(m, r, << >>, c, n, N)
  BY <1>1 DEF RunningAllocate, Fits
<1>3. /\ loop.index \in DOMAIN running /\ r = running[loop.index] /\ n \in Nat
  BY <1>0, <1>1, <1>2 DEF LoopInv
<1>4. r \in Reqs /\ req[r].status = "RUNNING"
  BY <1>3, RunningAre
<1>5. Numbers(req[r]) /\ N < MaxLen(r)
  BY <1>1, <1>4, KnownTokens
<1>6. c \in Nat /\ N \in Nat /\ N <= MaxLen(r)
  BY <1>1, <1>4, <1>5, MaxLenNat DEF Numbers
<1>7. PICK k1 : k1 = m'
  OBVIOUS
<1>8. HitsOk(m, r, << >>)
  BY NoHitsFit
<1>9. OthersKeep(m, k1, r) /\ Within(m.req_to_blocks[r], k1.req_to_blocks[r])
  BY <1>0, <1>2, <1>3, <1>4, <1>6, <1>7, <1>8, SlotsManager
<1>10. \A q \in Reqs : Stays(req[q], req'[q], m.req_to_blocks[q], m'.req_to_blocks[q])
  BY <1>2, <1>7, <1>9 DEF Stays, OthersKeep, Within
<1> QED BY <1>0, <1>2, <1>10, LaterSame, PinCalm

LEMMA PinDeliver ==
  ASSUME QueueInv, TokenInv, FenceInv, BlockInv, PinInv, UNCHANGED config, UpdateDeliver
  PROVE  PinInv'
<1>1. PICK e, r : e = Head(todo) /\ r = e.request
  OBVIOUS
<1>2. /\ UNCHANGED <<pc, in_flight, sched_step_seq, deferred_frees>> /\ pc = "update"
      /\ todo # << >> /\ Delivers(e) /\ m' = CachedAfter(e)
      /\ req' = [req EXCEPT ![r] = WithOutput(e)]
  BY <1>1 DEF UpdateDeliver
<1>3. r \in Reqs /\ CachedFrom(m, CachedAfter(e), r)
  BY <1>1, <1>2, DeliversTo, CachedAfterManager
<1>4. StepInv /\ DOMAIN req = Reqs /\ DOMAIN req[r] = RequestFields
  BY <1>3 DEF QueueInv, Fields, TokenInv
<1>5. /\ WithOutput(e).last_sched_seq = req[r].last_sched_seq
      /\ WithOutput(e).status = req[r].status
  BY <1>1, <1>4 DEF WithOutput, Landed, RequestFields
<1>6. /\ m'.req_to_blocks = m.req_to_blocks
      /\ \A q \in Reqs : /\ req'[q].status = req[q].status
                         /\ req'[q].last_sched_seq = req[q].last_sched_seq
  BY <1>2, <1>3, <1>4, <1>5 DEF CachedFrom
<1> QED BY <1>2, <1>4, <1>6, LaterSame, PinQuiet

LEMMA PinFreeSteps ==
  ASSUME QueueInv, TokenInv, FenceInv, BlockInv, PinInv, UNCHANGED config,
         \/ RunningPreempt \/ ResetPreempt \/ UpdateStop
         \/ \E r \in Reqs : finish_requests(r) \/ UpdateLoadError(r) \/ UpdateLoadFinished(r)
  PROVE  PinInv'
<1>0. StepInv /\ DOMAIN req = Reqs /\ ManagerInv(m, deferred_frees)
  BY DEF QueueInv, Fields, TokenInv, BlockInv
<1>1. ASSUME UNCHANGED <<sched_step_seq, in_flight>>,
             pc \notin {"drain"}, pc' \notin {"drain"}, pc = "update" <=> pc' = "update",
             NEW r \in Reqs, FreeRequestBlocks(m, r), NEW q1, req' = [req EXCEPT ![r] = q1]
      PROVE  PinInv'
  <2>1. \A q \in Reqs : q # r => req'[q] = req[q]
    BY <1>0, <1>1
  <2>2. Later' = Later
    BY <1>1, LaterSame
  <2> QED BY <1>0, <1>1, <2>1, <2>2, PinFreed
<1>2. CASE RunningPreempt
  <2>1. PICK v : v = Victim
    OBVIOUS
  <2>2. /\ UNCHANGED <<sched_step_seq, in_flight>> /\ pc = "allocate" /\ pc' \in {"issue", "allocate"}
        /\ FreeRequestBlocks(m, v) /\ req' = [req EXCEPT ![v] = Preempted(v, requires_kv_delivery)]
    BY <1>2, <2>1 DEF RunningPreempt, PreemptRequest
  <2>3. v \in Reqs
    <3>1. running \in Seq(Reqs) /\ loop.request \in ToSet(running)
      BY <2>2, RunningAre DEF QueueInv, Cursor
    <3>2. running # << >>
      BY <3>1 DEF ToSet
    <3>3. v \in ToSet(running)
      BY <2>1, <3>1, <3>2, VictimIn
    <3> QED BY <3>1, <3>3 DEF ToSet
  <2> QED BY <1>1, <2>2, <2>3
<1>3. CASE ResetPreempt
  <2>1. PICK v : v = Last(running)
    OBVIOUS
  <2>2. /\ UNCHANGED <<sched_step_seq, in_flight, pc>> /\ pc = "reset_running" /\ running # << >>
        /\ FreeRequestBlocks(m, v) /\ req' = [req EXCEPT ![v] = Preempted(v, TRUE)]
    BY <1>3, <2>1 DEF ResetPreempt, PreemptRequest
  <2>3. v \in Reqs
    BY <2>1, <2>2, RunningAre DEF Last
  <2> QED BY <1>1, <2>2, <2>3
<1>4. CASE UpdateStop
  <2>1. PICK e, r : e = Head(todo) /\ r = e.request
    OBVIOUS
  <2>2. /\ UNCHANGED <<pc, in_flight, sched_step_seq>> /\ pc = "update"
        /\ todo # << >> /\ Delivers(e) /\ FreeRequestBlocks(CachedAfter(e), r)
        /\ req' = [req EXCEPT ![r] =
                     [WithOutput(e) EXCEPT !.status = "FINISHED", !.prefilling = FALSE]]
    BY <1>4, <2>1 DEF UpdateStop
  <2>3. /\ r \in Reqs /\ CachedFrom(m, CachedAfter(e), r)
        /\ ManagerInv(CachedAfter(e), deferred_frees)
    BY <2>1, <2>2, DeliversTo, CachedAfterManager
  <2>4. CachedAfter(e).req_to_blocks = m.req_to_blocks
    BY <2>3 DEF CachedFrom
  <2>5. \A q \in Reqs : q # r => req'[q] = req[q]
    BY <1>0, <2>2
  <2>6. Later' = Later
    BY <2>2, LaterSame
  <2> QED BY <1>0, <2>2, <2>3, <2>4, <2>5, <2>6, PinFreed
<1>5. ASSUME NEW r \in Reqs, finish_requests(r) \/ UpdateLoadError(r)
      PROVE  PinInv'
  <2>1. /\ UNCHANGED <<pc, in_flight, sched_step_seq>> /\ pc \in {"idle", "update"}
        /\ req' = [req EXCEPT ![r].status = "FINISHED", ![r].prefilling = FALSE]
        /\ IF DelaysFree(r) THEN UNCHANGED <<m, deferred_frees>> ELSE FreeRequestBlocks(m, r)
    BY <1>5 DEF finish_requests, UpdateLoadError, FinishRequest
  <2>2. \A q \in Reqs : q # r => req'[q] = req[q]
    BY <1>0, <2>1
  <2>3. Later' = Later
    BY <2>1, LaterSame
  <2>4. CASE DelaysFree(r)
    <3>1. UNCHANGED <<m, deferred_frees>> /\ req[r].status # "RUNNING"
      BY <2>1, <2>4 DEF DelaysFree, Loading
    <3> QED BY <1>0, <2>1, <2>2, <2>3, <3>1, PinAside
  <2>5. CASE ~ DelaysFree(r)
    BY <1>0, <2>1, <2>2, <2>3, <2>5, PinFreed
  <2> QED BY <2>4, <2>5
<1>6. ASSUME NEW r \in Reqs, UpdateLoadFinished(r)
      PROVE  PinInv'
  <2>1. /\ UNCHANGED <<pc, in_flight, sched_step_seq, req>> /\ pc = "update"
        /\ UNCHANGED <<m, deferred_frees>> \/ FreeRequestBlocks(m, r)
    BY <1>6 DEF UpdateLoadFinished
  <2>2. Later' = Later
    BY <2>1, LaterSame
  <2>3. CASE UNCHANGED <<m, deferred_frees>>
    BY <1>0, <2>1, <2>2, <2>3, PinQuiet
  <2>4. CASE FreeRequestBlocks(m, r)
    BY <1>0, <2>1, <2>2, <2>4, PinFreed
  <2> QED BY <2>1, <2>3, <2>4
<1> QED BY <1>2, <1>3, <1>4, <1>5, <1>6

\* A free that waits for no step is no longer needed by one.
LEMMA PinDrainOne ==
  ASSUME QueueInv, TokenInv, FenceInv, BlockInv, PinInv, UNCHANGED config, DrainOne
  PROVE  PinInv'
<1>0. /\ StepInv /\ DOMAIN m = ManagerFields /\ FreesOk(deferred_frees)
  BY DEF TokenInv, BlockInv, ManagerInv
<1>1. PICK d, d1, t, n : /\ d = deferred_frees /\ d1 = deferred_frees' /\ t = m.req_to_blocks
                         /\ n = sched_step_seq
  OBVIOUS
<1>2. /\ UNCHANGED <<req, pc, in_flight, sched_step_seq>> /\ d # << >> /\ d[1][1] <= 0
      /\ d1 = Tail(d) /\ m' = [m EXCEPT !.pool = free_blocks(@, Reverse(deferred_frees[1][2]))]
  BY <1>1 DEF DrainOne, FenceReached
<1>3. m'.req_to_blocks = t
  BY <1>0, <1>1, <1>2 DEF ManagerFields
<1>4. PICK X : d \in Seq(X)
  BY <1>0, <1>1 DEF FreesOk
<1>5. /\ 1 \in DOMAIN d
      /\ \A j \in DOMAIN d : j \in Nat /\ (j = 1 \/ (j - 1 \in DOMAIN d1 /\ d1[j - 1] = d[j]))
  BY <1>2, <1>4, TailIs
<1>6. d[1][1] \in Nat
  BY <1>1, <1>5 DEF FenceInv, Fenced
<1>7. n \in Nat
  BY <1>0, <1>1, StepNumber
<1>8. ASSUME NEW r \in Reqs, NEW b \in Blocks, NEW i \in 1 .. n, HeldUntil(req, t, d, r, b, i)
      PROVE  HeldUntil(req', t, d1, r, b, i)
  <2>1. CASE \E j \in DOMAIN d : b \in ToSet(d[j][2]) /\ d[j][1] >= i
    <3>1. PICK j \in DOMAIN d : b \in ToSet(d[j][2]) /\ d[j][1] >= i
      BY <2>1
    <3>2. j # 1
      BY <1>2, <1>6, <1>7, <3>1
    <3>3. j - 1 \in DOMAIN d1 /\ d1[j - 1] = d[j]
      BY <1>5, <3>2
    <3> QED BY <3>1, <3>3 DEF HeldUntil
  <2>2. CASE ~ \E j \in DOMAIN d : b \in ToSet(d[j][2]) /\ d[j][1] >= i
    BY <1>2, <1>8, <2>2 DEF HeldUntil
  <2> QED BY <2>1, <2>2
<1>9. \A r \in Reqs : \A b \in Blocks : \A i \in 1 .. sched_step_seq :
        HeldUntil(req, m.req_to_blocks, deferred_frees, r, b, i)
          => HeldUntil(req', t, deferred_frees', r, b, i)
  BY <1>1, <1>8
<1>10. Later' = Later
  BY <1>2, LaterSame
<1> QED BY <1>0, <1>2, <1>3, <1>9, <1>10, PinKept

\* The oldest step is taken away; if it has tokens the numbers are one less.
LEMMA NumberedTail ==
  ASSUME NEW X, NEW s \in Seq(X), s # << >>, NEW n \in Nat, NEW g, Numbered(g, s, n),
         NEW x, x = IF s[1] = << >> THEN 0 ELSE 1
  PROVE  \E g1 : /\ Numbered(g1, Tail(s), n - x)
                 /\ \A i \in DOMAIN Tail(s) : Tail(s)[i] # << >> =>
                      g[i + 1] \in Nat /\ g[i + 1] >= 1 /\ g1[i] = g[i + 1] - x
<1>1. PICK t : t = Tail(s)
  OBVIOUS
<1>2. /\ t \in Seq(X) /\ 1 \in DOMAIN s
      /\ \A i \in DOMAIN t : i \in Nat /\ i + 1 \in DOMAIN s /\ t[i] = s[i + 1]
  BY <1>1, TailIs
<1>3. \A i \in DOMAIN t : i >= 1
  BY <1>2
<1>4. PICK g1 : g1 = [i \in DOMAIN t |-> IF t[i] = << >> THEN 0 ELSE g[i + 1] - x]
  OBVIOUS
<1>5. ASSUME NEW i \in DOMAIN t, t[i] # << >>
      PROVE  /\ g[i + 1] \in Nat /\ g[i + 1] >= 1 /\ g[i + 1] <= n /\ g1[i] = g[i + 1] - x
             /\ g1[i] \in Nat /\ g1[i] >= 1 /\ g1[i] <= n - x
  <2>1. i + 1 \in DOMAIN s /\ s[i + 1] # << >> /\ i \in Nat /\ 1 < i + 1
    BY <1>2, <1>3, <1>5
  <2>2. PICK a : a = g[i + 1]
    OBVIOUS
  <2>3. a \in Nat /\ a >= 1 /\ a <= n /\ g1[i] = a - x
    BY <1>4, <1>5, <2>1, <2>2 DEF Numbered
  <2>4. s[1] # << >> => g[1] \in Nat /\ g[1] >= 1 /\ g[1] < a
    BY <1>2, <2>1, <2>2 DEF Numbered
  <2> QED BY <2>2, <2>3, <2>4
<1>6. g1 \in [DOMAIN t -> Nat]
  BY <1>4, <1>5
<1>7. ASSUME NEW i \in DOMAIN t, NEW j \in DOMAIN t, i < j, t[i] # << >>, t[j] # << >>
      PROVE  g1[i] < g1[j]
  <2>1. /\ i + 1 \in DOMAIN s /\ j + 1 \in DOMAIN s /\ i + 1 < j + 1
        /\ s[i + 1] # << >> /\ s[j + 1] # << >>
    BY <1>2, <1>7
  <2>2. g[i + 1] < g[j + 1]
    BY <2>1 DEF Numbered
  <2>3. /\ g[i + 1] \in Nat /\ g1[i] = g[i + 1] - x
        /\ g[j + 1] \in Nat /\ g1[j] = g[j + 1] - x
    BY <1>5, <1>7
  <2>4. PICK a, c : a = g[i + 1] /\ c = g[j + 1]
    OBVIOUS
  <2>5. a \in Nat /\ c \in Nat /\ a < c /\ g1[i] = a - x /\ g1[j] = c - x
    BY <2>2, <2>3, <2>4
  <2>6. x \in Nat
    OBVIOUS
  <2> QED BY ONLY <2>5, <2>6
<1>8. Numbered(g1, t, n - x)
  BY <1>5, <1>6, <1>7 DEF Numbered
<1> QED BY <1>1, <1>5, <1>8

\* processed_step_seq has advanced by x.
LEMMA HeldLess ==
  ASSUME NEW rq, NEW t, NEW d, NEW rq1, NEW d1, NEW r, NEW b, NEW n \in Nat, n >= 1,
         NEW x \in {0, 1}, HeldUntil(rq, t, d, r, b, n),
         rq[r].last_sched_seq \in Nat, \A k \in DOMAIN d : d[k][1] \in Nat,
         rq1[r].status = rq[r].status, rq1[r].last_sched_seq = AtLeast0(rq[r].last_sched_seq - x),
         DOMAIN d1 = DOMAIN d, \A k \in DOMAIN d : d1[k][1] = d[k][1] - x /\ d1[k][2] = d[k][2]
  PROVE  HeldUntil(rq1, t, d1, r, b, n - x)
<1>1. CASE \E k \in DOMAIN d : b \in ToSet(d[k][2]) /\ d[k][1] >= n
  <2>1. PICK k \in DOMAIN d : b \in ToSet(d[k][2]) /\ d[k][1] >= n
    BY <1>1
  <2>2. PICK a : a = d[k][1]
    OBVIOUS
  <2>3. a \in Nat /\ a >= n /\ d1[k][1] = a - x /\ b \in ToSet(d1[k][2]) /\ k \in DOMAIN d1
    BY <2>1, <2>2
  <2>4. d1[k][1] >= n - x
    BY <2>3
  <2> QED BY <2>3, <2>4 DEF HeldUntil
<1>2. CASE rq[r].status = "RUNNING" /\ b \in ToSet(t[r]) /\ rq[r].last_sched_seq >= n
  <2>1. PICK a : a = rq[r].last_sched_seq
    OBVIOUS
  <2>2. a \in Nat /\ a >= n /\ rq1[r].last_sched_seq = AtLeast0(a - x)
    BY <1>2, <2>1
  <2>3. rq1[r].last_sched_seq >= n - x
    BY <2>2 DEF AtLeast0
  <2> QED BY <1>2, <2>3 DEF HeldUntil
<1> QED BY <1>1, <1>2 DEF HeldUntil

LEMMA PinUpdateBegin ==
  ASSUME QueueInv, TokenInv, FenceInv, BlockInv, PinInv, UNCHANGED config, UpdateBegin
  PROVE  PinInv'
<1>0. /\ StepInv /\ DOMAIN req = Reqs /\ \A r \in Reqs : DOMAIN req[r] = RequestFields
  BY DEF QueueInv, Fields, TokenInv
<1>1. CASE ~ config.defer_block_free
  BY <1>1 DEF PinInv
<1>2. CASE config.defer_block_free
  <2>1. PICK s, n, rq, rq1, t, d, d1 :
          /\ s = in_flight /\ n = sched_step_seq /\ rq = req /\ rq1 = req'
          /\ t = m.req_to_blocks /\ d = deferred_frees /\ d1 = deferred_frees'
    OBVIOUS
  <2>2. PICK X : s \in Seq(X)
    BY <1>0, <2>1, StepNumber
  <2>3. /\ s # << >> /\ pc = "idle" /\ pc' = "drain" /\ UNCHANGED <<in_flight, m>>
        /\ IF s[1] # << >> THEN StepProcessed
           ELSE UNCHANGED <<sched_step_seq, req, deferred_frees>>
    <3>1. in_flight # << >> => Head(in_flight) = in_flight[1]
      BY <2>1, <2>2
    <3> QED BY <1>2, <2>1, <3>1 DEF UpdateBegin
  <2>4. Later = s /\ Later' = Tail(s)
    BY <2>1, <2>3 DEF Later
  <2>5. n \in Nat
    BY <1>0, <2>1, StepNumber
  <2>6. PICK g : Numbered(g, s, n) /\ AllHeld(g, s, rq, t, d)
    BY <1>2, <2>1, <2>4 DEF PinInv
  <2>7. PICK x : x = IF s[1] = << >> THEN 0 ELSE 1
    OBVIOUS
  <2>8. PICK u : u = Tail(s)
    OBVIOUS
  <2>9. PICK g1 : /\ Numbered(g1, u, n - x)
                  /\ \A i \in DOMAIN u : u[i] # << >> =>
                       g[i + 1] \in Nat /\ g[i + 1] >= 1 /\ g1[i] = g[i + 1] - x
    BY <2>2, <2>3, <2>5, <2>6, <2>7, <2>8, NumberedTail
  <2>10. /\ \A r \in Reqs : rq[r].last_sched_seq \in Nat
         /\ \A k \in DOMAIN d : d[k][1] \in Nat
    BY <2>1 DEF FenceInv, Fenced
  <2>11. /\ sched_step_seq' = n - x
         /\ \A r \in Reqs : /\ rq1[r].status = rq[r].status
                            /\ rq1[r].last_sched_seq = AtLeast0(rq[r].last_sched_seq - x)
         /\ DOMAIN d1 = DOMAIN d
         /\ \A k \in DOMAIN d : d1[k][1] = d[k][1] - x /\ d1[k][2] = d[k][2]
    <3>1. CASE s[1] = << >>
      <4>1. x = 0 /\ sched_step_seq' = n /\ rq1 = rq /\ d1 = d
        BY <2>1, <2>3, <2>7, <3>1
      <4> QED BY <2>5, <2>10, <4>1 DEF AtLeast0
    <3>2. CASE s[1] # << >>
      <4>1. /\ x = 1 /\ sched_step_seq' = n - 1
            /\ rq1 = [r \in Reqs |-> [rq[r] EXCEPT !.last_sched_seq = AtLeast0(@ - 1)]]
            /\ d1 = [i \in DOMAIN d |-> <<d[i][1] - 1, d[i][2]>>]
        BY <2>1, <2>3, <2>7, <3>2 DEF StepProcessed
      <4>2. \A r \in Reqs : DOMAIN rq[r] = RequestFields
        BY <1>0, <2>1
      <4> QED BY <4>1, <4>2 DEF RequestFields
    <3> QED BY <3>1, <3>2
  <2>12. AllHeld(g1, u, rq1, t, d1)
    <3> SUFFICES ASSUME NEW i \in DOMAIN u, NEW j \in DOMAIN u[i], NEW b \in u[i][j].blocks
                 PROVE  /\ u[i][j].request \in Reqs /\ b \in Blocks
                        /\ HeldUntil(rq1, t, d1, u[i][j].request, b, g1[i])
      BY DEF AllHeld, StepHeld
    <3>1. PICK r : r = u[i][j].request
      OBVIOUS
    <3>2. i + 1 \in DOMAIN s /\ u[i] = s[i + 1]
      BY <2>2, <2>3, <2>8, TailIs
    <3>3. r \in Reqs /\ b \in Blocks /\ HeldUntil(rq, t, d, r, b, g[i + 1])
      BY <2>6, <3>1, <3>2 DEF AllHeld, StepHeld
    <3>4. u[i] # << >>
      OBVIOUS
    <3>5. PICK a : a = g[i + 1]
      OBVIOUS
    <3>6. a \in Nat /\ a >= 1 /\ g1[i] = a - x /\ HeldUntil(rq, t, d, r, b, a) /\ x \in {0, 1}
      BY <2>7, <2>9, <3>3, <3>4, <3>5
    <3>7. HeldUntil(rq1, t, d1, r, b, a - x)
      BY <2>10, <2>11, <3>3, <3>6, HeldLess
    <3> QED BY <3>1, <3>3, <3>6, <3>7
  <2>13. /\ Numbered(g1, Later', sched_step_seq')
         /\ AllHeld(g1, Later', req', m'.req_to_blocks, deferred_frees')
    BY <2>1, <2>3, <2>4, <2>8, <2>9, <2>11, <2>12
  <2> HIDE DEF Later
  <2> QED BY <2>13 DEF PinInv, Numbered, AllHeld, StepHeld, HeldUntil
<1> QED BY <1>1, <1>2

\* A step is issued.
LEMMA NumberedAppend ==
  ASSUME NEW X, NEW s \in Seq(X), NEW e \in X, NEW n \in Nat, NEW g, Numbered(g, s, n),
         NEW n1, n1 = n + (IF e = << >> THEN 0 ELSE 1)
  PROVE  \E g1 : /\ Numbered(g1, Append(s, e), n1)
                 /\ g1[Len(s) + 1] = n1 /\ \A i \in DOMAIN s : g1[i] = g[i]
<1>1. PICK u, l : u = Append(s, e) /\ l = Len(s)
  OBVIOUS
<1>2. /\ l \in Nat /\ DOMAIN s = 1 .. l /\ DOMAIN u = 1 .. (l + 1) /\ u[l + 1] = e
      /\ \A i \in 1 .. l : u[i] = s[i]
  BY <1>1, AppendIs
<1>3. PICK g1 : g1 = [i \in DOMAIN u |-> IF i <= l THEN g[i] ELSE n1]
  OBVIOUS
<1>4. n1 \in Nat /\ n <= n1 /\ (e # << >> => n < n1)
  OBVIOUS
<1>5. g1[l + 1] = n1 /\ \A i \in 1 .. l : g1[i] = g[i] /\ g[i] \in Nat
  BY <1>2, <1>3 DEF Numbered
<1>6. g1 \in [DOMAIN u -> Nat]
  <2>1. ASSUME NEW i \in DOMAIN u PROVE g1[i] \in Nat
    <3>1. i \in 1 .. l \/ i = l + 1
      BY <1>2
    <3> QED BY <1>4, <1>5, <3>1
  <2> QED BY <1>3, <2>1
<1>7. ASSUME NEW i \in DOMAIN u, u[i] # << >>
      PROVE  g1[i] >= 1 /\ g1[i] <= n1
  <2>1. CASE i = l + 1
    BY <1>2, <1>4, <1>5, <1>7, <2>1
  <2>2. CASE i # l + 1
    <3>1. i \in 1 .. l
      BY <1>2, <2>2
    <3>2. g[i] >= 1 /\ g[i] <= n /\ g1[i] = g[i] /\ g[i] \in Nat
      BY <1>2, <1>5, <1>7, <3>1 DEF Numbered
    <3> QED BY <1>4, <3>2
  <2> QED BY <2>1, <2>2
<1>8. ASSUME NEW i \in DOMAIN u, NEW j \in DOMAIN u, i < j, u[i] # << >>, u[j] # << >>
      PROVE  g1[i] < g1[j]
  <2>1. i \in 1 .. l
    BY <1>2, <1>8
  <2>2. g[i] <= n /\ g1[i] = g[i] /\ g[i] \in Nat
    BY <1>2, <1>5, <1>8, <2>1 DEF Numbered
  <2>3. CASE j = l + 1
    BY <1>2, <1>4, <1>5, <1>8, <2>2, <2>3
  <2>4. CASE j # l + 1
    <3>1. j \in 1 .. l
      BY <1>2, <2>4
    <3>2. g[i] < g[j] /\ g1[j] = g[j]
      BY <1>2, <1>5, <1>8, <2>1, <3>1 DEF Numbered
    <3> QED BY <2>2, <3>2
  <2> QED BY <2>3, <2>4
<1>9. Numbered(g1, u, n1)
  BY <1>6, <1>7, <1>8 DEF Numbered
<1> QED BY <1>1, <1>2, <1>5, <1>9

LEMMA PinIssue ==
  ASSUME QueueInv, TokenInv, FenceInv, BlockInv, PinInv, UNCHANGED config, Issue
  PROVE  PinInv'
<1>0. StepInv /\ ManagerInv(m, deferred_frees)
  BY DEF TokenInv, BlockInv
<1>1. CASE ~ config.defer_block_free
  BY <1>1 DEF PinInv
<1>2. CASE config.defer_block_free
  <2> DEFINE step0 == [i \in DOMAIN loop.scheduled |->
                [request |-> loop.scheduled[i][1], num |-> loop.scheduled[i][2],
                 position |-> req[loop.scheduled[i][1]].num_computed_tokens + loop.scheduled[i][2] + 1,
                 samples |-> Samples(loop.scheduled[i][1], loop.scheduled[i][2]),
                 blocks |-> ToSet(m.req_to_blocks[loop.scheduled[i][1]])]]
  <2>1. /\ pc = "issue" /\ pc' = "idle" /\ UNCHANGED <<deferred_frees, m>>
        /\ in_flight' = Append(in_flight, step0)
        /\ sched_step_seq' = sched_step_seq
             + (IF config.defer_block_free /\ loop.scheduled # << >> THEN 1 ELSE 0)
    BY DEF Issue
  <2>2. PICK e, s, t : e = step0 /\ s = loop.scheduled /\ t = m.req_to_blocks
    OBVIOUS
  <2>3. /\ DOMAIN e = DOMAIN s
        /\ \A i \in DOMAIN s : e[i].request = s[i][1] /\ e[i].blocks = ToSet(t[s[i][1]])
    BY <2>2
  <2>3a. in_flight' = Append(in_flight, e)
    BY <2>1, <2>2
  <2> HIDE DEF step0
  <2>4. /\ s \in Seq(Reqs \X (Nat \ {0}))
        /\ \A i \in DOMAIN s :
              /\ s[i][1] \in Reqs /\ req'[s[i][1]].status = "RUNNING"
              /\ req'[s[i][1]].last_sched_seq = sched_step_seq'
        /\ \A r \in Reqs : (\A i \in DOMAIN s : s[i][1] # r) => req'[r] = req[r]
    BY <2>2, IssueIs
  <2>5. e = << >> => s = << >>
    <3>1. e = << >> => DOMAIN s = {}
      BY <2>3
    <3>2. PICK Z : s \in Seq(Z)
      BY <2>4
    <3>3. s # << >> => 1 \in DOMAIN s
      BY <3>2
    <3> QED BY <3>1, <3>3
  <2>6. s = << >> => e = << >>
    <3>1. s = << >> => step0 = << >>
      BY <2>2 DEF step0
    <3> QED BY <2>2, <3>1
  <2>7. PICK f, n, n1, rq, rq1, d :
          /\ f = in_flight /\ n = sched_step_seq /\ n1 = sched_step_seq'
          /\ rq = req /\ rq1 = req' /\ d = deferred_frees
    OBVIOUS
  <2>8. n \in Nat /\ n1 = n + (IF e = << >> THEN 0 ELSE 1)
    BY <1>0, <1>2, <2>1, <2>2, <2>5, <2>6, <2>7, StepNumber
  <2>9. n1 \in Nat /\ n <= n1
    BY <2>8
  <2>10. PICK X : f \in Seq(X)
    BY <1>0, <2>7, StepNumber
  <2>11. PICK Y : Y = X \cup {e}
    OBVIOUS
  <2>12. f \in Seq(Y) /\ e \in Y
    BY <2>10, <2>11, SeqWider
  <2>13. Later = f /\ Later' = Append(f, e)
    BY <2>1, <2>3a, <2>7 DEF Later
  <2>14. PICK g : Numbered(g, f, n) /\ AllHeld(g, f, rq, t, d)
    BY <1>2, <2>2, <2>7, <2>13 DEF PinInv
  <2>15. PICK g1 : /\ Numbered(g1, Append(f, e), n1)
                   /\ g1[Len(f) + 1] = n1 /\ \A i \in DOMAIN f : g1[i] = g[i]
    BY <2>8, <2>12, <2>14, NumberedAppend
  <2>16. AllHeld(g, f, rq1, t, d)
    <3>1. ASSUME NEW r \in Reqs, NEW b \in Blocks, NEW i \in 1 .. n, HeldUntil(rq, t, d, r, b, i)
          PROVE  HeldUntil(rq1, t, d, r, b, i)
      <4>1. CASE \E j \in DOMAIN s : s[j][1] = r
        <5>1. rq1[r].status = "RUNNING" /\ rq1[r].last_sched_seq = n1
          BY <2>4, <2>7, <4>1
        <5>2. rq1[r].last_sched_seq >= i
          BY <2>8, <2>9, <5>1
        <5> QED BY <3>1, <5>1, <5>2 DEF HeldUntil
      <4>2. CASE ~ \E j \in DOMAIN s : s[j][1] = r
        <5>1. rq1[r] = rq[r]
          BY <2>4, <2>7, <4>2
        <5> QED BY <3>1, <5>1 DEF HeldUntil
      <4> QED BY <4>1, <4>2
    <3> QED BY <2>8, <2>14, <3>1, PinsKept
  <2>17. StepHeld(e, n1, rq1, t, d)
    <3> SUFFICES ASSUME NEW j \in DOMAIN e, NEW b \in e[j].blocks
                 PROVE  /\ e[j].request \in Reqs /\ b \in Blocks
                        /\ HeldUntil(rq1, t, d, e[j].request, b, n1)
      BY DEF StepHeld
    <3>1. PICK r : r = e[j].request
      OBVIOUS
    <3>2. j \in DOMAIN s /\ r = s[j][1] /\ b \in ToSet(t[r])
      BY <2>3, <3>1
    <3>3. r \in Reqs /\ rq1[r].status = "RUNNING" /\ rq1[r].last_sched_seq = n1
      BY <2>4, <2>7, <3>2
    <3>4. b \in Blocks
      BY <1>0, <2>2, <3>2, <3>3, TableHeld
    <3>5. rq1[r].last_sched_seq >= n1
      BY <2>9, <3>3
    <3> QED BY <3>1, <3>2, <3>3, <3>4, <3>5 DEF HeldUntil
  <2>18. PICK u, l : u = Append(f, e) /\ l = Len(f)
    OBVIOUS
  <2>19. AllHeld(g1, u, rq1, t, d)
    <3>1. /\ l \in Nat /\ DOMAIN f = 1 .. l /\ DOMAIN u = 1 .. (l + 1) /\ u[l + 1] = e
          /\ \A i \in 1 .. l : u[i] = f[i]
      BY <2>12, <2>18, AppendIs
    <3>2. ASSUME NEW i \in DOMAIN u
          PROVE  StepHeld(u[i], g1[i], rq1, t, d)
      <4>1. CASE i = l + 1
        BY <2>15, <2>17, <2>18, <3>1, <4>1
      <4>2. CASE i # l + 1
        <5>1. i \in DOMAIN f /\ i \in 1 .. l
          BY <3>1, <4>2
        <5>2. g1[i] = g[i] /\ u[i] = f[i]
          BY <2>15, <3>1, <5>1
        <5>3. StepHeld(f[i], g[i], rq1, t, d)
          BY <2>16, <5>1 DEF AllHeld
        <5> QED BY <5>2, <5>3
      <4> QED BY <4>1, <4>2
    <3> QED BY <3>2 DEF AllHeld
  <2>20. /\ Numbered(g1, Later', sched_step_seq')
         /\ AllHeld(g1, Later', req', m'.req_to_blocks, deferred_frees')
    BY <2>1, <2>2, <2>7, <2>13, <2>15, <2>18, <2>19
  <2> HIDE DEF Later
  <2> QED BY <2>20 DEF PinInv, Numbered, AllHeld, StepHeld, HeldUntil
<1> QED BY <1>1, <1>2

LEMMA PinInit == Init => PinInv
<1> SUFFICES ASSUME Init PROVE PinInv
  OBVIOUS
<1>1. Later = << >>
  BY DEF Init, Later
<1>2. PICK g : g = [i \in DOMAIN Later |-> 0]
  OBVIOUS
<1>3. DOMAIN Later = {}
  BY <1>1
<1>4. Numbered(g, Later, sched_step_seq)
  BY <1>2, <1>3 DEF Numbered
<1>5. AllHeld(g, Later, req, m.req_to_blocks, deferred_frees)
  BY <1>3 DEF AllHeld
<1> QED BY <1>4, <1>5 DEF PinInv

LEMMA PinStutter ==
  ASSUME QueueInv, TokenInv, FenceInv, BlockInv, PinInv, UNCHANGED vars
  PROVE  PinInv'
<1>1. /\ UNCHANGED <<config, m, deferred_frees, req, pc, in_flight, sched_step_seq>> /\ StepInv
  BY DEF vars, TokenInv
<1> QED BY <1>1, LaterSame, PinQuiet

LEMMA PinNext ==
  ASSUME QueueInv, TokenInv, FenceInv, BlockInv, PinInv, Next
  PROVE  PinInv'
<1>0. UNCHANGED config
  BY DEF Next
<1>1. CASE EngineStep
  <2>1. CASE \E r \in Reqs : UpdateLoadError(r) \/ UpdateLoadFinished(r)
    BY <1>0, <2>1, PinFreeSteps
  <2>2. CASE RunningPreempt \/ ResetPreempt \/ UpdateStop
    BY <1>0, <2>2, PinFreeSteps
  <2>3. CASE \/ ScheduleBegin \/ RunningSelect \/ RunningDone \/ WaitingSkip \/ WaitingDone
             \/ DrainDone \/ UpdateNoOutput \/ UpdateDone \/ ResetEnd \/ ResetRaised
    BY <1>0, <2>3, PinQuietSteps
  <2>4. CASE WaitingPromote \/ WaitingAdmit \/ WaitingLoad
    BY <1>0, <2>4, PinWaitingSteps
  <2> QED BY <1>0, <1>1, <2>1, <2>2, <2>3, <2>4, PinRunningAllocate, PinDeliver, PinDrainOne,
             PinUpdateBegin, PinIssue
          DEF EngineStep
<1>2. CASE ClientStep
  <2>1. ASSUME NEW r \in Reqs, add_request(r) PROVE PinInv'
    BY <1>0, <2>1, PinWaitingSteps
  <2>2. ASSUME NEW r \in Reqs, finish_requests(r) PROVE PinInv'
    BY <1>0, <2>2, PinFreeSteps
  <2>3. CASE \E reset_running \in BOOLEAN : ResetBegin(reset_running)
    BY <1>0, <2>3, PinQuietSteps
  <2> QED BY <1>2, <2>1, <2>2, <2>3 DEF ClientStep
<1>3. CASE \E r \in Reqs : LoadArrives(r)
  BY <1>0, <1>3, PinQuietSteps
<1> QED BY <1>1, <1>2, <1>3 DEF Next

\* The inductive invariant of the blocks that steps in flight may write.
THEOREM SchedulerPins == Spec => []PinInv
<1>1. Init => PinInv
  BY PinInit
<1>2. QueueInv /\ TokenInv /\ FenceInv /\ BlockInv /\ PinInv /\ [Next]_vars => PinInv'
  BY PinNext, PinStutter
<1> QED BY <1>1, <1>2, SchedulerQueues, SchedulerTokens, SchedulerFences, SchedulerBlocks, PTL
        DEF Spec

\* InFlightBlocksPinned of the scheduler's runs: with deferred frees, no block
\* that a step in flight may still write is free, whether its request goes on,
\* is preempted, stopped, aborted or reset while the step runs.
THEOREM InFlightBlocksAlwaysPinned == Spec => []InFlightBlocksPinned
<1>1. TokenInv /\ BlockInv /\ PinInv => InFlightBlocksPinned
  <2> SUFFICES ASSUME TokenInv, BlockInv, PinInv, config.defer_block_free,
                      NEW i \in (IF pc = "drain" \/ pc = "update" THEN 2 ELSE 1) .. Len(in_flight),
                      NEW j \in DOMAIN in_flight[i], NEW b \in in_flight[i][j].blocks
               PROVE  m.pool.ref[b] > 0
    BY DEF InFlightBlocksPinned
  <2>1. PICK g : AllHeld(g, Later, req, m.req_to_blocks, deferred_frees)
    BY DEF PinInv
  <2>2. PICK B : in_flight \in Seq(Seq(EntryOf(B)))
    BY DEF TokenInv, StepInv
  <2>3. PICK f, X : f = in_flight /\ X = Seq(EntryOf(B))
    OBVIOUS
  <2>4. f \in Seq(X) /\ i \in DOMAIN f /\ (pc \in {"drain", "update"} => i # 1 /\ f # << >>)
    BY <2>2, <2>3
  <2>5. PICK k \in DOMAIN Later : Later[k] = f[i]
    <3>1. CASE pc \in {"drain", "update"}
      <4>1. i - 1 \in DOMAIN Tail(f) /\ Tail(f)[i - 1] = f[i]
        BY <2>4, <3>1, TailIs
      <4>2. Later = Tail(f)
        BY <2>3, <3>1 DEF Later
      <4> QED BY <4>1, <4>2
    <3>2. CASE pc \notin {"drain", "update"}
      BY <2>3, <2>4, <3>2 DEF Later
    <3> QED BY <3>1, <3>2
  <2>6. PICK r : r = in_flight[i][j].request
    OBVIOUS
  <2>7. /\ r \in Reqs /\ b \in Blocks
        /\ HeldUntil(req, m.req_to_blocks, deferred_frees, r, b, g[k])
    BY <2>1, <2>3, <2>5, <2>6 DEF AllHeld, StepHeld
  <2>8. ManagerInv(m, deferred_frees) /\ m.pool.ref[b] \in Nat
    BY <2>7 DEF BlockInv, ManagerInv, PoolInv
  <2>9. m.pool.ref[b] >= 1
    <3>1. CASE b \in ToSet(m.req_to_blocks[r])
      BY <2>7, <2>8, <3>1, TableHeld
    <3>2. CASE b \notin ToSet(m.req_to_blocks[r])
      <4>1. PICK l \in DOMAIN deferred_frees : b \in ToSet(deferred_frees[l][2])
        BY <2>7, <3>2 DEF HeldUntil
      <4> QED BY <2>8, <4>1, FreeHeld
    <3> QED BY <3>1, <3>2
  <2> QED BY <2>8, <2>9
<1> QED BY <1>1, SchedulerTokens, SchedulerBlocks, SchedulerPins, PTL

-----------------------------------------------------------------------------
(* Prefixes, and the block and the slot of a token.                         *)

Blk(p) == ((p - 1) \div block_size) + 1
Slot(p) == ((p - 1) % block_size) + 1

LEMMA ModIs ==
  ASSUME NEW a \in Nat, NEW d \in Nat, d >= 1
  PROVE  a % d \in 0 .. (d - 1) /\ a = (a \div d) * d + (a % d)
OBVIOUS

LEMMA PlaceIs ==
  ASSUME NEW p \in Nat, p >= 1
  PROVE  /\ Blk(p) \in Nat /\ Blk(p) >= 1 /\ Slot(p) \in 1 .. block_size
         /\ p = (Blk(p) - 1) * block_size + Slot(p) /\ p <= Blk(p) * block_size
         /\ (Blk(p) - 1) * block_size \in Nat
<1>0. block_size \in Nat /\ block_size >= 1
  BY ConstantFacts
<1>1. PICK a \in Nat : a = p - 1
  <2>1. p - 1 \in Nat
    OBVIOUS
  <2> QED BY <2>1
<1>2. PICK b, c : b = a \div block_size /\ c = a % block_size
  OBVIOUS
<1>3. b \in Nat /\ c \in 0 .. (block_size - 1) /\ a = b * block_size + c
  BY <1>0, <1>2, DivTimes, ModIs
<1>4. Blk(p) = b + 1 /\ Slot(p) = c + 1
  BY <1>1, <1>2 DEF Blk, Slot
<1>5. PICK x \in Nat : x = b * block_size
  <2>1. b * block_size \in Nat
    BY <1>0, <1>3
  <2> QED BY <2>1
<1>6. (b + 1) - 1 = b /\ (b + 1) * block_size = x + block_size
  BY <1>0, <1>3, <1>5
<1> QED BY <1>0, <1>1, <1>3, <1>4, <1>5, <1>6

LEMMA BlkWithin ==
  ASSUME NEW p \in Nat, p >= 1, NEW n \in Nat, p <= n * block_size
  PROVE  Blk(p) <= n
<1>0. block_size \in Nat /\ block_size >= 1
  BY ConstantFacts
<1>1. PICK b \in Nat : b = Blk(p) - 1
  <2>1. Blk(p) - 1 \in Nat
    BY PlaceIs
  <2> QED BY <2>1
<1>2. b * block_size < n * block_size
  <2>1. PICK x \in Nat : x = b * block_size
    BY <1>1, PlaceIs
  <2>2. PICK y \in Nat : y = n * block_size
    <3>1. n * block_size \in Nat
      BY <1>0
    <3> QED BY <3>1
  <2>3. p = x + Slot(p) /\ Slot(p) \in 1 .. block_size
    BY <1>1, <2>1, PlaceIs
  <2> QED BY <1>0, <2>1, <2>2, <2>3
<1>3. b < n
  BY <1>0, <1>2, TimesStrict
<1>4. Blk(p) \in Nat
  BY PlaceIs
<1> QED BY <1>1, <1>3, <1>4

LEMMA SamePlace ==
  ASSUME NEW p \in Nat, p >= 1, NEW k \in Nat, k >= 1, Blk(p) = Blk(k), Slot(p) = Slot(k)
  PROVE  p = k
BY PlaceIs

LEMMA PrefixIs ==
  ASSUME NEW r \in Reqs, NEW n \in 1 .. MaxLen(r)
  PROVE  \E q \in SamePrefix(r, n) : PrefixId[r][n] = <<q, n>>
<1>1. r \in SamePrefix(r, n)
  BY MaxLenNat DEF SamePrefix
<1>2. PICK q : q = CHOOSE c \in SamePrefix(r, n) : TRUE
  OBVIOUS
<1>3. q \in SamePrefix(r, n)
  BY <1>1, <1>2
<1>4. PrefixId[r][n] = <<q, n>>
  BY <1>2 DEF PrefixId
<1> QED BY <1>3, <1>4

\* Requests with the same tokens have the same prefixes.
LEMMA PrefixTokens ==
  ASSUME NEW r \in Reqs, NEW q \in Reqs, NEW n \in Nat, n <= MaxLen(r), n <= MaxLen(q),
         \A i \in 1 .. n : Token(q, i) = Token(r, i), NEW p \in 1 .. n
  PROVE  PrefixId[r][p] = PrefixId[q][p]
<1>0. MaxLen(r) \in Nat /\ MaxLen(q) \in Nat
  BY MaxLenNat
<1>1. SamePrefix(r, p) = SamePrefix(q, p)
  <2>1. \A i \in 1 .. p : i \in 1 .. n
    OBVIOUS
  <2>2. \A i \in 1 .. p : Token(q, i) = Token(r, i)
    BY <2>1
  <2> QED BY <2>2 DEF SamePrefix
<1>2. p \in 1 .. MaxLen(r) /\ p \in 1 .. MaxLen(q)
  BY <1>0
<1>3. /\ PrefixId[r][p] = <<CHOOSE c \in SamePrefix(r, p) : TRUE, p>>
      /\ PrefixId[q][p] = <<CHOOSE c \in SamePrefix(q, p) : TRUE, p>>
  BY <1>2 DEF PrefixId
<1> QED BY <1>1, <1>3

\* A prefix determines the shorter ones.
LEMMA SamePrefixes ==
  ASSUME NEW r \in Reqs, NEW n \in 1 .. MaxLen(r), NEW q \in Reqs, NEW k \in 1 .. MaxLen(q),
         PrefixId[r][n] = PrefixId[q][k], NEW p \in 1 .. n
  PROVE  k = n /\ PrefixId[r][p] = PrefixId[q][p]
<1>0. MaxLen(r) \in Nat /\ MaxLen(q) \in Nat
  BY MaxLenNat
<1>1. PICK c \in SamePrefix(r, n) : PrefixId[r][n] = <<c, n>>
  BY PrefixIs
<1>2. PICK e \in SamePrefix(q, k) : PrefixId[q][k] = <<e, k>>
  BY PrefixIs
<1>3. c = e /\ n = k
  <2>1. <<c, n>> = <<e, k>>
    BY <1>1, <1>2
  <2> QED BY ONLY <2>1
<1>4. \A i \in 1 .. n : Token(q, i) = Token(r, i)
  BY <1>1, <1>2, <1>3 DEF SamePrefix
<1>5. n \in Nat /\ n <= MaxLen(r) /\ n <= MaxLen(q)
  BY <1>0, <1>3
<1> QED BY <1>3, <1>4, <1>5, PrefixTokens

\* A request that stands for a prefix has the same shorter prefixes.
LEMMA PrefixOwner ==
  ASSUME NEW r \in Reqs, NEW n \in 1 .. MaxLen(r), NEW p \in 1 .. n
  PROVE  PrefixId[r][n][2] = n /\ PrefixId[PrefixId[r][n][1]][p] = PrefixId[r][p]
<1>0. MaxLen(r) \in Nat
  BY MaxLenNat
<1>1. PICK c \in SamePrefix(r, n) : PrefixId[r][n] = <<c, n>>
  BY PrefixIs
<1>2. c \in Reqs /\ n <= MaxLen(c) /\ \A i \in 1 .. n : Token(c, i) = Token(r, i)
  BY <1>1 DEF SamePrefix
<1>3. n \in Nat /\ n <= MaxLen(r)
  BY <1>0
<1>4. PrefixId[r][p] = PrefixId[c][p]
  BY <1>2, <1>3, PrefixTokens
<1>5. <<c, n>>[1] = c /\ <<c, n>>[2] = n
  OBVIOUS
<1> QED BY <1>1, <1>4, <1>5

-----------------------------------------------------------------------------
(* The hashes of a manager's blocks.                                        *)

\* The first n blocks of the table t of r have the hashes of its prefixes.
Named(t, n, hash, r) ==
  n * block_size <= MaxLen(r) /\ \A i \in 1 .. n : hash[t[i]] = BlockHash(r, i)

\* A hash is that of a prefix of full blocks.
IsHash(h) ==
  \E q \in Reqs : \E i \in Nat : i >= 1 /\ i * block_size <= MaxLen(q) /\ h = BlockHash(q, i)

Hashes(k) ==
  /\ \A r \in Reqs : Named(k.req_to_blocks[r], k.num_cached_block[r], k.pool.hash, r)
  /\ \A b \in Blocks : k.pool.hash[b] # NoHash => IsHash(k.pool.hash[b])

\* Blocks with the same hash have the same tokens, slot by slot.
LEMMA HashPlace ==
  ASSUME NEW r \in Reqs, NEW p \in Nat, p >= 1, Blk(p) * block_size <= MaxLen(r),
         NEW q \in Reqs, NEW n \in Nat, n >= 1, Blk(n) * block_size <= MaxLen(q),
         BlockHash(r, Blk(p)) = BlockHash(q, Blk(n)), Slot(p) = Slot(n)
  PROVE  PrefixId[r][p] = PrefixId[q][n]
<1>0. block_size \in Nat /\ block_size >= 1 /\ MaxLen(r) \in Nat /\ MaxLen(q) \in Nat
  BY ConstantFacts, MaxLenNat
<1>1. PICK i, j : i = Blk(p) /\ j = Blk(n)
  OBVIOUS
<1>2. i \in Nat /\ i >= 1 /\ j \in Nat /\ j >= 1 /\ p <= i * block_size
  BY <1>1, PlaceIs
<1>3. PICK x, y : x = i * block_size /\ y = j * block_size
  OBVIOUS
<1>4. x \in Nat /\ y \in Nat /\ 1 * block_size <= x /\ 1 * block_size <= y
  BY <1>0, <1>2, <1>3, TimesMonotone
<1>5. x \in 1 .. MaxLen(r) /\ y \in 1 .. MaxLen(q) /\ p \in 1 .. x
  BY <1>0, <1>1, <1>2, <1>3, <1>4
<1>6. PrefixId[r][x] = PrefixId[q][y]
  BY <1>1, <1>3 DEF BlockHash
<1>7. x = y /\ PrefixId[r][p] = PrefixId[q][p]
  BY <1>5, <1>6, SamePrefixes
<1>8. i = j
  <2>1. ASSUME i < j PROVE FALSE
    <3>1. (i + 1) * block_size <= j * block_size
      BY <1>0, <1>2, <2>1, TimesMonotone
    <3>2. (i + 1) * block_size = x + block_size
      BY <1>0, <1>2, <1>3
    <3> QED BY <1>0, <1>3, <1>4, <1>7, <3>1, <3>2
  <2>2. ASSUME j < i PROVE FALSE
    <3>1. (j + 1) * block_size <= i * block_size
      BY <1>0, <1>2, <2>2, TimesMonotone
    <3>2. (j + 1) * block_size = y + block_size
      BY <1>0, <1>2, <1>3
    <3> QED BY <1>0, <1>3, <1>4, <1>7, <3>1, <3>2
  <2> QED BY <1>2, <2>1, <2>2
<1>9. p = n
  BY <1>1, <1>8, SamePlace
<1> QED BY <1>7, <1>9

\* The block of the token p in a table.
LEMMA TablePlace ==
  ASSUME NEW k, NEW d, ManagerInv(k, d), NEW r \in Reqs, NEW p \in Nat, p >= 1,
         p <= Len(k.req_to_blocks[r]) * block_size
  PROVE  /\ Blk(p) \in 1 .. Len(k.req_to_blocks[r])
         /\ k.req_to_blocks[r][Blk(p)] \in Blocks
         /\ k.req_to_blocks[r][Blk(p)] \in ToSet(k.req_to_blocks[r])
<1>1. PICK t : t = k.req_to_blocks[r]
  OBVIOUS
<1>2. t \in Seq(Blocks) /\ Len(t) \in Nat
  BY <1>1 DEF ManagerInv
<1>3. Blk(p) \in 1 .. Len(t)
  BY <1>1, <1>2, PlaceIs, BlkWithin
<1>4. t[Blk(p)] \in Blocks /\ t[Blk(p)] \in ToSet(t)
  BY <1>2, <1>3, SetIs
<1> QED BY <1>1, <1>3, <1>4

\* A block of a table with a hash has the hash of its place.
LEMMA PlaceHash ==
  ASSUME NEW k, NEW d, ManagerInv(k, d), Hashes(k), NEW r \in Reqs, NEW p \in Nat, p >= 1,
         p <= Len(k.req_to_blocks[r]) * block_size,
         k.pool.hash[k.req_to_blocks[r][Blk(p)]] # NoHash
  PROVE  /\ Blk(p) * block_size <= MaxLen(r)
         /\ k.pool.hash[k.req_to_blocks[r][Blk(p)]] = BlockHash(r, Blk(p))
<1>0. block_size \in Nat /\ block_size >= 1 /\ MaxLen(r) \in Nat
  BY ConstantFacts, MaxLenNat
<1>1. PICK t, c, i : t = k.req_to_blocks[r] /\ c = k.num_cached_block[r] /\ i = Blk(p)
  OBVIOUS
<1>2. /\ TableOk(t, c, k.pool.hash) /\ c \in Nat /\ Named(t, c, k.pool.hash, r)
  BY <1>1 DEF ManagerInv, Hashes
<1>3. i \in 1 .. Len(t)
  BY <1>1, TablePlace
<1>4. i \in Nat
  BY <1>1, PlaceIs
<1>5. i <= c /\ i \in 1 .. c
  BY <1>1, <1>2, <1>3, <1>4 DEF TableOk
<1>6. i * block_size <= c * block_size
  BY <1>0, <1>2, <1>4, <1>5, TimesMonotone
<1>7. i * block_size <= MaxLen(r)
  <2>1. i * block_size \in Nat /\ c * block_size \in Nat
    BY <1>0, <1>2, <1>4
  <2> QED BY <1>0, <1>2, <1>6, <2>1 DEF Named
<1> QED BY <1>1, <1>2, <1>5, <1>7 DEF Named

\* What a request writes to a block with a hash is what the hash stands for.
LEMMA SlotHash ==
  ASSUME NEW k, NEW d, ManagerInv(k, d), Hashes(k), NEW r \in Reqs, NEW p \in Nat, p >= 1,
         p <= Len(k.req_to_blocks[r]) * block_size,
         NEW q \in Reqs, NEW n \in Nat, n >= 1, Blk(n) * block_size <= MaxLen(q),
         k.pool.hash[k.req_to_blocks[r][Blk(p)]] = BlockHash(q, Blk(n)), Slot(p) = Slot(n)
  PROVE  PrefixId[r][p] = PrefixId[q][n]
<1>1. Blk(n) \in Nat /\ Blk(n) >= 1
  BY PlaceIs
<1>2. BlockHash(q, Blk(n)) # NoHash
  BY <1>1, HashIs
<1>3. /\ Blk(p) * block_size <= MaxLen(r)
      /\ k.pool.hash[k.req_to_blocks[r][Blk(p)]] = BlockHash(r, Blk(p))
  BY <1>2, PlaceHash
<1> QED BY <1>3, HashPlace

\* What two requests write to the same slot is the same.
LEMMA SlotAgree ==
  ASSUME NEW k, NEW d, ManagerInv(k, d), Hashes(k),
         NEW r \in Reqs, NEW p \in Nat, p >= 1, p <= Len(k.req_to_blocks[r]) * block_size,
         NEW q \in Reqs, NEW n \in Nat, n >= 1, n <= Len(k.req_to_blocks[q]) * block_size,
         k.req_to_blocks[r][Blk(p)] = k.req_to_blocks[q][Blk(n)], Slot(p) = Slot(n)
  PROVE  PrefixId[r][p] = PrefixId[q][n]
<1>1. PICK b : b = k.req_to_blocks[r][Blk(p)]
  OBVIOUS
<1>2. b \in ToSet(k.req_to_blocks[r]) /\ b \in ToSet(k.req_to_blocks[q])
      /\ Blk(p) \in 1 .. Len(k.req_to_blocks[r]) /\ Blk(n) \in 1 .. Len(k.req_to_blocks[q])
  BY <1>1, TablePlace
<1>3. CASE k.pool.hash[b] = NoHash
  <2>1. q = r
    BY <1>2, <1>3, TableHeld
  <2>2. Different(k.req_to_blocks[r])
    BY DEF ManagerInv, TableOk
  <2>3. Blk(p) = Blk(n)
    BY <1>2, <2>1, <2>2 DEF Different
  <2> QED BY <2>1, <2>3, SamePlace
<1>4. CASE k.pool.hash[b] # NoHash
  <2>1. /\ Blk(n) * block_size <= MaxLen(q)
        /\ k.pool.hash[k.req_to_blocks[q][Blk(n)]] = BlockHash(q, Blk(n))
    BY <1>1, <1>4, PlaceHash
  <2> QED BY <1>1, <2>1, SlotHash
<1> QED BY <1>3, <1>4

\* The table of r keeps its blocks, and one that was empty begins with the hits.
Grows(k, k1, r, hits) ==
  /\ \A i \in 1 .. Len(k.req_to_blocks[r]) : k1.req_to_blocks[r][i] = k.req_to_blocks[r][i]
  /\ k.req_to_blocks[r] = << >> =>
       \A i \in 1 .. Len(hits) : k1.req_to_blocks[r][i] = hits[i]

\* The hashes that are new are those of full blocks among the first n tokens of r.
NewNames(k, k1, r, n) ==
  \A b \in Blocks :
    \/ k1.pool.hash[b] = k.pool.hash[b] \/ k1.pool.hash[b] = NoHash
    \/ \E i \in 1 .. Len(k1.req_to_blocks[r]) :
         /\ i * block_size <= n /\ i * block_size <= MaxLen(r) /\ k1.req_to_blocks[r][i] = b
         /\ k1.pool.hash[b] = BlockHash(r, i)

\* The hits are cached blocks of the prefixes of r.
HitsNamed(k, r, hits) ==
  /\ Len(hits) * block_size <= MaxLen(r)
  /\ \A i \in 1 .. Len(hits) : k.pool.hash[hits[i]] = BlockHash(r, i)

LEMMA NoneNamed ==
  ASSUME NEW r \in Reqs, NEW t, NEW hash
  PROVE  Named(t, 0, hash, r)
<1>1. 0 * block_size = 0 /\ MaxLen(r) \in Nat
  BY ConstantFacts, MaxLenNat
<1> QED BY <1>1 DEF Named

LEMMA EmptiedHashes ==
  ASSUME NEW k, NEW d, ManagerInv(k, d), Hashes(k), NEW r \in Reqs, NEW k1, Emptied(k, k1, r)
  PROVE  Hashes(k1)
<1>1. PICK t, c, h : t = k.req_to_blocks /\ c = k.num_cached_block /\ h = k.pool.hash
  OBVIOUS
<1>2. PICK t1, c1 : t1 = k1.req_to_blocks /\ c1 = k1.num_cached_block
  OBVIOUS
<1>3. t \in [Reqs -> Seq(Blocks)] /\ c \in [Reqs -> Nat]
  BY <1>1 DEF ManagerInv
<1>4. k1.pool.hash = h /\ t1 = [t EXCEPT ![r] = << >>] /\ c1 = [c EXCEPT ![r] = 0]
  BY <1>1, <1>2 DEF Emptied
<1>5. ASSUME NEW q \in Reqs PROVE Named(t1[q], c1[q], h, q)
  <2>1. CASE q = r
    <3>1. c1[q] = 0
      BY <1>3, <1>4, <2>1
    <3> QED BY <3>1, NoneNamed
  <2>2. CASE q # r
    <3>1. t1[q] = t[q] /\ c1[q] = c[q]
      BY <1>3, <1>4, <2>2
    <3> QED BY <1>1, <3>1 DEF Hashes
  <2> QED BY <2>1, <2>2
<1> QED BY <1>1, <1>2, <1>4, <1>5 DEF Hashes

\* A reset finds all the tables empty.
LEMMA ResetHashes ==
  ASSUME NEW k, NEW d, ManagerInv(k, d), CanReset(k.pool), Hashes(k),
         NEW k1, k1 = [k EXCEPT !.pool = reset_prefix_cache(@)]
  PROVE  Hashes(k1) /\ \A b \in Blocks : k1.pool.hash[b] = NoHash
<1>1. PICK t, c : t = k.req_to_blocks /\ c = k.num_cached_block
  OBVIOUS
<1>2. DOMAIN k = ManagerFields /\ PoolInv(k.pool)
  BY DEF ManagerInv
<1>3. \A b \in Blocks : k.pool.ref[b] = 0
  BY ResetManager
<1>4. k1.req_to_blocks = t /\ k1.num_cached_block = c /\ k1.pool = reset_prefix_cache(k.pool)
  BY <1>1, <1>2 DEF ManagerFields
<1>5. k1.pool.hash = [b \in Blocks |-> IF b \in Blocks THEN NoHash ELSE k.pool.hash[b]]
  BY <1>2, <1>4 DEF reset_prefix_cache, EvictCached, PoolInv, PoolFields
<1>6. \A b \in Blocks : k1.pool.hash[b] = NoHash
  BY <1>5
<1>7. ASSUME NEW r \in Reqs PROVE Named(t[r], c[r], k1.pool.hash, r)
  <2>1. t[r] \in Seq(Blocks) /\ c[r] \in Nat /\ c[r] <= Len(t[r])
    BY <1>1 DEF ManagerInv, TableOk
  <2>2. ASSUME Len(t[r]) # 0 PROVE FALSE
    <3>1. 1 \in 1 .. Len(t[r])
      BY <2>1, <2>2
    <3>2. t[r][1] \in Blocks /\ t[r][1] \in ToSet(t[r])
      BY <2>1, <3>1, SetIs
    <3>3. k.pool.ref[t[r][1]] >= 1
      BY <1>1, <3>2, TableHeld
    <3> QED BY <1>3, <3>2, <3>3
  <2>3. c[r] = 0
    BY <2>1, <2>2
  <2> QED BY <2>3, NoneNamed
<1> QED BY <1>4, <1>6, <1>7 DEF Hashes

LEMMA CacheHashes ==
  ASSUME NEW k, NEW d, ManagerInv(k, d), Hashes(k), NEW r \in Reqs, NEW n \in Nat,
         n <= Len(k.req_to_blocks[r]) * block_size, n <= MaxLen(r),
         NEW k1, k1 = cache_blocks(k, r, n)
  PROVE  Hashes(k1) /\ NewNames(k, k1, r, n)
<1>0. block_size \in Nat /\ block_size >= 1 /\ MaxLen(r) \in Nat
  BY ConstantFacts, MaxLenNat
<1>1. PICK t, c, f, h, h1 : /\ t = k.req_to_blocks /\ c = k.num_cached_block
                            /\ f = n \div block_size /\ h = k.pool.hash /\ h1 = k1.pool.hash
  OBVIOUS
<1>2. ManagerInv(k1, d) /\ CachedFrom(k, k1, r) /\ Names(k, k1, r, n)
  BY CacheManager
<1>3. /\ k1.req_to_blocks = t /\ \A q \in Reqs : q # r => k1.num_cached_block[q] = c[q]
      /\ k1.num_cached_block[r] = IF c[r] >= f THEN c[r] ELSE f
      /\ \A i \in (c[r] + 1) .. f : h1[t[r][i]] = BlockHash(r, i)
      /\ \A b \in Blocks : (\A i \in (c[r] + 1) .. f : t[r][i] # b) => h1[b] = h[b]
  BY <1>1, <1>2 DEF CachedFrom, Names
<1>4. t[r] \in Seq(Blocks) /\ Len(t[r]) \in Nat /\ c[r] \in Nat /\ c[r] <= Len(t[r])
  BY <1>1 DEF ManagerInv, TableOk
<1>5. f \in Nat /\ f * block_size <= n /\ f <= Len(t[r])
  BY <1>0, <1>1, <1>4, DivTimes, DivAtMost
<1>6. ASSUME NEW i \in (c[r] + 1) .. f
      PROVE  /\ i \in Nat /\ i >= 1 /\ i \in 1 .. Len(t[r]) /\ i * block_size \in Nat
             /\ i * block_size <= n /\ i * block_size <= MaxLen(r) /\ h[t[r][i]] = NoHash
  <2>1. i \in Nat /\ i >= 1 /\ i \in 1 .. Len(t[r]) /\ i > c[r] /\ i <= f
    BY <1>4, <1>5
  <2>2. i * block_size <= f * block_size
    BY <1>0, <1>5, <2>1, TimesMonotone
  <2>3. i * block_size \in Nat /\ f * block_size \in Nat
    BY <1>0, <1>5, <2>1
  <2>4. h[t[r][i]] = NoHash
    BY <1>1, <2>1 DEF ManagerInv, TableOk
  <2> QED BY <1>0, <1>5, <2>1, <2>2, <2>3, <2>4
<1>7. \A b \in Blocks : h[b] # NoHash => h1[b] = h[b]
  BY <1>3, <1>6
<1>8. ASSUME NEW b \in Blocks
      PROVE  \/ h1[b] = h[b]
             \/ \E i \in 1 .. Len(t[r]) :
                  /\ i * block_size <= n /\ i * block_size <= MaxLen(r) /\ t[r][i] = b
                  /\ h1[b] = BlockHash(r, i)
  <2>1. CASE \E i \in (c[r] + 1) .. f : t[r][i] = b
    <3>1. PICK i \in (c[r] + 1) .. f : t[r][i] = b
      BY <2>1
    <3> QED BY <1>3, <1>6, <3>1
  <2>2. CASE ~ \E i \in (c[r] + 1) .. f : t[r][i] = b
    BY <1>3, <2>2
  <2> QED BY <2>1, <2>2
<1>9. NewNames(k, k1, r, n)
  BY <1>1, <1>3, <1>8 DEF NewNames
<1>10. ASSUME NEW q \in Reqs, NEW i \in 1 .. c[q]
       PROVE  h1[t[q][i]] = BlockHash(q, i)
  <2>1. Named(t[q], c[q], h, q) /\ c[q] \in Nat /\ c[q] <= Len(t[q]) /\ t[q] \in Seq(Blocks)
    BY <1>1 DEF Hashes, ManagerInv, TableOk
  <2>2. h[t[q][i]] = BlockHash(q, i) /\ t[q][i] \in Blocks /\ i \in Nat /\ i >= 1
    BY <2>1 DEF Named
  <2>3. i * block_size <= MaxLen(q)
    <3>0. i \in Nat /\ c[q] \in Nat /\ i <= c[q]
      BY <2>1, <2>2
    <3>1. i * block_size <= c[q] * block_size
      BY <1>0, <3>0, TimesMonotone
    <3>2. i * block_size \in Nat /\ c[q] * block_size \in Nat /\ MaxLen(q) \in Nat
      BY <1>0, <2>1, <2>2, MaxLenNat
    <3>3. c[q] * block_size <= MaxLen(q)
      BY <2>1 DEF Named
    <3> QED BY ONLY <3>1, <3>2, <3>3
  <2>4. h[t[q][i]] # NoHash
    BY <2>2, <2>3, HashIs
  <2> QED BY <1>7, <2>2, <2>4
<1>11. ASSUME NEW q \in Reqs PROVE Named(t[q], k1.num_cached_block[q], h1, q)
  <2>0. Named(t[q], c[q], h, q)
    BY <1>1 DEF Hashes
  <2>1. CASE k1.num_cached_block[q] = c[q]
    BY <1>10, <2>0, <2>1 DEF Named
  <2>2. CASE k1.num_cached_block[q] # c[q]
    <3>1. q = r /\ k1.num_cached_block[q] = f
      BY <1>3, <2>2
    <3>2. f * block_size <= MaxLen(r)
      <4>1. f * block_size \in Nat
        BY <1>0, <1>5
      <4> QED BY <1>0, <1>5, <4>1
    <3>3. ASSUME NEW i \in 1 .. f PROVE h1[t[r][i]] = BlockHash(r, i)
      <4>1. i \in 1 .. c[r] \/ i \in (c[r] + 1) .. f
        BY <1>4, <1>5
      <4> QED BY <1>3, <1>10, <4>1
    <3> QED BY <3>1, <3>2, <3>3 DEF Named
  <2> QED BY <2>1, <2>2
<1>12. ASSUME NEW b \in Blocks, h1[b] # NoHash PROVE IsHash(h1[b])
  <2>1. CASE h1[b] = h[b]
    BY <1>1, <1>12, <2>1 DEF Hashes
  <2>2. CASE h1[b] # h[b]
    <3>1. PICK i \in 1 .. Len(t[r]) : i * block_size <= MaxLen(r) /\ h1[b] = BlockHash(r, i)
      BY <1>8, <2>2
    <3>2. i \in Nat /\ i >= 1
      BY <1>4
    <3> QED BY <3>1, <3>2 DEF IsHash
  <2> QED BY <2>1, <2>2
<1> QED BY <1>1, <1>3, <1>9, <1>11, <1>12 DEF Hashes

LEMMA GrownPlaces ==
  ASSUME NEW k, NEW k1, NEW r, NEW hits \in Seq(Blocks), NEW new \in Seq(Blocks),
         k.req_to_blocks[r] \in Seq(Blocks),
         k1.req_to_blocks[r] = Cat3(k.req_to_blocks[r], hits, new)
  PROVE  Grows(k, k1, r, hits)
<1>1. PICK t, t1, s : t = k.req_to_blocks[r] /\ t1 = k1.req_to_blocks[r] /\ s = t \o hits
  OBVIOUS
<1>2. t \in Seq(Blocks) /\ Len(t) \in Nat /\ Len(hits) \in Nat /\ Len(new) \in Nat
  BY <1>1
<1>3. /\ s \in Seq(Blocks) /\ Len(s) = Len(t) + Len(hits)
      /\ \A i \in 1 .. Len(t) : s[i] = t[i]
      /\ \A i \in 1 .. Len(s) : i > Len(t) => s[i] = hits[i - Len(t)]
  <2>1. /\ t \o hits \in Seq(Blocks) /\ Len(t \o hits) = Len(t) + Len(hits)
        /\ \A i \in 1 .. Len(t) : (t \o hits)[i] = t[i]
        /\ \A i \in 1 .. Len(t \o hits) : i > Len(t) => (t \o hits)[i] = hits[i - Len(t)]
    BY <1>2, CatIs
  <2> QED BY <1>1, <2>1
<1>4. t1 = s \o new /\ \A i \in 1 .. Len(s) : t1[i] = s[i]
  <2>1. \A i \in 1 .. Len(s) : (s \o new)[i] = s[i]
    BY <1>3, CatIs
  <2> QED BY <1>1, <2>1 DEF Cat3
<1>5. ASSUME NEW i \in 1 .. Len(t) PROVE t1[i] = t[i]
  <2>1. i \in 1 .. Len(s)
    BY <1>2, <1>3
  <2> QED BY <1>3, <1>4, <2>1
<1>6. ASSUME t = << >>, NEW i \in 1 .. Len(hits) PROVE t1[i] = hits[i]
  <2>1. Len(t) = 0
    BY <1>6
  <2>2. i \in 1 .. Len(s) /\ i > Len(t) /\ i - Len(t) = i
    BY <1>2, <1>3, <2>1
  <2> QED BY <1>3, <1>4, <2>2
<1> QED BY <1>1, <1>5, <1>6 DEF Grows

\* An allocation keeps the hashes of the tables and of the hits.
LEMMA AllocateHashes ==
  ASSUME NEW k, NEW d, ManagerInv(k, d), Hashes(k), NEW r \in Reqs, NEW hits,
         HitsOk(k, r, hits), HitsNamed(k, r, hits), NEW n,
         NEW k1, ManagerInv(k1, d), Allocated(k, k1, r, hits, n)
  PROVE  Hashes(k1) /\ Grows(k, k1, r, hits)
<1>1. PICK t, c, h, h1 : /\ t = k.req_to_blocks /\ c = k.num_cached_block
                         /\ h = k.pool.hash /\ h1 = k1.pool.hash
  OBVIOUS
<1>2. PICK t1, c1 : t1 = k1.req_to_blocks /\ c1 = k1.num_cached_block
  OBVIOUS
<1>3. PICK new \in Seq(Blocks) : t1[r] = Cat3(t[r], hits, new)
  BY <1>1, <1>2 DEF Allocated
<1>4. /\ c1[r] = c[r] + Len(hits) /\ Forgets(k, k1, hits)
      /\ \A q \in Reqs : q # r => t1[q] = t[q] /\ c1[q] = c[q]
  BY <1>1, <1>2 DEF Allocated, OthersKeep
<1>5. /\ hits \in Seq(Blocks) /\ Len(hits) \in Nat /\ (hits = << >> \/ t[r] = << >>)
  BY <1>1 DEF HitsOk
<1>6. \A q \in Reqs : /\ t[q] \in Seq(Blocks) /\ Len(t[q]) \in Nat /\ c[q] \in Nat
                      /\ c[q] <= Len(t[q])
  BY <1>1 DEF ManagerInv, TableOk
<1>7. Grows(k, k1, r, hits)
  BY <1>1, <1>2, <1>3, <1>5, <1>6, GrownPlaces
<1>8. ASSUME NEW q \in Reqs, NEW i \in 1 .. c[q] PROVE h1[t[q][i]] = BlockHash(q, i)
  <2>1. i \in 1 .. Len(t[q])
    BY <1>6
  <2>2. t[q][i] \in ToSet(t[q]) /\ t[q][i] \in Blocks
    BY <1>6, <2>1, SetIs
  <2>3. k.pool.ref[t[q][i]] >= 1
    BY <1>1, <2>2, TableHeld
  <2>4. h1[t[q][i]] = h[t[q][i]]
    BY <1>1, <1>4, <2>2, <2>3 DEF Forgets
  <2> QED BY <1>1, <2>4 DEF Hashes, Named
<1>9. ASSUME NEW q \in Reqs PROVE Named(t1[q], c1[q], h1, q)
  <2>0. Named(t[q], c[q], h, q)
    BY <1>1 DEF Hashes
  <2>1. CASE q # r
    <3>1. t1[q] = t[q] /\ c1[q] = c[q]
      BY <1>4, <2>1
    <3> QED BY <1>8, <2>0, <3>1 DEF Named
  <2>2. CASE q = r /\ hits = << >>
    <3>1. Len(hits) = 0
      BY <2>2
    <3>2. c1[r] = c[r]
      BY <1>4, <1>6, <3>1
    <3>3. ASSUME NEW i \in 1 .. c[r] PROVE t1[r][i] = t[r][i]
      <4>1. i \in 1 .. Len(t[r])
        BY <1>6
      <4> QED BY <1>1, <1>2, <1>7, <4>1 DEF Grows
    <3> QED BY <1>8, <2>0, <2>2, <3>2, <3>3 DEF Named
  <2>3. CASE q = r /\ t[r] = << >>
    <3>1. Len(t[r]) = 0
      BY <2>3
    <3>2. c1[r] = Len(hits)
      BY <1>4, <1>5, <1>6, <3>1
    <3>3. ASSUME NEW i \in 1 .. Len(hits) PROVE h1[t1[r][i]] = BlockHash(r, i)
      <4>1. t1[r][i] = hits[i]
        BY <1>1, <1>2, <1>7, <2>3 DEF Grows
      <4>2. hits[i] \in ToSet(hits) /\ hits[i] \in Blocks
        BY <1>5, SetIs
      <4>3. h1[hits[i]] = h[hits[i]]
        BY <1>1, <1>4, <4>2 DEF Forgets
      <4> QED BY <1>1, <4>1, <4>3 DEF HitsNamed
    <3> QED BY <2>3, <3>2, <3>3 DEF Named, HitsNamed
  <2> QED BY <1>5, <2>1, <2>2, <2>3
<1>10. ASSUME NEW b \in Blocks, h1[b] # NoHash PROVE IsHash(h1[b])
  BY <1>1, <1>4, <1>10 DEF Forgets, Hashes
<1> QED BY <1>1, <1>2, <1>7, <1>9, <1>10 DEF Hashes

\* allocate_slots.
LEMMA SlotsHashes ==
  ASSUME NEW k, NEW d, ManagerInv(k, d), Hashes(k), NEW r \in Reqs, NEW hits,
         HitsOk(k, r, hits), HitsNamed(k, r, hits), NEW c \in Nat, NEW n \in Nat,
         num_blocks_to_allocate(k, r, c + n, hits) <= get_num_free_blocks(k.pool),
         NEW N \in Nat, N <= MaxLen(r),
         NEW k1, k1 = allocate_slots(k, r, hits, c, n, N)
  PROVE  Hashes(k1) /\ Grows(k, k1, r, hits) /\ NewNames(k, k1, r, c + n)
<1>0. PICK x : x = c + n
  OBVIOUS
<1>1. PICK k0, l : k0 = allocate_blocks(k, r, hits, x) /\ l = Min2(x, N)
  OBVIOUS
<1>2. /\ x \in Nat /\ l \in Nat /\ l <= x /\ l <= N
      /\ num_blocks_to_allocate(k, r, x, hits) <= get_num_free_blocks(k.pool)
  BY <1>0, <1>1 DEF Min2
<1>3. ManagerInv(k0, d) /\ Allocated(k, k0, r, hits, x)
  BY <1>1, <1>2, AllocateManager
<1>4. Hashes(k0) /\ Grows(k, k0, r, hits)
  BY <1>3, AllocateHashes
<1>5. /\ Len(k0.req_to_blocks[r]) \in Nat /\ x <= Len(k0.req_to_blocks[r]) * block_size
      /\ Forgets(k, k0, hits)
  BY <1>3 DEF Allocated
<1>6. l <= MaxLen(r) /\ l <= Len(k0.req_to_blocks[r]) * block_size
  <2>1. MaxLen(r) \in Nat /\ Len(k0.req_to_blocks[r]) * block_size \in Nat
    BY <1>5, MaxLenNat, ConstantFacts
  <2> QED BY <1>2, <1>5, <2>1
<1>7. k1 = cache_blocks(k0, r, l)
  BY <1>0, <1>1 DEF allocate_slots
<1>8. Hashes(k1) /\ NewNames(k0, k1, r, l) /\ CachedFrom(k0, k1, r)
  BY <1>2, <1>3, <1>4, <1>6, <1>7, CacheHashes, CacheManager
<1>9. Grows(k, k1, r, hits)
  BY <1>4, <1>8 DEF Grows, CachedFrom
<1>10. ASSUME NEW b \in Blocks
       PROVE  \/ k1.pool.hash[b] = k.pool.hash[b] \/ k1.pool.hash[b] = NoHash
              \/ \E i \in 1 .. Len(k1.req_to_blocks[r]) :
                   /\ i * block_size <= x /\ i * block_size <= MaxLen(r)
                   /\ k1.req_to_blocks[r][i] = b /\ k1.pool.hash[b] = BlockHash(r, i)
  <2>1. CASE k1.pool.hash[b] = k0.pool.hash[b] \/ k1.pool.hash[b] = NoHash
    BY <1>5, <2>1 DEF Forgets
  <2>2. CASE ~ (k1.pool.hash[b] = k0.pool.hash[b] \/ k1.pool.hash[b] = NoHash)
    <3>1. PICK i \in 1 .. Len(k1.req_to_blocks[r]) :
            /\ i * block_size <= l /\ i * block_size <= MaxLen(r)
            /\ k1.req_to_blocks[r][i] = b /\ k1.pool.hash[b] = BlockHash(r, i)
      BY <1>8, <2>2 DEF NewNames
    <3>2. i * block_size <= x
      <4>1. i \in Nat
        OBVIOUS
      <4>2. PICK z \in Nat : z = i * block_size
        <5>1. i * block_size \in Nat
          BY <4>1, ConstantFacts
        <5> QED BY <5>1
      <4> QED BY <1>2, <3>1, <4>2
    <3> QED BY <3>1, <3>2
  <2> QED BY <2>1, <2>2
<1> QED BY <1>0, <1>8, <1>9, <1>10 DEF NewNames

-----------------------------------------------------------------------------
(* What the KV memory holds.                                                *)

\* An entry of the step s in the making writes slot l of block b.
Pending(s, rq, t, b, l) ==
  \E i \in DOMAIN s :
    \E p \in (rq[s[i][1]].num_computed_tokens + 1)
               .. (rq[s[i][1]].num_computed_tokens + s[i][2]) :
      t[s[i][1]][Blk(p)] = b /\ Slot(p) = l

\* Slot l of block b holds x in the memory v, or will when the step is issued:
\* all that write it write the same (SlotAgree, SlotHash).
Filled(v, s, rq, t, b, l, x) == v[b][l] = x \/ Pending(s, rq, t, b, l)

\* A block in the prefix cache holds what its hash stands for.
FillsCache(v, s, rq, t, hash) ==
  \A b \in Blocks : \A q \in Reqs : \A p \in Nat :
    (p >= 1 /\ Blk(p) * block_size <= MaxLen(q) /\ hash[b] = BlockHash(q, Blk(p)))
      => Filled(v, s, rq, t, b, Slot(p), PrefixId[q][p])

\* The table of r holds its first n tokens.
FillsTable(v, s, rq, t, n, r) ==
  /\ n \in Nat /\ n <= Len(t[r]) * block_size
  /\ \A p \in 1 .. n : Filled(v, s, rq, t, t[r][Blk(p)], Slot(p), PrefixId[r][p])

\* The tokens of request q with load l whose KV is there.
Valid(q, l) ==
  IF q.status \in {"ABSENT", "FINISHED"} THEN 0
  ELSE IF q.status = "WAITING_FOR_REMOTE_KVS" /\ l.state = "transfer" THEN l.first
  ELSE IF q.status = "WAITING_FOR_REMOTE_KVS" /\ l.state = "arrived" /\ l.invalid > 0
       THEN (l.invalid - 1) * block_size
  ELSE q.num_computed_tokens

\* The table t has room for what the load l brings.
LoadRoom(q, l, t) == l.state = "transfer" => q.num_computed_tokens <= Len(t) * block_size

\* A load that failed is taken back before the output is processed.
TakenBack ==
  pc = "update" => \A r \in Reqs : Invalid(r) => req[r].num_computed_tokens = ValidTokens(r)

KVInv ==
  /\ pc \notin LoopStates => loop.scheduled = << >>
  /\ Hashes(m)
  /\ FillsCache(kv, loop.scheduled, req, m.req_to_blocks, m.pool.hash)
  /\ \A r \in Reqs :
       FillsTable(kv, loop.scheduled, req, m.req_to_blocks, Valid(req[r], load[r]), r)
  /\ \A r \in Reqs : LoadRoom(req[r], load[r], m.req_to_blocks[r])
  /\ TakenBack

\* What was to be written still is.
PendingStays(s, rq, t, s1, rq1, t1) ==
  \A b \in Blocks : \A l \in 1 .. block_size : Pending(s, rq, t, b, l) => Pending(s1, rq1, t1, b, l)

LEMMA PendingSame ==
  ASSUME NEW s, NEW rq, NEW t, NEW rq1, NEW t1,
         \A i \in DOMAIN s : /\ rq1[s[i][1]].num_computed_tokens = rq[s[i][1]].num_computed_tokens
                             /\ t1[s[i][1]] = t[s[i][1]]
  PROVE  PendingStays(s, rq, t, s, rq1, t1)
<1> SUFFICES ASSUME NEW b \in Blocks, NEW l \in 1 .. block_size, Pending(s, rq, t, b, l)
             PROVE  Pending(s, rq1, t1, b, l)
  BY DEF PendingStays
<1>1. PICK i \in DOMAIN s :
        \E p \in (rq[s[i][1]].num_computed_tokens + 1)
                   .. (rq[s[i][1]].num_computed_tokens + s[i][2]) :
          t[s[i][1]][Blk(p)] = b /\ Slot(p) = l
  BY DEF Pending
<1>2. PICK q, n, c : q = s[i][1] /\ n = s[i][2] /\ c = rq[q].num_computed_tokens
  OBVIOUS
<1>3. PICK p \in (c + 1) .. (c + n) : t[q][Blk(p)] = b /\ Slot(p) = l
  BY <1>1, <1>2
<1>4. rq1[q].num_computed_tokens = c /\ t1[q] = t[q]
  BY <1>2
<1>5. \E j \in (rq1[s[i][1]].num_computed_tokens + 1)
                 .. (rq1[s[i][1]].num_computed_tokens + s[i][2]) :
        t1[s[i][1]][Blk(j)] = b /\ Slot(j) = l
  BY <1>2, <1>3, <1>4
<1> QED BY <1>5 DEF Pending

\* Another request is scheduled.
LEMMA PendingMore ==
  ASSUME NEW s \in Seq(Reqs \X (Nat \ {0})), NEW rq, NEW t, NEW rq1, NEW t1,
         NEW r \in Reqs, NEW n \in Nat, n >= 1, NEW s1, s1 = Append(s, <<r, n>>),
         \A i \in DOMAIN s : /\ rq1[s[i][1]].num_computed_tokens = rq[s[i][1]].num_computed_tokens
                             /\ t1[s[i][1]] = t[s[i][1]]
  PROVE  /\ PendingStays(s, rq, t, s1, rq1, t1)
         /\ \A p \in (rq1[r].num_computed_tokens + 1) .. (rq1[r].num_computed_tokens + n) :
              Pending(s1, rq1, t1, t1[r][Blk(p)], Slot(p))
<1>1. PICK e : e = <<r, n>>
  OBVIOUS
<1>2. e \in Reqs \X (Nat \ {0}) /\ e[1] = r /\ e[2] = n
  BY <1>1
<1>3. /\ s1 \in Seq(Reqs \X (Nat \ {0})) /\ Len(s1) = Len(s) + 1 /\ Len(s) \in Nat
      /\ s1[Len(s) + 1] = e /\ \A i \in 1 .. Len(s) : s1[i] = s[i]
  <2>1. /\ Append(s, e) \in Seq(Reqs \X (Nat \ {0})) /\ Len(Append(s, e)) = Len(s) + 1
        /\ Len(s) \in Nat
        /\ Append(s, e)[Len(s) + 1] = e /\ \A i \in 1 .. Len(s) : Append(s, e)[i] = s[i]
    BY <1>2, AppendIs
  <2> QED BY <1>1, <2>1
<1>4. DOMAIN s = 1 .. Len(s) /\ DOMAIN s1 = 1 .. (Len(s) + 1)
  BY <1>3
<1>5. PendingStays(s, rq, t, s, rq1, t1)
  BY PendingSame
<1>6. ASSUME NEW b \in Blocks, NEW l \in 1 .. block_size, Pending(s, rq, t, b, l)
      PROVE  Pending(s1, rq1, t1, b, l)
  <2>1. Pending(s, rq1, t1, b, l)
    BY <1>5, <1>6 DEF PendingStays
  <2>2. PICK i \in DOMAIN s :
        \E p \in (rq1[s[i][1]].num_computed_tokens + 1)
                   .. (rq1[s[i][1]].num_computed_tokens + s[i][2]) :
          t1[s[i][1]][Blk(p)] = b /\ Slot(p) = l
    BY <2>1 DEF Pending
  <2>3. i \in DOMAIN s1 /\ s1[i] = s[i]
    BY <1>3, <1>4
  <2>4. \E p \in (rq1[s1[i][1]].num_computed_tokens + 1)
                   .. (rq1[s1[i][1]].num_computed_tokens + s1[i][2]) :
          t1[s1[i][1]][Blk(p)] = b /\ Slot(p) = l
    BY <2>2, <2>3
  <2> QED BY <2>3, <2>4 DEF Pending
<1>7. ASSUME NEW p \in (rq1[r].num_computed_tokens + 1) .. (rq1[r].num_computed_tokens + n)
      PROVE  Pending(s1, rq1, t1, t1[r][Blk(p)], Slot(p))
  <2>1. PICK i : i = Len(s) + 1
    OBVIOUS
  <2>2. i \in DOMAIN s1 /\ s1[i] = e
    BY <1>3, <1>4, <2>1
  <2>3. s1[i][1] = r /\ s1[i][2] = n
    BY <1>2, <2>2
  <2>4. \E j \in (rq1[s1[i][1]].num_computed_tokens + 1)
                   .. (rq1[s1[i][1]].num_computed_tokens + s1[i][2]) :
          t1[s1[i][1]][Blk(j)] = t1[r][Blk(p)] /\ Slot(j) = Slot(p)
    BY <2>3
  <2> QED BY <2>2, <2>4 DEF Pending
<1> QED BY <1>6, <1>7 DEF PendingStays

LEMMA NothingPending ==
  ASSUME NEW s, s = << >>, NEW rq, NEW t, NEW s1, NEW rq1, NEW t1
  PROVE  /\ PendingStays(s, rq, t, s1, rq1, t1)
         /\ \A b, l : ~ Pending(s, rq, t, b, l)
<1>1. DOMAIN s = {}
  OBVIOUS
<1>2. \A b, l : ~ Pending(s, rq, t, b, l)
  BY <1>1 DEF Pending
<1> QED BY <1>2 DEF PendingStays

LEMMA FilledStays ==
  ASSUME NEW s, NEW rq, NEW t, NEW s1, NEW rq1, NEW t1, PendingStays(s, rq, t, s1, rq1, t1),
         NEW v, NEW b \in Blocks, NEW l \in 1 .. block_size, NEW x, Filled(v, s, rq, t, b, l, x)
  PROVE  Filled(v, s1, rq1, t1, b, l, x)
BY DEF Filled, PendingStays

\* The table of r keeps its blocks.
LEMMA TableStays ==
  ASSUME NEW s, NEW rq, NEW t, NEW s1, NEW rq1, NEW t1, PendingStays(s, rq, t, s1, rq1, t1),
         NEW v, NEW r, NEW n, FillsTable(v, s, rq, t, n, r), NEW n1 \in Nat, n1 <= n,
         t[r] \in Seq(Blocks), Len(t1[r]) \in Nat, Len(t[r]) <= Len(t1[r]),
         \A i \in 1 .. Len(t[r]) : t1[r][i] = t[r][i]
  PROVE  FillsTable(v, s1, rq1, t1, n1, r)
<1>0. block_size \in Nat /\ block_size >= 1 /\ n \in Nat /\ Len(t[r]) \in Nat
  BY ConstantFacts DEF FillsTable
<1>1. PICK x \in Nat : x = Len(t[r]) * block_size
  <2>1. Len(t[r]) * block_size \in Nat
    BY <1>0
  <2> QED BY <2>1
<1>2. PICK y \in Nat : y = Len(t1[r]) * block_size
  <2>1. Len(t1[r]) * block_size \in Nat
    BY <1>0
  <2> QED BY <2>1
<1>3. x <= y
  BY <1>0, <1>1, <1>2, TimesMonotone
<1>4. n <= x
  BY <1>1 DEF FillsTable
<1>5. ASSUME NEW p \in 1 .. n1
      PROVE  Filled(v, s1, rq1, t1, t1[r][Blk(p)], Slot(p), PrefixId[r][p])
  <2>1. p \in Nat /\ p >= 1 /\ p \in 1 .. n /\ p <= Len(t[r]) * block_size
    BY <1>0, <1>1, <1>4
  <2>2. Blk(p) \in Nat /\ Blk(p) >= 1 /\ Slot(p) \in 1 .. block_size
    BY <2>1, PlaceIs
  <2>3. Blk(p) \in 1 .. Len(t[r])
    BY <1>0, <2>1, <2>2, BlkWithin
  <2>4. t[r][Blk(p)] \in Blocks /\ t1[r][Blk(p)] = t[r][Blk(p)]
    BY <2>3
  <2>5. Filled(v, s, rq, t, t[r][Blk(p)], Slot(p), PrefixId[r][p])
    BY <2>1 DEF FillsTable
  <2>6. Filled(v, s1, rq1, t1, t[r][Blk(p)], Slot(p), PrefixId[r][p])
    BY <2>2, <2>4, <2>5, FilledStays
  <2> QED BY <2>4, <2>6
<1> QED BY <1>0, <1>2, <1>3, <1>4, <1>5 DEF FillsTable

\* The blocks that are cached hold the tokens of r.
LEMMA CacheGrows ==
  ASSUME NEW k, NEW k1, NEW s, NEW rq, NEW s1, NEW rq1, NEW v, NEW r \in Reqs, NEW n,
         PendingStays(s, rq, k.req_to_blocks, s1, rq1, k1.req_to_blocks),
         FillsCache(v, s, rq, k.req_to_blocks, k.pool.hash), NewNames(k, k1, r, n),
         FillsTable(v, s1, rq1, k1.req_to_blocks, n, r), Len(k1.req_to_blocks[r]) \in Nat
  PROVE  FillsCache(v, s1, rq1, k1.req_to_blocks, k1.pool.hash)
<1>0. block_size \in Nat /\ block_size >= 1 /\ n \in Nat
  BY ConstantFacts DEF FillsTable
<1>1. PICK t, t1, h, h1 : /\ t = k.req_to_blocks /\ t1 = k1.req_to_blocks
                          /\ h = k.pool.hash /\ h1 = k1.pool.hash
  OBVIOUS
<1>2. ASSUME NEW b \in Blocks, NEW q \in Reqs, NEW p \in Nat, p >= 1,
             Blk(p) * block_size <= MaxLen(q), h1[b] = BlockHash(q, Blk(p))
      PROVE  Filled(v, s1, rq1, t1, b, Slot(p), PrefixId[q][p])
  <2>1. /\ Blk(p) \in Nat /\ Blk(p) >= 1 /\ Slot(p) \in 1 .. block_size
        /\ p <= Blk(p) * block_size
    BY <1>2, PlaceIs
  <2>2. BlockHash(q, Blk(p)) # NoHash /\ BlockHash(q, Blk(p))[2] = Blk(p) * block_size
    BY <1>2, <2>1, HashIs
  <2>3. CASE h1[b] = h[b]
    <3>1. Filled(v, s, rq, t, b, Slot(p), PrefixId[q][p])
      BY <1>1, <1>2, <2>3 DEF FillsCache
    <3> QED BY <1>1, <2>1, <3>1, FilledStays
  <2>4. CASE h1[b] # h[b]
    <3>1. PICK i \in 1 .. Len(t1[r]) :
            /\ i * block_size <= n /\ i * block_size <= MaxLen(r)
            /\ t1[r][i] = b /\ h1[b] = BlockHash(r, i)
      BY <1>1, <1>2, <2>2, <2>4 DEF NewNames
    <3>2. i \in Nat /\ i >= 1
      BY <1>1
    <3>3. BlockHash(r, i)[2] = i * block_size
      BY <3>1, <3>2, HashIs
    <3>4. i * block_size = Blk(p) * block_size
      BY <1>2, <2>2, <3>1, <3>3
    <3>5. i = Blk(p)
      <4>1. ASSUME i < Blk(p) PROVE FALSE
        <5>1. (i + 1) * block_size <= Blk(p) * block_size
          BY <1>0, <2>1, <3>2, <4>1, TimesMonotone
        <5>2. (i + 1) * block_size = i * block_size + block_size /\ i * block_size \in Nat
          BY <1>0, <3>2
        <5> QED BY <1>0, <3>4, <5>1, <5>2
      <4>2. ASSUME Blk(p) < i PROVE FALSE
        <5>1. (Blk(p) + 1) * block_size <= i * block_size
          BY <1>0, <2>1, <3>2, <4>2, TimesMonotone, SMTT(30)
        <5>2. (Blk(p) + 1) * block_size = Blk(p) * block_size + block_size
              /\ Blk(p) * block_size \in Nat
          BY <1>0, <2>1
        <5> QED BY <1>0, <3>4, <5>1, <5>2
      <4> QED BY <2>1, <3>2, <4>1, <4>2
    <3>6. PrefixId[r][p] = PrefixId[q][p]
      <4>1. Blk(p) * block_size <= MaxLen(r) /\ BlockHash(r, Blk(p)) = BlockHash(q, Blk(p))
        BY <1>2, <3>1, <3>5
      <4> QED BY <1>2, <4>1, HashPlace
    <3>7. p \in 1 .. n
      <4>1. PICK z \in Nat : z = i * block_size
        <5>1. i * block_size \in Nat
          BY <1>0, <3>2
        <5> QED BY <5>1
      <4>2. p <= z /\ z <= n
        BY <2>1, <3>1, <3>5, <4>1
      <4> QED BY <1>0, <1>2, <4>1, <4>2
    <3>8. Filled(v, s1, rq1, t1, t1[r][Blk(p)], Slot(p), PrefixId[r][p])
      BY <1>1, <3>7 DEF FillsTable
    <3> QED BY <3>1, <3>5, <3>6, <3>8
  <2> QED BY <2>3, <2>4
<1> QED BY <1>1, <1>2 DEF FillsCache

\* No block is cached.
LEMMA CacheStays ==
  ASSUME NEW s, NEW rq, NEW t, NEW s1, NEW rq1, NEW t1, PendingStays(s, rq, t, s1, rq1, t1),
         NEW v, NEW h, NEW h1, FillsCache(v, s, rq, t, h),
         \A b \in Blocks : h1[b] = h[b] \/ h1[b] = NoHash
  PROVE  FillsCache(v, s1, rq1, t1, h1)
<1>1. ASSUME NEW b \in Blocks, NEW q \in Reqs, NEW p \in Nat, p >= 1,
             Blk(p) * block_size <= MaxLen(q), h1[b] = BlockHash(q, Blk(p))
      PROVE  Filled(v, s1, rq1, t1, b, Slot(p), PrefixId[q][p])
  <2>1. Blk(p) \in Nat /\ Blk(p) >= 1 /\ Slot(p) \in 1 .. block_size
    BY <1>1, PlaceIs
  <2>2. BlockHash(q, Blk(p)) # NoHash
    BY <1>1, <2>1, HashIs
  <2>3. h1[b] = h[b]
    BY <1>1, <2>2
  <2>4. Filled(v, s, rq, t, b, Slot(p), PrefixId[q][p])
    BY <1>1, <2>3 DEF FillsCache
  <2> QED BY <2>1, <2>4, FilledStays
<1> QED BY <1>1 DEF FillsCache

\* Only request r changes.
LEMMA OneKV ==
  ASSUME KVInv, ManagerInv(m, deferred_frees), kv' = kv, NEW r \in Reqs, OthersKeep(m, m', r),
         \A q \in Reqs : q # r => req'[q] = req[q] /\ load'[q] = load[q],
         pc' \notin LoopStates => loop'.scheduled = << >>,
         PendingStays(loop.scheduled, req, m.req_to_blocks,
                      loop'.scheduled, req', m'.req_to_blocks),
         Hashes(m'),
         FillsCache(kv, loop'.scheduled, req', m'.req_to_blocks, m'.pool.hash),
         FillsTable(kv, loop'.scheduled, req', m'.req_to_blocks, Valid(req'[r], load'[r]), r),
         LoadRoom(req'[r], load'[r], m'.req_to_blocks[r]), TakenBack'
  PROVE  KVInv'
<1>1. PICK t, t1, s, s1, rq1 : /\ t = m.req_to_blocks /\ t1 = m'.req_to_blocks /\ rq1 = req'
                               /\ s = loop.scheduled /\ s1 = loop'.scheduled
  OBVIOUS
<1>2. ASSUME NEW q \in Reqs
      PROVE  /\ FillsTable(kv', s1, rq1, t1, Valid(req'[q], load'[q]), q)
             /\ LoadRoom(req'[q], load'[q], t1[q])
  <2>1. CASE q = r
    BY <1>1, <2>1
  <2>2. CASE q # r
    <3>1. PICK n : n = Valid(req[q], load[q])
      OBVIOUS
    <3>2. req'[q] = req[q] /\ load'[q] = load[q] /\ t1[q] = t[q]
      BY <1>1, <2>2 DEF OthersKeep
    <3>3. FillsTable(kv, s, req, t, n, q) /\ LoadRoom(req[q], load[q], t[q])
      BY <1>1, <3>1 DEF KVInv
    <3>4. n \in Nat /\ n <= n
      BY <3>3 DEF FillsTable
    <3>5. t[q] \in Seq(Blocks) /\ Len(t[q]) \in Nat /\ Len(t[q]) <= Len(t1[q]) /\ Len(t1[q]) \in Nat
          /\ \A i \in 1 .. Len(t[q]) : t1[q][i] = t[q][i]
      BY <1>1, <3>2 DEF ManagerInv
    <3>6. PendingStays(s, req, t, s1, rq1, t1)
      BY <1>1
    <3>7. FillsTable(kv, s1, rq1, t1, n, q)
      BY <3>3, <3>4, <3>5, <3>6, TableStays
    <3> QED BY <3>1, <3>2, <3>3, <3>7
  <2> QED BY <2>1, <2>2
<1>3. FillsCache(kv', s1, rq1, t1, m'.pool.hash)
  BY <1>1
<1>4. /\ FillsCache(kv', loop'.scheduled, req', m'.req_to_blocks, m'.pool.hash)
      /\ \A q \in Reqs :
           FillsTable(kv', loop'.scheduled, req', m'.req_to_blocks, Valid(req'[q], load'[q]), q)
      /\ \A q \in Reqs : LoadRoom(req'[q], load'[q], m'.req_to_blocks[q])
  BY <1>1, <1>2, <1>3
<1> QED BY <1>4 DEF KVInv, FillsCache, FillsTable, Filled, Pending, Valid, LoadRoom, Hashes, Named

\* No table changes, and no block is cached.
LEMMA FewerKV ==
  ASSUME KVInv, ManagerInv(m, deferred_frees), kv' = kv, m'.req_to_blocks = m.req_to_blocks,
         Hashes(m'),
         \A b \in Blocks : m'.pool.hash[b] = m.pool.hash[b] \/ m'.pool.hash[b] = NoHash,
         loop'.scheduled = loop.scheduled, pc' \notin LoopStates => loop'.scheduled = << >>,
         \A r \in Reqs : Valid(req'[r], load'[r]) = Valid(req[r], load[r]),
         \A i \in DOMAIN loop.scheduled :
           req'[loop.scheduled[i][1]].num_computed_tokens
             = req[loop.scheduled[i][1]].num_computed_tokens,
         \A r \in Reqs : LoadRoom(req'[r], load'[r], m.req_to_blocks[r]),
         TakenBack'
  PROVE  KVInv'
<1>1. PICK t, s, rq1, h, h1 : /\ t = m.req_to_blocks /\ rq1 = req' /\ s = loop.scheduled
                              /\ h = m.pool.hash /\ h1 = m'.pool.hash
  OBVIOUS
<1>2. /\ m'.req_to_blocks = t /\ loop'.scheduled = s
      /\ \A b \in Blocks : h1[b] = h[b] \/ h1[b] = NoHash
  BY <1>1
<1>3. PendingStays(s, req, t, s, rq1, t)
  BY <1>1, PendingSame
<1>5. FillsCache(kv, s, rq1, t, h1)
  <2>1. FillsCache(kv, s, req, t, h)
    BY <1>1 DEF KVInv
  <2> QED BY <1>2, <1>3, <2>1, CacheStays
<1>6. ASSUME NEW r \in Reqs
      PROVE  FillsTable(kv, s, rq1, t, Valid(req'[r], load'[r]), r)
  <2>1. PICK n : n = Valid(req[r], load[r])
    OBVIOUS
  <2>2. FillsTable(kv, s, req, t, n, r)
    BY <1>1, <2>1 DEF KVInv
  <2>3. n \in Nat /\ n <= n
    BY <2>2 DEF FillsTable
  <2>4. t[r] \in Seq(Blocks) /\ Len(t[r]) \in Nat /\ Len(t[r]) <= Len(t[r])
    BY <1>1 DEF ManagerInv
  <2>5. FillsTable(kv, s, rq1, t, n, r)
    BY <1>3, <2>2, <2>3, <2>4, TableStays
  <2> QED BY <2>1, <2>5
<1>7. /\ FillsCache(kv', loop'.scheduled, req', m'.req_to_blocks, m'.pool.hash)
      /\ \A q \in Reqs :
           FillsTable(kv', loop'.scheduled, req', m'.req_to_blocks, Valid(req'[q], load'[q]), q)
      /\ \A q \in Reqs : LoadRoom(req'[q], load'[q], m'.req_to_blocks[q])
  BY <1>1, <1>2, <1>5, <1>6
<1> QED BY <1>7 DEF KVInv, FillsCache, FillsTable, Filled, Pending, Valid, LoadRoom, Hashes, Named

\* Neither the tables nor the hashes change.
LEMMA CalmKV ==
  ASSUME KVInv, ManagerInv(m, deferred_frees), kv' = kv,
         m'.req_to_blocks = m.req_to_blocks, m'.num_cached_block = m.num_cached_block,
         m'.pool.hash = m.pool.hash,
         loop'.scheduled = loop.scheduled, pc' \notin LoopStates => loop'.scheduled = << >>,
         \A r \in Reqs : Valid(req'[r], load'[r]) = Valid(req[r], load[r]),
         \A i \in DOMAIN loop.scheduled :
           req'[loop.scheduled[i][1]].num_computed_tokens
             = req[loop.scheduled[i][1]].num_computed_tokens,
         \A r \in Reqs : LoadRoom(req'[r], load'[r], m.req_to_blocks[r]),
         TakenBack'
  PROVE  KVInv'
<1>1. PICK t, h, c : t = m.req_to_blocks /\ h = m.pool.hash /\ c = m.num_cached_block
  OBVIOUS
<1>2. Hashes(m')
  <2>1. Hashes(m) /\ m'.req_to_blocks = t /\ m'.pool.hash = h /\ m'.num_cached_block = c
    BY <1>1 DEF KVInv
  <2> QED BY <1>1, <2>1 DEF Hashes
<1>3. \A b \in Blocks : m'.pool.hash[b] = m.pool.hash[b] \/ m'.pool.hash[b] = NoHash
  OBVIOUS
<1> QED BY <1>2, <1>3, FewerKV

\* What the KV of a request depends on.
SameKV(q, l, q1, l1) ==
  /\ q1.status = q.status /\ q1.num_computed_tokens = q.num_computed_tokens
  /\ l1.state = l.state /\ l1.first = l.first /\ l1.invalid = l.invalid

LEMMA StillKV ==
  ASSUME NEW q, NEW l, NEW q1, NEW l1, SameKV(q, l, q1, l1)
  PROVE  /\ Valid(q1, l1) = Valid(q, l)
         /\ \A t : LoadRoom(q, l, t) => LoadRoom(q1, l1, t)
BY DEF SameKV, Valid, LoadRoom

\* Nothing changes for the requests.
LEMMA StillCalm ==
  ASSUME TokenInv, KVInv, ManagerInv(m, deferred_frees), kv' = kv,
         m'.req_to_blocks = m.req_to_blocks, m'.num_cached_block = m.num_cached_block,
         m'.pool.hash = m.pool.hash,
         loop'.scheduled = loop.scheduled, pc' \notin LoopStates => pc \notin LoopStates,
         \A r \in Reqs : SameKV(req[r], load[r], req'[r], load'[r]),
         pc' = "update" => pc = "update"
  PROVE  KVInv'
<1>1. pc' \notin LoopStates => loop'.scheduled = << >>
  BY DEF KVInv
<1>2. ASSUME NEW r \in Reqs
      PROVE  /\ Valid(req'[r], load'[r]) = Valid(req[r], load[r])
             /\ LoadRoom(req'[r], load'[r], m.req_to_blocks[r])
             /\ req'[r].num_computed_tokens = req[r].num_computed_tokens
             /\ Invalid(r)' => Invalid(r)
             /\ ValidTokens(r)' = ValidTokens(r)
  <2>1. LoadRoom(req[r], load[r], m.req_to_blocks[r])
    BY DEF KVInv
  <2>2. PICK t : t = m.req_to_blocks[r]
    OBVIOUS
  <2>3. /\ Valid(req'[r], load'[r]) = Valid(req[r], load[r])
        /\ LoadRoom(req[r], load[r], t) => LoadRoom(req'[r], load'[r], t)
    BY StillKV
  <2>4. /\ req'[r].status = req[r].status
        /\ req'[r].num_computed_tokens = req[r].num_computed_tokens
        /\ load'[r].state = load[r].state /\ load'[r].invalid = load[r].invalid
    BY DEF SameKV
  <2> QED BY <2>1, <2>2, <2>3, <2>4 DEF Invalid, Loading, ValidTokens
<1>3. TakenBack'
  BY <1>2 DEF KVInv, TakenBack
<1>4. \A i \in DOMAIN loop.scheduled :
        req'[loop.scheduled[i][1]].num_computed_tokens
          = req[loop.scheduled[i][1]].num_computed_tokens
  <2> SUFFICES ASSUME NEW i \in DOMAIN loop.scheduled
               PROVE  req'[loop.scheduled[i][1]].num_computed_tokens
                        = req[loop.scheduled[i][1]].num_computed_tokens
    OBVIOUS
  <2>1. loop.scheduled[i] \in Reqs \X (Nat \ {0})
    BY DEF TokenInv, LoopInv
  <2>2. loop.scheduled[i][1] \in Reqs
    BY <2>1
  <2> QED BY <1>2, <2>2
<1> QED BY <1>1, <1>2, <1>3, <1>4, CalmKV

LEMMA KVLoopSteps ==
  ASSUME QueueInv, TokenInv, BlockInv, KVInv,
         ScheduleBegin \/ RunningSelect \/ RunningDone \/ WaitingSkip \/ WaitingDone
  PROVE  KVInv'
<1>0. /\ DOMAIN loop = LoopFields /\ DOMAIN req = Reqs
      /\ \A r \in Reqs : DOMAIN req[r] = RequestFields
      /\ ManagerInv(m, deferred_frees)
  BY DEF QueueInv, Fields, BlockInv
<1>1. /\ UNCHANGED <<m, kv, load>> /\ pc' \in LoopStates /\ pc' # "update"
  BY DEF ScheduleBegin, RunningSelect, RunningDone, WaitingSkip, WaitingDone, LoopStates
<1>2. \A r \in Reqs : SameKV(req[r], load[r], req'[r], load'[r])
  <2>1. CASE ScheduleBegin
    <3> SUFFICES ASSUME NEW r \in Reqs
                 PROVE  SameKV(req[r], load[r], req'[r], load'[r])
      OBVIOUS
    <3>1. req'[r] = [req[r] EXCEPT !.decode_wait = AtLeast0(@ - 1)]
      BY <2>1 DEF ScheduleBegin
    <3> QED BY <1>0, <1>1, <3>1 DEF SameKV, RequestFields
  <2>2. CASE ~ ScheduleBegin
    <3>1. req' = req
      BY <2>2 DEF RunningSelect, RunningDone, WaitingSkip, WaitingDone
    <3> QED BY <1>1, <3>1 DEF SameKV
  <2> QED BY <2>1, <2>2
<1>3. loop'.scheduled = loop.scheduled
  <2>1. CASE ScheduleBegin
    <3>1. loop'.scheduled = << >> /\ pc = "idle"
      BY <2>1 DEF ScheduleBegin, NoLoop
    <3>2. loop.scheduled = << >>
      BY <3>1 DEF KVInv, LoopStates
    <3> QED BY <3>1, <3>2
  <2>2. CASE RunningSelect
    BY <1>0, <2>2 DEF RunningSelect, LoopFields
  <2>3. CASE RunningDone \/ WaitingSkip \/ WaitingDone
    BY <1>0, <2>3 DEF RunningDone, WaitingSkip, WaitingDone, LoopFields
  <2> QED BY <2>1, <2>2, <2>3
<1>4. /\ m'.req_to_blocks = m.req_to_blocks /\ m'.num_cached_block = m.num_cached_block
      /\ m'.pool.hash = m.pool.hash
  BY <1>1
<1> QED BY <1>0, <1>1, <1>2, <1>3, <1>4, StillCalm

\* Between the loops nothing is scheduled.
LEMMA KVOtherSteps ==
  ASSUME QueueInv, TokenInv, BlockInv, KVInv,
         \/ ResetRaised \/ UpdateBegin \/ UpdateNoOutput \/ UpdateDone \/ DrainOne
         \/ \E reset_running \in BOOLEAN : ResetBegin(reset_running)
  PROVE  KVInv'
<1>0. /\ DOMAIN req = Reqs /\ ManagerInv(m, deferred_frees) /\ DOMAIN m = ManagerFields
      /\ \A r \in Reqs : DOMAIN req[r] = RequestFields /\ DOMAIN load[r] = LoadFields
  BY DEF QueueInv, Fields, BlockInv, ManagerInv
<1>1. /\ UNCHANGED <<kv, loop>> /\ pc \notin LoopStates
      /\ pc' = "update" => pc = "update"
  <2>1. CASE ResetRaised \/ UpdateBegin \/ UpdateNoOutput \/ UpdateDone \/ DrainOne
    BY <2>1 DEF ResetRaised, UpdateBegin, UpdateNoOutput, UpdateDone, DrainOne, LoopStates
  <2>2. CASE \E reset_running \in BOOLEAN : ResetBegin(reset_running)
    BY <2>2 DEF ResetBegin, BetweenSteps, LoopStates
  <2> QED BY <2>1, <2>2
<1>2. /\ m'.req_to_blocks = m.req_to_blocks /\ m'.num_cached_block = m.num_cached_block
      /\ m'.pool.hash = m.pool.hash
  <2>1. CASE DrainOne
    <3>1. /\ m' = [m EXCEPT !.pool = free_blocks(@, Reverse(deferred_frees[1][2]))]
          /\ deferred_frees # << >>
      BY <2>1 DEF DrainOne, FenceReached
    <3>2. free_blocks(m.pool, Reverse(deferred_frees[1][2])).hash = m.pool.hash
      BY <1>0, <3>1, DrainManager
    <3>3. m'.pool = free_blocks(m.pool, Reverse(deferred_frees[1][2]))
      BY <1>0, <3>1 DEF ManagerFields
    <3> QED BY <1>0, <3>1, <3>2, <3>3 DEF ManagerFields
  <2>2. CASE ~ DrainOne
    <3>1. m' = m
      BY <2>2 DEF ResetRaised, UpdateBegin, UpdateNoOutput, UpdateDone, ResetBegin
    <3> QED BY <3>1
  <2> QED BY <2>1, <2>2
<1>3. ASSUME NEW r \in Reqs
      PROVE  SameKV(req[r], load[r], req'[r], load'[r])
  <2>1. CASE UpdateBegin
    <3>1. load' = load /\ (StepProcessed \/ req' = req)
      BY <2>1 DEF UpdateBegin
    <3>2. CASE StepProcessed
      <4>1. req'[r] = [req[r] EXCEPT !.last_sched_seq = AtLeast0(@ - 1)]
        BY <3>2 DEF StepProcessed
      <4> QED BY <1>0, <3>1, <4>1 DEF SameKV, RequestFields
    <3>3. CASE req' = req
      BY <3>1, <3>3 DEF SameKV
    <3> QED BY <3>1, <3>2, <3>3
  <2>2. CASE UpdateNoOutput
    <3>1. PICK e : e = Head(todo)
      OBVIOUS
    <3>2. /\ load' = load
          /\ req' = IF e.request \in Known THEN [req EXCEPT ![e.request] = Landed(e)] ELSE req
      BY <2>2, <3>1 DEF UpdateNoOutput
    <3>3. CASE r = e.request /\ r \in Known
      <4>1. DOMAIN req[e.request] = RequestFields
        BY <1>0, <3>3
      <4>2. SameNeeds(req[e.request], Landed(e))
        BY <3>3, <4>1, LandedFields DEF SameNeeds
      <4>3. req'[r] = Landed(e)
        BY <1>0, <3>2, <3>3
      <4> QED BY <3>2, <3>3, <4>2, <4>3 DEF SameKV, SameNeeds
    <3>4. CASE ~ (r = e.request /\ r \in Known)
      <4>1. req'[r] = req[r]
        BY <1>0, <3>2, <3>4
      <4> QED BY <3>2, <4>1 DEF SameKV
    <3> QED BY <3>3, <3>4
  <2>3. CASE UpdateDone
    <3>1. req' = req /\ load'[r] = [load[r] EXCEPT !.steps = AtLeast0(@ - 1)]
      BY <2>3 DEF UpdateDone
    <3> QED BY <1>0, <3>1 DEF SameKV, LoadFields
  <2>4. CASE ResetRaised \/ DrainOne \/ \E reset_running \in BOOLEAN : ResetBegin(reset_running)
    <3>1. UNCHANGED <<req, load>>
      BY <2>4 DEF ResetRaised, DrainOne, ResetBegin
    <3> QED BY <3>1 DEF SameKV
  <2> QED BY <2>1, <2>2, <2>3, <2>4
<1>4. loop'.scheduled = loop.scheduled
  BY <1>1
<1> QED BY <1>0, <1>1, <1>2, <1>3, <1>4, StillCalm

\* A load that failed is taken back.
LEMMA KVDrainDone ==
  ASSUME QueueInv, TokenInv, BlockInv, KVInv, DrainDone
  PROVE  KVInv'
<1>0. /\ \A r \in Reqs : DOMAIN req[r] = RequestFields /\ DOMAIN load[r] = LoadFields
      /\ ManagerInv(m, deferred_frees)
  BY DEF QueueInv, Fields, BlockInv
<1>1. /\ UNCHANGED <<m, kv, loop>> /\ pc = "drain" /\ pc' = "update"
      /\ req' = [r \in Reqs |-> IF Invalid(r)
                                THEN [req[r] EXCEPT !.num_computed_tokens = ValidTokens(r)]
                                ELSE req[r]]
      /\ load' = [r \in Reqs |-> [load[r] EXCEPT
                    !.failed = @ \/ (Invalid(r) /\ config.kv_load = "recompute")]]
  BY DEF DrainDone
<1>2. ASSUME NEW r \in Reqs
      PROVE  /\ load'[r].state = load[r].state /\ load'[r].first = load[r].first
             /\ load'[r].invalid = load[r].invalid
             /\ req'[r].status = req[r].status
             /\ ~ Invalid(r) => req'[r].num_computed_tokens = req[r].num_computed_tokens
             /\ Invalid(r) => req'[r].num_computed_tokens = ValidTokens(r)
  <2>1. /\ load'[r].state = load[r].state /\ load'[r].first = load[r].first
        /\ load'[r].invalid = load[r].invalid
    BY <1>0, <1>1 DEF LoadFields
  <2>2. CASE Invalid(r)
    <3>1. req'[r] = [req[r] EXCEPT !.num_computed_tokens = ValidTokens(r)]
      BY <1>1, <2>2
    <3> QED BY <1>0, <2>1, <2>2, <3>1 DEF RequestFields
  <2>3. CASE ~ Invalid(r)
    BY <1>1, <2>1, <2>3
  <2> QED BY <2>2, <2>3
<1>3. ASSUME NEW r \in Reqs
      PROVE  /\ Valid(req'[r], load'[r]) = Valid(req[r], load[r])
             /\ LoadRoom(req'[r], load'[r], m.req_to_blocks[r])
             /\ Invalid(r)' => req'[r].num_computed_tokens = ValidTokens(r)'
  <2>1. LoadRoom(req[r], load[r], m.req_to_blocks[r])
    BY DEF KVInv
  <2>2. CASE Invalid(r)
    <3>1. req[r].status = "WAITING_FOR_REMOTE_KVS" /\ load[r].state = "arrived" /\ load[r].invalid > 0
      BY <2>2 DEF Invalid, Loading
    <3>2. Valid(req'[r], load'[r]) = Valid(req[r], load[r])
      BY <1>2, <3>1 DEF Valid
    <3>3. LoadRoom(req'[r], load'[r], m.req_to_blocks[r])
      BY <1>2, <3>1 DEF LoadRoom
    <3> QED BY <1>2, <2>2, <3>2, <3>3 DEF ValidTokens
  <2>3. CASE ~ Invalid(r)
    <3>1. SameKV(req[r], load[r], req'[r], load'[r])
      BY <1>2, <2>3 DEF SameKV
    <3>2. Valid(req'[r], load'[r]) = Valid(req[r], load[r])
      BY <3>1, StillKV
    <3>3. LoadRoom(req'[r], load'[r], m.req_to_blocks[r])
      BY <1>2, <2>1, <2>3 DEF LoadRoom
    <3>4. ~ Invalid(r)'
      BY <1>2, <2>3 DEF Invalid, Loading
    <3> QED BY <3>2, <3>3, <3>4
  <2> QED BY <2>2, <2>3
<1>4. loop.scheduled = << >> /\ loop' = loop
  BY <1>1 DEF KVInv, LoopStates
<1>5. TakenBack'
  BY <1>3 DEF TakenBack
<1>6. /\ m'.req_to_blocks = m.req_to_blocks /\ m'.num_cached_block = m.num_cached_block
      /\ m'.pool.hash = m.pool.hash /\ kv' = kv
  BY <1>1
<1>7. \A i \in DOMAIN loop.scheduled :
           req'[loop.scheduled[i][1]].num_computed_tokens
             = req[loop.scheduled[i][1]].num_computed_tokens
  BY <1>4
<1> QED BY <1>0, <1>3, <1>4, <1>5, <1>6, <1>7, CalmKV

\* The table of r is emptied.
LEMMA EmptiedKV ==
  ASSUME KVInv, ManagerInv(m, deferred_frees), kv' = kv, NEW r \in Reqs,
         NEW k, ManagerInv(k, deferred_frees), OthersKeep(m, k, r), Hashes(k),
         FillsCache(kv, loop.scheduled, req, m.req_to_blocks, k.pool.hash), Emptied(k, m', r),
         \A q \in Reqs : q # r => req'[q] = req[q] /\ load'[q] = load[q],
         pc' \notin LoopStates => loop'.scheduled = << >>,
         PendingStays(loop.scheduled, req, m.req_to_blocks,
                      loop'.scheduled, req', m'.req_to_blocks),
         Valid(req'[r], load'[r]) = 0, load'[r].state # "transfer", TakenBack'
  PROVE  KVInv'
<1>1. Hashes(m')
  BY EmptiedHashes
<1>2. OthersKeep(k, m', r) /\ m'.req_to_blocks[r] = << >> /\ Len(m'.req_to_blocks[r]) = 0
  BY EmptiedKeeps
<1>3. OthersKeep(m, m', r)
  BY <1>2 DEF OthersKeep
<1>4. PICK s, t, s1, rq1, t1, h : /\ s = loop.scheduled /\ t = m.req_to_blocks /\ s1 = loop'.scheduled
                                  /\ rq1 = req' /\ t1 = m'.req_to_blocks /\ h = k.pool.hash
  OBVIOUS
<1>5. FillsCache(kv, s1, rq1, t1, h)
  <2>1. /\ FillsCache(kv, s, req, t, h) /\ PendingStays(s, req, t, s1, rq1, t1)
        /\ \A b \in Blocks : h[b] = h[b] \/ h[b] = NoHash
    BY <1>4
  <2> QED BY <2>1, CacheStays
<1>6. m'.pool.hash = h
  BY <1>4 DEF Emptied
<1>7. FillsTable(kv, s1, rq1, t1, 0, r)
  <2>1. 0 <= Len(t1[r]) * block_size
    <3>1. Len(t1[r]) = 0 /\ 0 <= 0 * block_size
      BY <1>2, <1>4, ConstantFacts
    <3> QED BY <3>1
  <2> QED BY <2>1 DEF FillsTable
<1>8. LoadRoom(req'[r], load'[r], m'.req_to_blocks[r])
  BY DEF LoadRoom
<1>9. FillsCache(kv, loop'.scheduled, req', m'.req_to_blocks, m'.pool.hash)
  BY <1>4, <1>5, <1>6
<1>10. FillsTable(kv, loop'.scheduled, req', m'.req_to_blocks, Valid(req'[r], load'[r]), r)
  BY <1>4, <1>7
<1> QED BY <1>1, <1>3, <1>8, <1>9, <1>10, OneKV

\* The requests that are not taken out are still in the step.
LEMMA PendingPicks ==
  ASSUME NEW s \in Seq(Reqs \X (Nat \ {0})), NEW f, NEW g, NEW T, Len(f) \in Nat,
         DOMAIN f = 1 .. Len(f),
         Picks(f, g, s, Len(s), T), \A i \in DOMAIN s : s[i] \in T,
         NEW rq, NEW t, NEW rq1, NEW t1,
         \A i \in DOMAIN s : /\ rq1[s[i][1]].num_computed_tokens = rq[s[i][1]].num_computed_tokens
                             /\ t1[s[i][1]] = t[s[i][1]]
  PROVE  PendingStays(s, rq, t, f, rq1, t1)
<1>1. PendingStays(s, rq, t, s, rq1, t1)
  BY PendingSame
<1> SUFFICES ASSUME NEW b \in Blocks, NEW l \in 1 .. block_size, Pending(s, rq, t, b, l)
             PROVE  Pending(f, rq1, t1, b, l)
  BY DEF PendingStays
<1>2. Pending(s, rq1, t1, b, l)
  BY <1>1 DEF PendingStays
<1>3. PICK i \in DOMAIN s :
        \E p \in (rq1[s[i][1]].num_computed_tokens + 1)
                   .. (rq1[s[i][1]].num_computed_tokens + s[i][2]) :
          t1[s[i][1]][Blk(p)] = b /\ Slot(p) = l
  BY <1>2 DEF Pending
<1>4. i \in 1 .. Len(s)
  OBVIOUS
<1>5. PICK k \in 1 .. Len(f) : g[k] = i
  BY <1>4 DEF Picks
<1>6. k \in DOMAIN f /\ f[k] = s[i]
  BY <1>5 DEF Picks
<1>7. \E p \in (rq1[f[k][1]].num_computed_tokens + 1)
                   .. (rq1[f[k][1]].num_computed_tokens + f[k][2]) :
          t1[f[k][1]][Blk(p)] = b /\ Slot(p) = l
  BY <1>3, <1>6
<1> QED BY <1>6, <1>7 DEF Pending

LEMMA TakenOthers ==
  ASSUME TakenBack, pc' = "update" => pc = "update", NEW r,
         \A q \in Reqs : q # r => req'[q] = req[q] /\ load'[q] = load[q], ~ Invalid(r)'
  PROVE  TakenBack'
<1> SUFFICES ASSUME pc' = "update", NEW q \in Reqs, Invalid(q)'
             PROVE  req'[q].num_computed_tokens = ValidTokens(q)'
  BY DEF TakenBack
<1>1. q # r
  OBVIOUS
<1>2. req'[q] = req[q] /\ load'[q] = load[q]
  BY <1>1
<1>3. Invalid(q) /\ ValidTokens(q)' = ValidTokens(q)
  BY <1>2 DEF Invalid, Loading, ValidTokens
<1> QED BY <1>2, <1>3 DEF TakenBack

\* A request that runs is preempted.
LEMMA KVPreempt ==
  ASSUME QueueInv, BlockInv, KVInv, UNCHANGED <<kv, load>>,
         NEW v \in Reqs, req[v].status = "RUNNING", FreeRequestBlocks(m, v),
         NEW drop, req' = [req EXCEPT ![v] = Preempted(v, drop)], pc' # "update",
         pc' \notin LoopStates => loop'.scheduled = << >>,
         PendingStays(loop.scheduled, req, m.req_to_blocks,
                      loop'.scheduled, req', m'.req_to_blocks)
  PROVE  KVInv'
<1>0. /\ ManagerInv(m, deferred_frees) /\ OthersKeep(m, m, v) /\ Hashes(m)
      /\ FillsCache(kv, loop.scheduled, req, m.req_to_blocks, m.pool.hash)
      /\ LoadedBy(req[v], load[v], m.req_to_blocks[v], m.num_cached_block[v])
  BY DEF BlockInv, LoadsInv, OthersKeep, KVInv
<1>1. /\ req'[v].status = "PREEMPTED" /\ req'[v].num_computed_tokens = 0
      /\ \A q \in Reqs : q # v => req'[q] = req[q] /\ load'[q] = load[q]
  <2>1. DOMAIN req = Reqs /\ DOMAIN req[v] = RequestFields
    BY DEF QueueInv, Fields
  <2>2. PICK x, y : x = (drop \/ (req[v].drop_stale_output /\ req[v].num_stale_output_tokens > 0))
                    /\ y = req[v].num_in_flight_tokens
    OBVIOUS
  <2>3. req'[v] = [req[v] EXCEPT
     !.status = "PREEMPTED", !.num_computed_tokens = 0, !.num_output_placeholders = 0,
     !.prefilling = FALSE, !.drop_stale_output = x, !.num_stale_output_tokens = y]
    BY <2>1, <2>2 DEF Preempted
  <2> QED BY <2>1, <2>3 DEF RequestFields
<1>2. Emptied(m, m', v)
  BY <1>0, FreeRequestManager
<1>3. load'[v].state # "transfer"
  BY <1>0 DEF LoadedBy
<1>4. Valid(req'[v], load'[v]) = 0
  BY <1>1 DEF Valid
<1>5. TakenBack'
  BY DEF TakenBack
<1> QED BY <1>0, <1>1, <1>2, <1>3, <1>4, <1>5, EmptiedKV

LEMMA KVResetPreempt ==
  ASSUME QueueInv, TokenInv, BlockInv, KVInv, ResetPreempt
  PROVE  KVInv'
<1>1. PICK v : v = Last(running)
  OBVIOUS
<1>2. /\ pc = "reset_running" /\ UNCHANGED <<pc, load, kv, loop>> /\ running # << >>
      /\ FreeRequestBlocks(m, v) /\ req' = [req EXCEPT ![v] = Preempted(v, TRUE)]
  BY <1>1 DEF ResetPreempt, PreemptRequest
<1>3. v \in Reqs /\ req[v].status = "RUNNING"
  <2>1. running \in Seq(Reqs)
    BY RunningAre
  <2>2. Len(running) \in DOMAIN running
    BY <1>2, <2>1
  <2>3. v = running[Len(running)]
    BY <1>1 DEF Last
  <2> QED BY <2>2, <2>3, RunningAre
<1>4. loop.scheduled = << >> /\ loop'.scheduled = << >>
  BY <1>2 DEF KVInv, LoopStates
<1>5. PendingStays(loop.scheduled, req, m.req_to_blocks, loop'.scheduled, req', m'.req_to_blocks)
  BY <1>4, NothingPending
<1>6. pc' # "update"
  BY <1>2
<1> QED BY <1>2, <1>3, <1>4, <1>5, <1>6, KVPreempt

\* With the policy "fcfs" the victim is the last of running, behind the ones
\* that the step has scheduled.
LEMMA KVRunningPreempt ==
  ASSUME policy = "fcfs", QueueInv, TokenInv, BlockInv, KVInv, RunningPreempt
  PROVE  KVInv'
<1>0. LoopInv /\ DOMAIN req = Reqs /\ DOMAIN loop = LoopFields /\ ManagerInv(m, deferred_frees)
  BY DEF TokenInv, QueueInv, Fields, BlockInv
<1>1. PICK v, s, kept :
        v = Victim /\ s = loop.scheduled /\ kept = {e \in ToSet(s) : e[1] # v}
  OBVIOUS
<1>1a. PICK b : b = IF ToSet(s) \ kept = {} THEN loop.budget
                    ELSE loop.budget + (CHOOSE e \in ToSet(s) \ kept : TRUE)[2]
  OBVIOUS
<1>2. /\ pc = "allocate" /\ pc' \in {"issue", "allocate"}
      /\ FreeRequestBlocks(m, v)
      /\ req' = [req EXCEPT ![v] = Preempted(v, requires_kv_delivery)]
      /\ loop' = [loop EXCEPT
              !.preempted = TRUE, !.index = IndexAfter(v), !.scheduled = Filter(@, kept),
              !.budget = b]
      /\ UNCHANGED <<load, kv>>
  BY <1>1, <1>1a DEF RunningPreempt, PreemptRequest
<1>3. /\ running \in Seq(Reqs) /\ loop.index \in DOMAIN running /\ Len(running) \in Nat
      /\ DOMAIN running = 1 .. Len(running)
  BY <1>0, <1>2, RunningAre DEF LoopInv
<1>4. Len(running) \in DOMAIN running /\ loop.index <= Len(running) /\ loop.index \in Nat
  BY <1>3
<1>5. v = running[Len(running)]
  BY <1>1 DEF Victim, Last
<1>6. v \in Reqs /\ req[v].status = "RUNNING"
  BY <1>4, <1>5, RunningAre
<1>7. PICK f : f = Filter(s, kept)
  OBVIOUS
<1>8. loop'.scheduled = f
  BY <1>0, <1>1, <1>2, <1>7 DEF LoopFields
<1>9. s \in Seq(Reqs \X (Nat \ {0}))
  BY <1>0, <1>1 DEF LoopInv
<1>10. PICK g : Picks(f, g, s, Len(s), kept) /\ f \in Seq(Reqs \X (Nat \ {0}))
  BY <1>7, <1>9, FilterPicks
<1>11. ASSUME NEW i \in DOMAIN s
       PROVE  s[i][1] # v /\ s[i][1] \in Reqs /\ s[i] \in kept
  <2>1. PICK j \in DOMAIN running : j < loop.index /\ running[j] = s[i][1]
    BY <1>0, <1>1, <1>2 DEF LoopInv
  <2>2. j # Len(running)
    BY <1>3, <1>4, <2>1
  <2>3. running[j] # v /\ running[j] \in Reqs
    BY <1>4, <1>5, <2>2, RunningAre
  <2>4. s[i] \in ToSet(s)
    BY DEF ToSet
  <2> QED BY <1>1, <2>1, <2>3, <2>4
<1>12. OthersKeep(m, m', v)
  <2>1. Emptied(m, m', v)
    BY <1>0, <1>2, <1>6, FreeRequestManager
  <2> QED BY <1>0, <1>6, <2>1, EmptiedKeeps
<1>13. PICK t, rq1, t1 : t = m.req_to_blocks /\ rq1 = req' /\ t1 = m'.req_to_blocks
  OBVIOUS
<1>14. ASSUME NEW i \in DOMAIN s
       PROVE  /\ rq1[s[i][1]].num_computed_tokens = req[s[i][1]].num_computed_tokens
              /\ t1[s[i][1]] = t[s[i][1]]
  <2>1. PICK q : q = s[i][1]
    OBVIOUS
  <2>2. q \in Reqs /\ q # v
    BY <1>11, <2>1
  <2>3. req'[q] = req[q] /\ m'.req_to_blocks[q] = m.req_to_blocks[q]
    BY <1>0, <1>2, <1>12, <2>2 DEF OthersKeep
  <2> QED BY <1>13, <2>1, <2>3
<1>15. PendingStays(s, req, t, f, rq1, t1)
  <2>1. Len(f) \in Nat /\ DOMAIN f = 1 .. Len(f) /\ \A i \in DOMAIN s : s[i] \in kept
    BY <1>10, <1>11
  <2> QED BY <1>9, <1>10, <1>14, <2>1, PendingPicks
<1>16. PendingStays(loop.scheduled, req, m.req_to_blocks,
                    loop'.scheduled, req', m'.req_to_blocks)
  BY <1>1, <1>8, <1>13, <1>15
<1>17. pc' \in LoopStates /\ pc' # "update"
  BY <1>2 DEF LoopStates
<1> QED BY <1>2, <1>6, <1>16, <1>17, KVPreempt

LEMMA KVFinish ==
  ASSUME QueueInv, TokenInv, BlockInv, KVInv, UNCHANGED <<pc, loop, kv>>,
         pc \in {"idle", "update"}, NEW r \in Known, FinishRequest(r)
  PROVE  KVInv'
<1>0. /\ r \in Reqs /\ DOMAIN req = Reqs /\ DOMAIN load = Reqs /\ DOMAIN load[r] = LoadFields
      /\ DOMAIN req[r] = RequestFields /\ ManagerInv(m, deferred_frees)
  BY DEF QueueInv, Fields, Known, BlockInv
<1>1. /\ IF DelaysFree(r) THEN UNCHANGED <<m, deferred_frees>> ELSE FreeRequestBlocks(m, r)
      /\ load' = [load EXCEPT ![r] = IF @.state = "finished" THEN NoLoad
                                     ELSE [@ EXCEPT !.failed = FALSE]]
      /\ req' = [req EXCEPT ![r].status = "FINISHED", ![r].prefilling = FALSE]
  BY DEF FinishRequest
<1>2. /\ req'[r].status = "FINISHED" /\ req'[r].num_computed_tokens = req[r].num_computed_tokens
      /\ \A q \in Reqs : q # r => req'[q] = req[q] /\ load'[q] = load[q]
  BY <1>0, <1>1 DEF RequestFields
<1>3. load'[r].state = (IF load[r].state = "finished" THEN "none" ELSE load[r].state)
  <2>1. CASE load[r].state = "finished"
    <3>1. load'[r] = NoLoad
      BY <1>0, <1>1, <2>1
    <3> QED BY <2>1, <3>1 DEF NoLoad
  <2>2. CASE load[r].state # "finished"
    <3>1. load'[r] = [load[r] EXCEPT !.failed = FALSE]
      BY <1>0, <1>1, <2>2
    <3> QED BY <1>0, <2>2, <3>1 DEF LoadFields
  <2> QED BY <2>1, <2>2
<1>4. loop.scheduled = << >> /\ loop'.scheduled = << >>
  BY DEF KVInv, LoopStates
<1>5. PendingStays(loop.scheduled, req, m.req_to_blocks, loop'.scheduled, req', m'.req_to_blocks)
  BY <1>4, NothingPending
<1>6. Valid(req'[r], load'[r]) = 0
  BY <1>2 DEF Valid
<1>7. TakenBack'
  <2>1. ~ Invalid(r)'
    BY <1>2 DEF Invalid, Loading
  <2> QED BY <1>2, <2>1, TakenOthers DEF KVInv
<1>8. /\ Hashes(m) /\ FillsCache(kv, loop.scheduled, req, m.req_to_blocks, m.pool.hash)
      /\ LoadedBy(req[r], load[r], m.req_to_blocks[r], m.num_cached_block[r])
      /\ FillsTable(kv, loop.scheduled, req, m.req_to_blocks, Valid(req[r], load[r]), r)
      /\ LoadRoom(req[r], load[r], m.req_to_blocks[r])
  BY <1>0 DEF BlockInv, LoadsInv, KVInv
<1>9. CASE DelaysFree(r)
  <2>1. m' = m
    BY <1>1, <1>9
  <2>2. OthersKeep(m, m', r) /\ Hashes(m')
    BY <1>8, <2>1, SameOthers
  <2>3. PICK s, t, s1, rq1, h : /\ s = loop.scheduled /\ t = m.req_to_blocks /\ s1 = loop'.scheduled
                                /\ rq1 = req' /\ h = m.pool.hash
    OBVIOUS
  <2>4. m'.req_to_blocks = t /\ m'.pool.hash = h
    BY <2>1, <2>3
  <2>5. PendingStays(s, req, t, s1, rq1, t)
    BY <1>5, <2>3, <2>4
  <2>6. FillsCache(kv, s1, rq1, t, h)
    <3>1. FillsCache(kv, s, req, t, h) /\ \A b \in Blocks : h[b] = h[b] \/ h[b] = NoHash
      BY <1>8, <2>3
    <3> QED BY <2>5, <3>1, CacheStays
  <2>7. FillsTable(kv, s1, rq1, t, 0, r)
    <3>1. PICK n : n = Valid(req[r], load[r])
      OBVIOUS
    <3>2. FillsTable(kv, s, req, t, n, r)
      BY <1>8, <2>3, <3>1
    <3>3. n \in Nat /\ 0 \in Nat /\ 0 <= n
      BY <3>2 DEF FillsTable
    <3>4. t[r] \in Seq(Blocks) /\ Len(t[r]) \in Nat /\ Len(t[r]) <= Len(t[r])
      BY <1>0, <2>3 DEF ManagerInv
    <3> QED BY <2>5, <3>2, <3>3, <3>4, TableStays
  <2>8. LoadRoom(req'[r], load'[r], m'.req_to_blocks[r])
    BY <1>2, <1>3, <1>8, <2>1 DEF LoadRoom
  <2>9. FillsCache(kv, loop'.scheduled, req', m'.req_to_blocks, m'.pool.hash)
    BY <2>3, <2>4, <2>6
  <2>10. FillsTable(kv, loop'.scheduled, req', m'.req_to_blocks, Valid(req'[r], load'[r]), r)
    BY <1>6, <2>3, <2>4, <2>7
  <2> QED BY <1>0, <1>2, <1>4, <1>5, <1>7, <2>2, <2>8, <2>9, <2>10, OneKV
<1>10. CASE ~ DelaysFree(r)
  <2>1. load'[r].state # "transfer"
    BY <1>3, <1>8, <1>10 DEF LoadedBy, DelaysFree, Loading, Known
  <2>2. OthersKeep(m, m, r) /\ Emptied(m, m', r)
    BY <1>0, <1>1, <1>10, FreeRequestManager DEF OthersKeep
  <2> QED BY <1>0, <1>2, <1>4, <1>5, <1>6, <1>7, <1>8, <2>1, <2>2, EmptiedKV
<1> QED BY <1>9, <1>10

LEMMA KVLoadFinished ==
  ASSUME QueueInv, TokenInv, BlockInv, KVInv, NEW r \in Reqs, UpdateLoadFinished(r)
  PROVE  KVInv'
<1>0. DOMAIN load = Reqs /\ DOMAIN load[r] = LoadFields /\ ManagerInv(m, deferred_frees)
  BY DEF QueueInv, Fields, BlockInv
<1>1. /\ pc = "update" /\ UNCHANGED <<pc, req, loop, kv>> /\ load[r].state = "arrived"
      /\ IF Loading(r)
         THEN /\ load' = [load EXCEPT ![r].state = "finished"]
              /\ UNCHANGED <<m, deferred_frees>>
         ELSE /\ load' = [load EXCEPT ![r] = NoLoad]
              /\ FreeRequestBlocks(m, r)
  BY DEF UpdateLoadFinished
<1>2. \A q \in Reqs : q # r => req'[q] = req[q] /\ load'[q] = load[q]
  BY <1>0, <1>1
<1>3. /\ loop.scheduled = << >> /\ loop'.scheduled = << >> /\ Hashes(m) /\ TakenBack
      /\ FillsCache(kv, loop.scheduled, req, m.req_to_blocks, m.pool.hash)
      /\ LoadedBy(req[r], load[r], m.req_to_blocks[r], m.num_cached_block[r])
  BY <1>1 DEF KVInv, LoopStates, BlockInv, LoadsInv
<1>4. CASE Loading(r)
  <2>1. m' = m /\ load'[r].state = "finished"
    BY <1>0, <1>1, <1>4 DEF LoadFields
  <2>2. ASSUME NEW q \in Reqs
        PROVE  /\ Valid(req'[q], load'[q]) = Valid(req[q], load[q])
               /\ LoadRoom(req'[q], load'[q], m.req_to_blocks[q])
    <3>1. CASE q = r
      <4>1. req[r].status = "WAITING_FOR_REMOTE_KVS"
        BY <1>4 DEF Loading
      <4>2. load[r].invalid > 0 => req[r].num_computed_tokens = (load[r].invalid - 1) * block_size
        BY <1>1, <1>3, <1>4 DEF TakenBack, Invalid, ValidTokens
      <4>3. Valid(req[r], load[r]) = req[r].num_computed_tokens
        BY <1>1, <4>1, <4>2 DEF Valid
      <4>4. Valid(req'[r], load'[r]) = req[r].num_computed_tokens
        BY <1>1, <2>1, <4>1 DEF Valid
      <4>5. LoadRoom(req'[r], load'[r], m.req_to_blocks[r])
        BY <2>1 DEF LoadRoom
      <4> QED BY <3>1, <4>3, <4>4, <4>5
    <3>2. CASE q # r
      <4>1. LoadRoom(req[q], load[q], m.req_to_blocks[q])
        BY DEF KVInv
      <4> QED BY <1>2, <3>2, <4>1
    <3> QED BY <3>1, <3>2
  <2>3. TakenBack'
    <3>1. ~ Invalid(r)'
      BY <2>1 DEF Invalid
    <3> QED BY <1>1, <1>2, <1>3, <3>1, TakenOthers
  <2>4. /\ m'.req_to_blocks = m.req_to_blocks /\ m'.num_cached_block = m.num_cached_block
        /\ m'.pool.hash = m.pool.hash /\ kv' = kv
    BY <1>1, <2>1
  <2>5. \A i \in DOMAIN loop.scheduled :
           req'[loop.scheduled[i][1]].num_computed_tokens
             = req[loop.scheduled[i][1]].num_computed_tokens
    BY <1>3
  <2> QED BY <1>0, <1>3, <2>2, <2>3, <2>4, <2>5, CalmKV
<1>5. CASE ~ Loading(r)
  <2>1. load'[r] = NoLoad /\ FreeRequestBlocks(m, r)
    BY <1>0, <1>1, <1>5
  <2>2. load'[r].state = "none" /\ req'[r].status = "FINISHED"
    BY <1>1, <1>3, <1>5, <2>1 DEF NoLoad, LoadedBy, Loading
  <2>3. Valid(req'[r], load'[r]) = 0 /\ ~ Invalid(r)'
    BY <2>2 DEF Valid, Invalid
  <2>4. TakenBack'
    BY <1>1, <1>2, <1>3, <2>3, TakenOthers
  <2>5. OthersKeep(m, m, r) /\ Emptied(m, m', r)
    BY <1>0, <2>1, FreeRequestManager DEF OthersKeep
  <2>6. PendingStays(loop.scheduled, req, m.req_to_blocks, loop'.scheduled, req', m'.req_to_blocks)
    BY <1>3, NothingPending
  <2> QED BY <1>0, <1>1, <1>2, <1>3, <2>2, <2>3, <2>4, <2>5, <2>6, EmptiedKV
<1> QED BY <1>4, <1>5

LEMMA KVAdd ==
  ASSUME QueueInv, TokenInv, BlockInv, KVInv, NEW r \in Reqs, add_request(r)
  PROVE  KVInv'
<1>1. /\ UNCHANGED <<m, load, pc, loop, kv>> /\ pc = "idle"
      /\ req[r].status = "ABSENT" /\ req' = [req EXCEPT ![r] = NewRequest(r)]
  BY DEF add_request, BetweenSteps
<1>2. req'[r] = NewRequest(r) /\ \A q \in Reqs : q # r => req'[q] = req[q] /\ load'[q] = load[q]
  <2>1. DOMAIN req = Reqs
    BY DEF QueueInv, Fields
  <2> QED BY <1>1, <2>1
<1>3. req'[r].status = "WAITING" /\ req'[r].num_computed_tokens = 0
  BY <1>2 DEF NewRequest
<1>4. load'[r].state # "transfer"
  <2>1. LoadedBy(req[r], load[r], m.req_to_blocks[r], m.num_cached_block[r])
    BY DEF BlockInv, LoadsInv
  <2> QED BY <1>1, <2>1 DEF LoadedBy
<1>5. ASSUME NEW q \in Reqs
      PROVE  /\ Valid(req'[q], load'[q]) = Valid(req[q], load[q])
             /\ LoadRoom(req'[q], load'[q], m.req_to_blocks[q])
  <2>1. CASE q = r
    BY <1>1, <1>3, <1>4, <2>1 DEF Valid, LoadRoom
  <2>2. CASE q # r
    <3>1. LoadRoom(req[q], load[q], m.req_to_blocks[q])
      BY DEF KVInv
    <3> QED BY <1>2, <2>2, <3>1
  <2> QED BY <2>1, <2>2
<1>6. loop.scheduled = << >> /\ loop'.scheduled = << >> /\ TakenBack'
  BY <1>1 DEF KVInv, LoopStates, TakenBack
<1>7. /\ m'.req_to_blocks = m.req_to_blocks /\ m'.num_cached_block = m.num_cached_block
      /\ m'.pool.hash = m.pool.hash /\ kv' = kv
  BY <1>1
<1>8. \A i \in DOMAIN loop.scheduled :
         req'[loop.scheduled[i][1]].num_computed_tokens
           = req[loop.scheduled[i][1]].num_computed_tokens
  BY <1>6
<1>9. ManagerInv(m, deferred_frees)
  BY DEF BlockInv
<1> QED BY <1>5, <1>6, <1>7, <1>8, <1>9, CalmKV

LEMMA KVResetEnd ==
  ASSUME QueueInv, TokenInv, BlockInv, KVInv, ResetEnd
  PROVE  KVInv'
<1>1. /\ UNCHANGED <<load, req, loop, kv>> /\ pc \notin LoopStates /\ pc' # "update"
      /\ m' = IF CanReset(m.pool) THEN [m EXCEPT !.pool = reset_prefix_cache(@)] ELSE m
  BY DEF ResetEnd, LoopStates
<1>2. /\ ManagerInv(m, deferred_frees) /\ DOMAIN m = ManagerFields /\ Hashes(m)
      /\ loop.scheduled = << >> /\ loop'.scheduled = << >>
  BY <1>1 DEF BlockInv, ManagerInv, KVInv
<1>3. /\ m'.req_to_blocks = m.req_to_blocks /\ Hashes(m')
      /\ \A b \in Blocks : m'.pool.hash[b] = m.pool.hash[b] \/ m'.pool.hash[b] = NoHash
  <2>1. CASE CanReset(m.pool)
    <3>1. m' = [m EXCEPT !.pool = reset_prefix_cache(@)]
      BY <1>1, <2>1
    <3>2. m'.req_to_blocks = m.req_to_blocks
      BY <1>2, <3>1 DEF ManagerFields
    <3>3. Hashes(m') /\ \A b \in Blocks : m'.pool.hash[b] = NoHash
      BY <1>2, <2>1, <3>1, ResetHashes
    <3> QED BY <3>2, <3>3
  <2>2. CASE ~ CanReset(m.pool)
    BY <1>1, <1>2, <2>2
  <2> QED BY <2>1, <2>2
<1>4. \A r \in Reqs : /\ Valid(req'[r], load'[r]) = Valid(req[r], load[r])
                      /\ LoadRoom(req'[r], load'[r], m.req_to_blocks[r])
  BY <1>1 DEF KVInv
<1>5. TakenBack'
  BY <1>1 DEF TakenBack
<1>6. \A i \in DOMAIN loop.scheduled :
         req'[loop.scheduled[i][1]].num_computed_tokens
           = req[loop.scheduled[i][1]].num_computed_tokens
  BY <1>2
<1> QED BY <1>1, <1>2, <1>3, <1>4, <1>5, <1>6, FewerKV

\* Request r is scheduled too, with n tokens behind the c that are there.
LEMMA ScheduledKV ==
  ASSUME TokenInv, KVInv, ManagerInv(m, deferred_frees), kv' = kv,
         NEW r \in Reqs, NEW c \in Nat, NEW n \in Nat, n >= 1,
         pc' \in LoopStates, loop'.scheduled = Append(loop.scheduled, <<r, n>>),
         \A i \in DOMAIN loop.scheduled : loop.scheduled[i][1] # r,
         \A q \in Reqs : q # r => req'[q] = req[q] /\ load'[q] = load[q],
         req'[r].status = "RUNNING", req'[r].num_computed_tokens = c,
         load'[r].state # "transfer",
         OthersKeep(m, m', r), Hashes(m'), NewNames(m, m', r, c + n),
         m'.req_to_blocks[r] \in Seq(Blocks),
         c + n <= Len(m'.req_to_blocks[r]) * block_size,
         \A p \in 1 .. c : Filled(kv, loop.scheduled, req, m.req_to_blocks,
                                  m'.req_to_blocks[r][Blk(p)], Slot(p), PrefixId[r][p])
  PROVE  KVInv'
<1>0. block_size \in Nat /\ block_size >= 1
  BY ConstantFacts
<1>1. PICK s, t, s1, rq1, t1 : /\ s = loop.scheduled /\ t = m.req_to_blocks /\ s1 = loop'.scheduled
                               /\ rq1 = req' /\ t1 = m'.req_to_blocks
  OBVIOUS
<1>2. s \in Seq(Reqs \X (Nat \ {0})) /\ s1 = Append(s, <<r, n>>)
  BY <1>1 DEF TokenInv, LoopInv
<1>3. ASSUME NEW i \in DOMAIN s
      PROVE  /\ rq1[s[i][1]].num_computed_tokens = req[s[i][1]].num_computed_tokens
             /\ t1[s[i][1]] = t[s[i][1]]
  <2>1. s[i] \in Reqs \X (Nat \ {0})
    BY <1>2
  <2>2. PICK q : q = s[i][1]
    OBVIOUS
  <2>3. q \in Reqs /\ q # r
    BY <1>1, <2>1, <2>2
  <2>4. req'[q] = req[q] /\ m'.req_to_blocks[q] = m.req_to_blocks[q]
    BY <2>3 DEF OthersKeep
  <2> QED BY <1>1, <2>2, <2>4
<1>4. /\ PendingStays(s, req, t, s1, rq1, t1)
      /\ \A p \in (rq1[r].num_computed_tokens + 1) .. (rq1[r].num_computed_tokens + n) :
           Pending(s1, rq1, t1, t1[r][Blk(p)], Slot(p))
  BY <1>2, <1>3, PendingMore
<1>5. rq1[r].num_computed_tokens = c /\ t1[r] \in Seq(Blocks) /\ Len(t1[r]) \in Nat
  BY <1>1
<1>6. PICK z \in Nat : z = Len(t1[r]) * block_size
  <2>1. Len(t1[r]) * block_size \in Nat
    BY <1>0, <1>5
  <2> QED BY <2>1
<1>7. c + n <= z
  BY <1>1, <1>6
<1>8. ASSUME NEW p \in 1 .. (c + n)
      PROVE  Filled(kv, s1, rq1, t1, t1[r][Blk(p)], Slot(p), PrefixId[r][p])
  <2>1. p \in Nat /\ p >= 1 /\ p <= Len(t1[r]) * block_size
    BY <1>6, <1>7
  <2>2. Slot(p) \in 1 .. block_size /\ Blk(p) \in 1 .. Len(t1[r])
    <3>1. Slot(p) \in 1 .. block_size /\ Blk(p) \in Nat /\ Blk(p) >= 1
      BY <2>1, PlaceIs
    <3>2. Blk(p) <= Len(t1[r])
      BY <1>5, <2>1, BlkWithin
    <3> QED BY <1>5, <3>1, <3>2
  <2>3. CASE p <= c
    <3>1. p \in 1 .. c
      BY <2>1, <2>3
    <3>2. Filled(kv, s, req, t, t1[r][Blk(p)], Slot(p), PrefixId[r][p])
      BY <1>1, <3>1
    <3>3. t1[r][Blk(p)] \in Blocks
      BY <1>5, <2>2
    <3> QED BY <1>4, <2>2, <3>2, <3>3, FilledStays
  <2>4. CASE ~ (p <= c)
    <3>1. p \in (c + 1) .. (c + n)
      BY <2>1, <2>4
    <3>2. Pending(s1, rq1, t1, t1[r][Blk(p)], Slot(p))
      BY <1>4, <1>5, <3>1
    <3> QED BY <3>2 DEF Filled
  <2> QED BY <2>3, <2>4
<1>9. PICK x \in Nat : x = c + n /\ c <= x
  OBVIOUS
<1>10. FillsTable(kv, s1, rq1, t1, x, r) /\ FillsTable(kv, s1, rq1, t1, c, r)
  <2>1. \A p \in 1 .. x : Filled(kv, s1, rq1, t1, t1[r][Blk(p)], Slot(p), PrefixId[r][p])
    BY <1>8, <1>9
  <2>2. \A p \in 1 .. c : p \in 1 .. x
    BY <1>9
  <2>3. c <= z /\ x <= z
    BY <1>7, <1>9
  <2> QED BY <1>6, <2>1, <2>2, <2>3 DEF FillsTable
<1>11. FillsCache(kv, s1, rq1, t1, m'.pool.hash)
  <2>1. FillsCache(kv, s, req, m.req_to_blocks, m.pool.hash)
    BY <1>1 DEF KVInv
  <2>2. PICK k1 : k1 = m'
    OBVIOUS
  <2>3. /\ PendingStays(s, req, m.req_to_blocks, s1, rq1, k1.req_to_blocks)
        /\ NewNames(m, k1, r, x) /\ FillsTable(kv, s1, rq1, k1.req_to_blocks, x, r)
        /\ Len(k1.req_to_blocks[r]) \in Nat
    BY <1>1, <1>4, <1>5, <1>9, <1>10, <2>2
  <2>4. FillsCache(kv, s1, rq1, k1.req_to_blocks, k1.pool.hash)
    BY <2>1, <2>3, CacheGrows
  <2> QED BY <1>1, <2>2, <2>4
<1>12. Valid(req'[r], load'[r]) = c /\ LoadRoom(req'[r], load'[r], m'.req_to_blocks[r])
  BY DEF Valid, LoadRoom
<1>13. TakenBack'
  BY DEF TakenBack, LoopStates
<1>14. PendingStays(loop.scheduled, req, m.req_to_blocks,
                    loop'.scheduled, req', m'.req_to_blocks)
  BY <1>1, <1>4
<1>15. FillsCache(kv, loop'.scheduled, req', m'.req_to_blocks, m'.pool.hash)
  BY <1>1, <1>11
<1>16. FillsTable(kv, loop'.scheduled, req', m'.req_to_blocks, Valid(req'[r], load'[r]), r)
  BY <1>1, <1>10, <1>12
<1> QED BY <1>12, <1>13, <1>14, <1>15, <1>16, OneKV

LEMMA KVRunningAllocate ==
  ASSUME QueueInv, TokenInv, BlockInv, KVInv, RunningAllocate
  PROVE  KVInv'
<1>0. LoopInv /\ DOMAIN loop = LoopFields /\ ManagerInv(m, deferred_frees) /\ Hashes(m)
  BY DEF TokenInv, QueueInv, Fields, BlockInv, KVInv
<1>1. PICK r, n, c, N : /\ r = loop.request /\ n = loop.num_new
                        /\ c = req[r].num_computed_tokens /\ N = req[r].num_tokens
  OBVIOUS
<1>2. /\ pc = "allocate" /\ pc' = "running" /\ UNCHANGED <<req, load, kv>>
      /\ num_blocks_to_allocate(m, r, c + n, << >>) <= get_num_free_blocks(m.pool)
      /\ m' = allocate_slots(m, r, << >>, c, n, N)
      /\ loop' = [loop EXCEPT !.index = @ + 1, !.budget = @ - n,
                              !.scheduled = Append(@, <<r, n>>)]
  BY <1>1 DEF RunningAllocate, Fits
<1>3. /\ loop.index \in DOMAIN running /\ r = running[loop.index]
      /\ n \in Nat /\ n >= 1
  BY <1>0, <1>1, <1>2 DEF LoopInv
<1>4. r \in Reqs /\ req[r].status = "RUNNING"
  BY <1>3, RunningAre
<1>5. Numbers(req[r]) /\ N < MaxLen(r)
  BY <1>1, <1>4, KnownTokens
<1>6. c \in Nat /\ N \in Nat /\ N <= MaxLen(r)
  BY <1>1, <1>4, <1>5, MaxLenNat DEF Numbers
<1>7. PICK k1, hits : k1 = m' /\ hits = << >>
  OBVIOUS
<1>8. HitsOk(m, r, hits) /\ HitsNamed(m, r, hits)
  <2>1. HitsOk(m, r, hits)
    BY <1>7, NoHitsFit
  <2>2. Len(hits) = 0 /\ 0 * block_size <= MaxLen(r)
    BY <1>4, <1>7, MaxLenNat, ConstantFacts
  <2> QED BY <2>1, <2>2 DEF HitsNamed
<1>9. /\ ManagerInv(k1, deferred_frees) /\ OthersKeep(m, k1, r)
      /\ Len(k1.req_to_blocks[r]) \in Nat
      /\ c + n <= Len(k1.req_to_blocks[r]) * block_size
  BY <1>0, <1>2, <1>3, <1>4, <1>6, <1>7, <1>8, SlotsManager
<1>10. Hashes(k1) /\ Grows(m, k1, r, hits) /\ NewNames(m, k1, r, c + n)
  BY <1>0, <1>2, <1>3, <1>4, <1>6, <1>7, <1>8, SlotsHashes
<1>11. loop'.scheduled = Append(loop.scheduled, <<r, n>>)
  BY <1>0, <1>2 DEF LoopFields
<1>12. ASSUME NEW i \in DOMAIN loop.scheduled
       PROVE  loop.scheduled[i][1] # r
  <2>1. PICK j \in DOMAIN running : j < loop.index /\ running[j] = loop.scheduled[i][1]
    BY <1>0, <1>2 DEF LoopInv
  <2>2. j # loop.index
    BY <1>3, <2>1, RunningAre
  <2> QED BY <1>3, <2>1, <2>2, RunningAre
<1>13. k1.req_to_blocks[r] \in Seq(Blocks) /\ m.req_to_blocks[r] \in Seq(Blocks)
  BY <1>0, <1>4, <1>9 DEF ManagerInv
<1>14. ASSUME NEW p \in 1 .. c
       PROVE  Filled(kv, loop.scheduled, req, m.req_to_blocks,
                     k1.req_to_blocks[r][Blk(p)], Slot(p), PrefixId[r][p])
  <2>1. PICK t, s : t = m.req_to_blocks /\ s = loop.scheduled
    OBVIOUS
  <2>2. FillsTable(kv, s, req, t, c, r)
    <3>1. Valid(req[r], load[r]) = c
      BY <1>1, <1>4 DEF Valid
    <3> QED BY <1>4, <2>1, <3>1 DEF KVInv
  <2>3. Filled(kv, s, req, t, t[r][Blk(p)], Slot(p), PrefixId[r][p])
    BY <2>2 DEF FillsTable
  <2>4. p \in Nat /\ p >= 1 /\ p <= Len(m.req_to_blocks[r]) * block_size
    <3>1. c <= Len(t[r]) * block_size
      BY <2>2 DEF FillsTable
    <3>2. PICK z \in Nat : z = Len(t[r]) * block_size
      BY <1>13, <2>1, ConstantFacts
    <3> QED BY <1>6, <2>1, <3>1, <3>2
  <2>5. Blk(p) \in 1 .. Len(m.req_to_blocks[r])
    BY <1>0, <1>4, <2>4, TablePlace
  <2>6. k1.req_to_blocks[r][Blk(p)] = t[r][Blk(p)]
    BY <1>10, <2>1, <2>5 DEF Grows
  <2> QED BY <2>1, <2>3, <2>6
<1>15. pc' \in LoopStates /\ req'[r].status = "RUNNING" /\ req'[r].num_computed_tokens = c
       /\ kv' = kv
  BY <1>1, <1>2, <1>4 DEF LoopStates
<1>16. load'[r].state # "transfer"
  <2>1. LoadedBy(req[r], load[r], m.req_to_blocks[r], m.num_cached_block[r])
    BY <1>4 DEF BlockInv, LoadsInv
  <2> QED BY <1>2, <1>4, <2>1 DEF LoadedBy
<1>17. \A q \in Reqs : q # r => req'[q] = req[q] /\ load'[q] = load[q]
  BY <1>2
<1>18. /\ OthersKeep(m, m', r) /\ Hashes(m') /\ NewNames(m, m', r, c + n)
       /\ m'.req_to_blocks[r] \in Seq(Blocks)
       /\ c + n <= Len(m'.req_to_blocks[r]) * block_size
       /\ \A p \in 1 .. c : Filled(kv, loop.scheduled, req, m.req_to_blocks,
                                   m'.req_to_blocks[r][Blk(p)], Slot(p), PrefixId[r][p])
  BY <1>7, <1>9, <1>10, <1>13, <1>14
<1> QED BY <1>0, <1>3, <1>4, <1>6, <1>11, <1>12, <1>15, <1>16, <1>17, <1>18, ScheduledKV

\* The hits of a lookup are cached blocks of the request's prefixes.
LEMMA HitsNamedBy ==
  ASSUME NEW d, ManagerInv(m, d), NEW r \in Reqs, Numbers(req[r]), req[r].num_tokens < MaxLen(r),
         NEW hits \in Hits(r)
  PROVE  HitsNamed(m, r, hits)
<1>0. /\ block_size \in Nat /\ block_size >= 1 /\ MaxLen(r) \in Nat
      /\ req[r].num_tokens \in Nat /\ req[r].num_tokens >= 1 /\ req[r].num_computed_tokens \in Nat
  BY ConstantFacts, MaxLenNat DEF Numbers
<1>1. /\ hits \in Seq(Blocks) /\ Len(hits) \in Nat
      /\ Len(hits) * block_size <= req[r].num_tokens - 1
      /\ \A i \in 1 .. Len(hits) : hits[i] \in get_cached_block(m.pool, BlockHash(r, i))
  BY <1>0, HitsAre
<1>2. Len(hits) * block_size <= MaxLen(r)
  <2>1. PICK z \in Nat : z = Len(hits) * block_size
    <3>1. Len(hits) * block_size \in Nat
      BY <1>0, <1>1
    <3> QED BY <3>1
  <2> QED BY <1>0, <1>1, <2>1
<1>3. PoolInv(m.pool)
  BY DEF ManagerInv
<1>4. ASSUME NEW i \in 1 .. Len(hits) PROVE m.pool.hash[hits[i]] = BlockHash(r, i)
  <2>1. hits[i] \in get_cached_block(m.pool, BlockHash(r, i))
    BY <1>1
  <2> QED BY <1>3, <2>1, CachedIs
<1> QED BY <1>2, <1>4 DEF HitsNamed

\* The tokens of the hits, or of the table that a load left, are there.
LEMMA HitsFilled ==
  ASSUME QueueInv, TokenInv, BlockInv, KVInv, pc = "waiting", CanAdmit,
         NEW r, r = NextWaiting, Ready(r), NEW hits \in Hits(r), HitsOk(m, r, hits),
         NEW k1, Grows(m, k1, r, hits), NEW p \in 1 .. NumComputed(r, hits)
  PROVE  Filled(kv, loop.scheduled, req, m.req_to_blocks,
                k1.req_to_blocks[r][Blk(p)], Slot(p), PrefixId[r][p])
<1>0. /\ r \in Reqs /\ Numbers(req[r]) /\ req[r].num_tokens < MaxLen(r)
      /\ ManagerInv(m, deferred_frees) /\ r \in Known
  BY NextIs DEF Accounted, BlockInv
<1>1. PICK t, s, c : /\ t = m.req_to_blocks /\ s = loop.scheduled
                     /\ c = req[r].num_computed_tokens
  OBVIOUS
<1>2. /\ block_size \in Nat /\ block_size >= 1 /\ c \in Nat /\ t[r] \in Seq(Blocks)
      /\ Len(t[r]) \in Nat
  BY <1>0, <1>1, ConstantFacts DEF Numbers, ManagerInv
<1>3. /\ hits \in Seq(Blocks) /\ Len(hits) \in Nat /\ (c # 0 => hits = << >>)
  BY <1>0, <1>1, HitsAre DEF Numbers
<1>4. HitsNamed(m, r, hits)
  BY <1>0, HitsNamedBy
<1>5. NumComputed(r, hits) = c + Len(hits) * block_size
  BY <1>1 DEF NumComputed
<1>6. PICK z \in Nat : z = Len(hits) * block_size
  <2>1. Len(hits) * block_size \in Nat
    BY <1>2, <1>3
  <2> QED BY <2>1
<1>7. p \in Nat /\ p >= 1 /\ p <= c + z
  BY <1>2, <1>5, <1>6
<1>8. CASE hits = << >>
  <2>1. z = 0
    BY <1>2, <1>6, <1>8
  <2>2. FillsTable(kv, s, req, t, c, r)
    <3>1. Valid(req[r], load[r]) = c
      BY <1>0, <1>1 DEF Valid, Ready, Loading, Known
    <3> QED BY <1>0, <1>1, <3>1 DEF KVInv
  <2>3. p \in 1 .. c
    BY <1>2, <1>7, <2>1
  <2>4. Filled(kv, s, req, t, t[r][Blk(p)], Slot(p), PrefixId[r][p])
    BY <2>2, <2>3 DEF FillsTable
  <2>5. p <= Len(m.req_to_blocks[r]) * block_size
    <3>1. c <= Len(t[r]) * block_size
      BY <2>2 DEF FillsTable
    <3>2. PICK y \in Nat : y = Len(t[r]) * block_size
      BY <1>2
    <3> QED BY <1>1, <1>2, <2>3, <3>1, <3>2
  <2>6. Blk(p) \in 1 .. Len(m.req_to_blocks[r])
    BY <1>0, <1>7, <2>5, TablePlace
  <2>7. k1.req_to_blocks[r][Blk(p)] = t[r][Blk(p)]
    BY <1>1, <2>6 DEF Grows
  <2> QED BY <1>1, <2>4, <2>7
<1>9. CASE hits # << >>
  <2>1. c = 0 /\ m.req_to_blocks[r] = << >>
    BY <1>3, <1>9 DEF HitsOk
  <2>2. p <= Len(hits) * block_size
    BY <1>6, <1>7, <2>1
  <2>3. Blk(p) \in Nat /\ Blk(p) >= 1
    BY <1>7, PlaceIs
  <2>4. Blk(p) <= Len(hits)
    BY <1>3, <1>7, <2>2, BlkWithin
  <2>5. Blk(p) \in 1 .. Len(hits)
    BY <1>3, <2>3, <2>4
  <2>6. PICK b : b = hits[Blk(p)]
    OBVIOUS
  <2>7. b \in Blocks /\ k1.req_to_blocks[r][Blk(p)] = b /\ m.pool.hash[b] = BlockHash(r, Blk(p))
    BY <1>3, <1>4, <2>1, <2>5, <2>6 DEF Grows, HitsNamed
  <2>8. Blk(p) * block_size <= MaxLen(r)
    <3>1. Blk(p) * block_size <= Len(hits) * block_size
      BY <1>2, <1>3, <2>3, <2>4, TimesMonotone
    <3>2. PICK y \in Nat : y = Blk(p) * block_size
      BY <1>2, <2>3
    <3>3. z <= MaxLen(r) /\ MaxLen(r) \in Nat
      BY <1>0, <1>4, <1>6, MaxLenNat DEF HitsNamed
    <3> QED BY <1>6, <3>1, <3>2, <3>3
  <2>9. FillsCache(kv, s, req, t, m.pool.hash)
    BY <1>1 DEF KVInv
  <2>10. Filled(kv, s, req, t, b, Slot(p), PrefixId[r][p])
    BY <1>0, <1>7, <2>7, <2>8, <2>9 DEF FillsCache
  <2> QED BY <1>1, <2>7, <2>10
<1> QED BY <1>8, <1>9

LEMMA KVAdmit ==
  ASSUME QueueInv, TokenInv, BlockInv, KVInv, WaitingAdmit
  PROVE  KVInv'
<1>0. /\ LoopInv /\ ManagerInv(m, deferred_frees) /\ DOMAIN req = Reqs
      /\ DOMAIN loop = LoopFields /\ Hashes(m)
  BY DEF TokenInv, QueueInv, Fields, BlockInv, KVInv
<1>1. PICK r : r = NextWaiting
  OBVIOUS
<1>2. PICK hits \in Hits(r) :
        LET computed == NumComputed(r, hits)
            num_new == Chunk(req[r].num_tokens - computed)
        IN /\ AdmissionFits(r, hits)
           /\ m' = allocate_slots(m, r, hits, computed, num_new, req[r].num_tokens)
           /\ req' = [req EXCEPT
               ![r].status = "RUNNING", ![r].num_computed_tokens = computed,
               ![r].prefilling = @ \/ computed + num_new < req[r].num_tokens]
           /\ loop' = [loop EXCEPT !.budget = @ - num_new,
                                   !.scheduled = Append(@, <<r, num_new>>)]
  BY <1>1 DEF WaitingAdmit
<1>3. /\ pc = "waiting" /\ CanAdmit /\ Ready(r) /\ pc' = pc /\ UNCHANGED <<load, kv>>
  BY <1>1 DEF WaitingAdmit
<1>4. PICK k, n, N : k = NumComputed(r, hits) /\ N = req[r].num_tokens /\ n = Chunk(N - k)
  OBVIOUS
<1>5. /\ m' = allocate_slots(m, r, hits, k, n, N)
      /\ req' = [req EXCEPT
           ![r].status = "RUNNING", ![r].num_computed_tokens = k,
           ![r].prefilling = @ \/ k + n < N]
      /\ loop' = [loop EXCEPT !.budget = @ - n, !.scheduled = Append(@, <<r, n>>)]
  BY <1>2, <1>4
<1>6. /\ r \in Reqs /\ r \in Known /\ Numbers(req[r]) /\ DOMAIN req[r] = RequestFields
      /\ req[r].status \in Waitable /\ N < MaxLen(r)
  BY <1>1, <1>3, <1>4, NextIs DEF Accounted
<1>7. k \in Nat /\ k < N /\ N \in Nat
  BY <1>1, <1>3, <1>4, ComputedIs
<1>8. n \in Nat /\ n >= 1 /\ n <= N - k
  <2>1. loop.budget \in Nat /\ loop.budget >= 1
    BY <1>0, <1>3 DEF LoopInv, CanAdmit
  <2>2. PICK w \in Nat : w = N - k /\ w >= 1
    BY <1>7
  <2> QED BY <1>4, <2>1, <2>2, ChunkIs
<1>9. HitsOk(m, r, hits)
  <2>1. HeldBy(req[r], m.req_to_blocks[r], m.num_cached_block[r])
    BY <1>6 DEF BlockInv, TablesInv
  <2>2. m.req_to_blocks[r] # << >> => req[r].num_computed_tokens > 0 \/ req[r].num_tokens = 1
    BY <1>3, <1>6, <2>1 DEF HeldBy, Ready, Loading
  <2> QED BY <1>0, <1>4, <1>6, <2>2, HitsFit
<1>10. num_blocks_to_allocate(m, r, k + n, hits) <= get_num_free_blocks(m.pool)
  <2>1. PICK w, a, b, f : /\ w = Watermark /\ a = num_blocks_to_allocate(m, r, k + n, hits)
                          /\ b = num_blocks_to_allocate(m, r, N, hits)
                          /\ f = get_num_free_blocks(m.pool)
    OBVIOUS
  <2>2. w \in Nat
    BY <2>1, SchedulerAssumption DEF Watermark
  <2>3. f \in Nat
    <3>1. m.pool.free \in Seq(Blocks)
      BY <1>0 DEF ManagerInv, PoolInv
    <3> QED BY <2>1, <3>1 DEF get_num_free_blocks
  <2>4. PICK x \in Nat : x = k + n
    BY <1>7, <1>8
  <2>5. x <= N
    BY <1>7, <1>8, <2>4
  <2>6. a \in Nat /\ b \in Nat /\ a <= b
    BY <1>0, <1>6, <1>7, <1>9, <2>1, <2>4, <2>5, NeedMonotone
  <2>7. (IF config.reserve_full_isl THEN b ELSE a) + w <= f
    BY <1>2, <1>4, <2>1 DEF AdmissionFits
  <2>8. a + w <= f
    BY <2>2, <2>3, <2>6, <2>7
  <2> QED BY <2>1, <2>2, <2>3, <2>6, <2>8
<1>11. PICK k1 : k1 = m'
  OBVIOUS
<1>12. HitsNamed(m, r, hits) /\ N <= MaxLen(r)
  BY <1>0, <1>4, <1>6, <1>7, HitsNamedBy, MaxLenNat
<1>13. /\ ManagerInv(k1, deferred_frees) /\ OthersKeep(m, k1, r)
       /\ Len(k1.req_to_blocks[r]) \in Nat
       /\ k + n <= Len(k1.req_to_blocks[r]) * block_size
  BY <1>0, <1>5, <1>6, <1>7, <1>8, <1>9, <1>10, <1>11, <1>12, SlotsManager
<1>14. Hashes(k1) /\ Grows(m, k1, r, hits) /\ NewNames(m, k1, r, k + n)
  BY <1>0, <1>5, <1>6, <1>7, <1>8, <1>9, <1>10, <1>11, <1>12, SlotsHashes
<1>15. /\ req'[r].status = "RUNNING" /\ req'[r].num_computed_tokens = k
       /\ \A p \in Reqs : p # r => req'[p] = req[p] /\ load'[p] = load[p]
  <2>1. PICK x : req' = [req EXCEPT ![r].status = "RUNNING", ![r].num_computed_tokens = k,
                                    ![r].prefilling = x]
    <3>1. PICK x : x = (req[r].prefilling \/ k + n < N)
      OBVIOUS
    <3> QED BY <1>0, <1>5, <1>6, <3>1
  <2> QED BY <1>0, <1>3, <1>6, <2>1 DEF RequestFields
<1>16. load'[r].state # "transfer"
  <2>1. LoadedBy(req[r], load[r], m.req_to_blocks[r], m.num_cached_block[r])
    BY <1>6 DEF BlockInv, LoadsInv
  <2>2. load[r].state \notin {"transfer", "arrived"}
    BY <1>3, <1>6, <2>1 DEF LoadedBy, Ready, Loading, Known
  <2> QED BY <1>3, <2>2
<1>17. loop'.scheduled = Append(loop.scheduled, <<r, n>>) /\ pc \in LoopStates
       /\ pc' \in LoopStates /\ kv' = kv
  BY <1>0, <1>3, <1>5 DEF LoopFields, LoopStates
<1>18. \A i \in DOMAIN loop.scheduled : loop.scheduled[i][1] # r
  BY <1>0, <1>6, <1>17 DEF LoopInv, Takes, Waitable, LoopStates
<1>19. k1.req_to_blocks[r] \in Seq(Blocks)
  BY <1>6, <1>13 DEF ManagerInv
<1>20. ASSUME NEW p \in 1 .. k
       PROVE  Filled(kv, loop.scheduled, req, m.req_to_blocks,
                     k1.req_to_blocks[r][Blk(p)], Slot(p), PrefixId[r][p])
  <2>1. p \in 1 .. NumComputed(r, hits)
    BY <1>4
  <2> QED BY <1>1, <1>2, <1>3, <1>9, <1>14, <2>1, HitsFilled
<1>21. /\ OthersKeep(m, m', r) /\ Hashes(m') /\ NewNames(m, m', r, k + n)
       /\ m'.req_to_blocks[r] \in Seq(Blocks)
       /\ k + n <= Len(m'.req_to_blocks[r]) * block_size
       /\ \A p \in 1 .. k : Filled(kv, loop.scheduled, req, m.req_to_blocks,
                                   m'.req_to_blocks[r][Blk(p)], Slot(p), PrefixId[r][p])
  BY <1>11, <1>13, <1>14, <1>19, <1>20
<1> QED BY <1>0, <1>6, <1>7, <1>8, <1>15, <1>16, <1>17, <1>18, <1>21, ScheduledKV

LEMMA KVLoad ==
  ASSUME QueueInv, TokenInv, BlockInv, KVInv, WaitingLoad
  PROVE  KVInv'
<1>0. /\ LoopInv /\ Hashes(m) /\ ManagerInv(m, deferred_frees) /\ DOMAIN req = Reqs
      /\ DOMAIN loop = LoopFields /\ DOMAIN load = Reqs /\ NumbersInv
  BY DEF TokenInv, QueueInv, Fields, BlockInv, KVInv
<1>1. PICK r : r = NextWaiting
  OBVIOUS
<1>2a. PICK hits \in Hits(r) : \E end \in Offers(r, NumComputed(r, hits)) :
        /\ LoadFits(r, hits, end)
        /\ m' = LoadAllocation(r, hits, end)
        /\ req' = [req EXCEPT ![r].status = "WAITING_FOR_REMOTE_KVS",
                              ![r].num_computed_tokens = end, ![r].prefilling = TRUE]
        /\ load' = [load EXCEPT ![r] =
             [NoLoad EXCEPT !.state = "transfer", !.first = NumComputed(r, hits),
                            !.blocks = ToSet(m'.req_to_blocks[r]) \ ToSet(hits),
                            !.steps = Len(in_flight) + 1, !.back = req[r].status]]
        /\ loop' = [loop EXCEPT !.skipped = <<r>> \o @]
  BY <1>1 DEF WaitingLoad
<1>2. PICK end \in Offers(r, NumComputed(r, hits)) :
        /\ LoadFits(r, hits, end)
        /\ m' = LoadAllocation(r, hits, end)
        /\ req' = [req EXCEPT ![r].status = "WAITING_FOR_REMOTE_KVS",
                              ![r].num_computed_tokens = end, ![r].prefilling = TRUE]
        /\ load' = [load EXCEPT ![r] =
             [NoLoad EXCEPT !.state = "transfer", !.first = NumComputed(r, hits),
                            !.blocks = ToSet(m'.req_to_blocks[r]) \ ToSet(hits),
                            !.steps = Len(in_flight) + 1, !.back = req[r].status]]
        /\ loop' = [loop EXCEPT !.skipped = <<r>> \o @]
  BY <1>2a
<1>3. /\ pc = "waiting" /\ CanAdmit /\ Ready(r) /\ pc' = pc /\ UNCHANGED kv
  BY <1>1 DEF WaitingLoad
<1>4. /\ r \in Reqs /\ r \in Known /\ Numbers(req[r]) /\ DOMAIN req[r] = RequestFields
      /\ req[r].status \in Waitable /\ req[r].num_tokens < MaxLen(r)
  BY <1>1, <1>3, NextIs DEF Accounted
<1>5. PICK k, N : k = NumComputed(r, hits) /\ N = req[r].num_tokens
  OBVIOUS
<1>6. k \in Nat /\ N \in Nat /\ N >= 1
  BY <1>1, <1>3, <1>4, <1>5, ComputedIs DEF Numbers
<1>7. /\ end \in Nat /\ k < end /\ req[r].num_computed_tokens = 0
  <2>1. end \in (k + 1) .. N /\ ~ (req[r].num_computed_tokens > 0)
    BY <1>2, <1>5 DEF Offers
  <2>2. req[r].num_computed_tokens \in Nat
    BY <1>4 DEF Numbers
  <2> QED BY <1>6, <2>1, <2>2
<1>8. PICK q, q1, t, t1, c, c1 :
        /\ q = req[r] /\ t = m.req_to_blocks[r] /\ c = m.num_cached_block[r]
        /\ q1 = req'[r] /\ t1 = m'.req_to_blocks[r] /\ c1 = m'.num_cached_block[r]
  OBVIOUS
<1>9. HeldBy(q, t, c) /\ LoadedBy(q, load[r], t, c)
  BY <1>4, <1>8 DEF BlockInv, TablesInv, LoadsInv
<1>10. t # << >> => N = 1 /\ (block_size > 1 => c = 0)
  BY <1>3, <1>4, <1>5, <1>7, <1>8, <1>9 DEF HeldBy, Ready, Loading
<1>11. HitsOk(m, r, hits)
  <2>1. m.req_to_blocks[r] # << >> => req[r].num_computed_tokens > 0 \/ req[r].num_tokens = 1
    BY <1>5, <1>8, <1>10
  <2> QED BY <1>0, <1>2a, <1>4, <2>1, HitsFit
<1>12. num_blocks_to_allocate(m, r, end, hits) <= get_num_free_blocks(m.pool)
  <2>1. PICK w, x, a, f : /\ w = Watermark /\ x = ReservedBlocks
                          /\ a = num_blocks_to_allocate(m, r, end, hits)
                          /\ f = get_num_free_blocks(m.pool)
    OBVIOUS
  <2>2. w \in Nat
    BY <2>1, SchedulerAssumption DEF Watermark
  <2>3. x \in Nat
    BY <1>0, <2>1, ReservedNat DEF NumbersInv
  <2>4. f \in Nat
    <3>1. m.pool.free \in Seq(Blocks)
      BY <1>0 DEF ManagerInv, PoolInv
    <3> QED BY <2>1, <3>1 DEF get_num_free_blocks
  <2>5. a \in Nat
    BY <1>0, <1>4, <1>7, <1>11, <2>1, NeedMonotone
  <2>6. a + w + x <= f
    BY <1>2, <2>1 DEF LoadFits
  <2> QED BY <2>1, <2>2, <2>3, <2>4, <2>5, <2>6
<1>13. PICK k1 : k1 = m'
  OBVIOUS
<1>14. ManagerInv(k1, deferred_frees) /\ Allocated(m, k1, r, hits, end)
  BY <1>0, <1>2, <1>4, <1>7, <1>11, <1>12, <1>13, AllocateManager DEF LoadAllocation
<1>15. /\ OthersKeep(m, m', r) /\ end <= Len(t1) * block_size
       /\ \E new \in Seq(Blocks) : t1 = Cat3(t, hits, new)
       /\ c1 = c + Len(hits)
  BY <1>8, <1>13, <1>14 DEF Allocated
<1>16. HitsNamed(m, r, hits)
  BY <1>0, <1>2a, <1>4, HitsNamedBy
<1>17. Hashes(k1) /\ Grows(m, k1, r, hits) /\ Forgets(m, k1, hits)
  <2>1. Forgets(m, k1, hits)
    BY <1>14 DEF Allocated
  <2> QED BY <1>0, <1>4, <1>11, <1>14, <1>16, <2>1, AllocateHashes
<1>18. /\ req'[r].status = "WAITING_FOR_REMOTE_KVS" /\ req'[r].num_computed_tokens = end
       /\ load'[r].state = "transfer" /\ load'[r].first = k
  BY <1>0, <1>2, <1>4, <1>5 DEF RequestFields, NoLoad
<1>19. \A p \in Reqs : p # r => req'[p] = req[p] /\ load'[p] = load[p]
  BY <1>0, <1>2, <1>4
<1>20. loop'.scheduled = loop.scheduled /\ pc' \in LoopStates /\ pc \in LoopStates
  BY <1>0, <1>2, <1>3 DEF LoopFields, LoopStates
<1>21. PICK s, T, T1, rq1, h, h1 :
         /\ s = loop.scheduled /\ T = m.req_to_blocks /\ T1 = m'.req_to_blocks
         /\ rq1 = req' /\ h = m.pool.hash /\ h1 = m'.pool.hash
  OBVIOUS
<1>22. ASSUME NEW i \in DOMAIN s
       PROVE  /\ rq1[s[i][1]].num_computed_tokens = req[s[i][1]].num_computed_tokens
              /\ T1[s[i][1]] = T[s[i][1]]
  <2>1. s[i][1] # r /\ s[i][1] \in Reqs
    <3>1. s \in Seq(Reqs \X (Nat \ {0})) /\ Takes(req[s[i][1]], s[i][2])
      BY <1>0, <1>20, <1>21 DEF LoopInv, LoopStates
    <3>2. s[i] \in Reqs \X (Nat \ {0})
      BY <3>1
    <3> QED BY <1>4, <3>1, <3>2 DEF Takes, Waitable
  <2> QED BY <1>15, <1>19, <1>21, <2>1 DEF OthersKeep
<1>23. PendingStays(s, req, T, s, rq1, T1)
  BY <1>22, PendingSame
<1>24. FillsCache(kv, s, rq1, T1, h1)
  <2>1. FillsCache(kv, s, req, T, h)
    BY <1>21 DEF KVInv
  <2>2. \A b \in Blocks : h1[b] = h[b] \/ h1[b] = NoHash
    BY <1>13, <1>17, <1>21 DEF Forgets
  <2> QED BY <1>23, <2>1, <2>2, CacheStays
<1>25. T1[r] \in Seq(Blocks) /\ Len(T1[r]) \in Nat
  BY <1>4, <1>13, <1>14, <1>21 DEF ManagerInv
<1>26. PICK z \in Nat : z = Len(T1[r]) * block_size
  <2>1. Len(T1[r]) * block_size \in Nat
    BY <1>25, ConstantFacts
  <2> QED BY <2>1
<1>27. end <= z /\ k <= z
  <2>1. end <= z
    BY <1>8, <1>15, <1>21, <1>26
  <2> QED BY <1>6, <1>7, <2>1
<1>28. ASSUME NEW p \in 1 .. k
       PROVE  Filled(kv, s, rq1, T1, T1[r][Blk(p)], Slot(p), PrefixId[r][p])
  <2>1. p \in 1 .. NumComputed(r, hits)
    BY <1>5
  <2>2. Filled(kv, loop.scheduled, req, m.req_to_blocks,
               k1.req_to_blocks[r][Blk(p)], Slot(p), PrefixId[r][p])
    BY <1>1, <1>2a, <1>3, <1>11, <1>17, <2>1, HitsFilled
  <2>3. Filled(kv, s, req, T, T1[r][Blk(p)], Slot(p), PrefixId[r][p])
    BY <1>13, <1>21, <2>2
  <2>4. p \in Nat /\ p >= 1 /\ p <= Len(k1.req_to_blocks[r]) * block_size
    BY <1>6, <1>13, <1>21, <1>26, <1>27
  <2>5. k1.req_to_blocks[r][Blk(p)] \in Blocks
    BY <1>4, <1>14, <2>4, TablePlace
  <2>6. T1[r][Blk(p)] \in Blocks /\ Slot(p) \in 1 .. block_size
    BY <1>13, <1>21, <2>4, <2>5, PlaceIs
  <2> QED BY <1>23, <2>3, <2>6, FilledStays
<1>29. FillsTable(kv, s, rq1, T1, k, r)
  BY <1>6, <1>26, <1>27, <1>28 DEF FillsTable
<1>30. Valid(req'[r], load'[r]) = k
  BY <1>18 DEF Valid
<1>31. LoadRoom(req'[r], load'[r], m'.req_to_blocks[r])
  BY <1>18, <1>21, <1>26, <1>27 DEF LoadRoom
<1>32. TakenBack'
  BY <1>3 DEF TakenBack
<1>33. /\ pc' \notin LoopStates => loop'.scheduled = << >>
       /\ PendingStays(loop.scheduled, req, m.req_to_blocks,
                       loop'.scheduled, req', m'.req_to_blocks)
       /\ Hashes(m') /\ FillsCache(kv, loop'.scheduled, req', m'.req_to_blocks, m'.pool.hash)
       /\ FillsTable(kv, loop'.scheduled, req', m'.req_to_blocks, Valid(req'[r], load'[r]), r)
  BY <1>13, <1>17, <1>20, <1>21, <1>23, <1>24, <1>29, <1>30
<1> QED BY <1>0, <1>3, <1>4, <1>15, <1>19, <1>31, <1>32, <1>33, OneKV

LEMMA KVPromote ==
  ASSUME QueueInv, TokenInv, BlockInv, KVInv, WaitingPromote
  PROVE  KVInv'
<1>0. /\ LoopInv /\ ManagerInv(m, deferred_frees) /\ DOMAIN req = Reqs /\ Hashes(m)
      /\ DOMAIN load = Reqs /\ \A q \in Reqs : load[q].back \in {"WAITING", "PREEMPTED"}
  BY DEF TokenInv, QueueInv, Fields, Statuses, BlockInv, KVInv
<1>1. PICK r, n : r = NextWaiting /\ n = req[r].num_computed_tokens
  OBVIOUS
<1>2. PICK k : k = IF ~ load[r].failed /\ n = req[r].num_tokens THEN n - 1 ELSE n
  OBVIOUS
<1>3. /\ pc = "waiting" /\ CanAdmit /\ pc' = pc /\ Loading(r) /\ load[r].state = "finished"
      /\ m' = IF load[r].failed /\ n = 0 THEN free(m, r) ELSE cache_blocks(m, r, n)
      /\ req' = [req EXCEPT ![r].status = load[r].back, ![r].num_computed_tokens = k]
      /\ load' = [load EXCEPT ![r] = NoLoad] /\ UNCHANGED <<loop, kv>>
  BY <1>1, <1>2 DEF WaitingPromote
<1>4. /\ r \in Reqs /\ r \in Known /\ Numbers(req[r]) /\ DOMAIN req[r] = RequestFields
      /\ n <= req[r].num_tokens /\ req[r].num_tokens < MaxLen(r)
  BY <1>1, <1>3, NextIs DEF Accounted
<1>5. /\ req'[r].status \in {"WAITING", "PREEMPTED"} /\ req'[r].num_computed_tokens = k
      /\ load'[r].state = "none"
  BY <1>0, <1>3, <1>4 DEF RequestFields, NoLoad
<1>6. \A p \in Reqs : p # r => req'[p] = req[p] /\ load'[p] = load[p]
  BY <1>0, <1>3, <1>4
<1>7. req[r].status = "WAITING_FOR_REMOTE_KVS"
  BY <1>3 DEF Loading
<1>8. n \in Nat /\ req[r].num_tokens \in Nat /\ req[r].num_tokens >= 1
  BY <1>1, <1>4 DEF Numbers
<1>9. n = 0 => load[r].failed
  BY <1>1, <1>3, <1>4 DEF BlockInv, LoadingInv, FailedLoad
<1>10. k \in Nat /\ k <= n
  BY <1>2, <1>8, <1>9
<1>11. Valid(req[r], load[r]) = n /\ Valid(req'[r], load'[r]) = k
  BY <1>1, <1>3, <1>5, <1>7 DEF Valid
<1>12. TakenBack'
  BY <1>3 DEF TakenBack
<1>13. PICK s, T, T1, rq1 : /\ s = loop.scheduled /\ T = m.req_to_blocks
                            /\ T1 = m'.req_to_blocks /\ rq1 = req'
  OBVIOUS
<1>14. ASSUME OthersKeep(m, m', r) PROVE PendingStays(s, req, T, s, rq1, T1)
  <2>1. ASSUME NEW i \in DOMAIN s
        PROVE  /\ rq1[s[i][1]].num_computed_tokens = req[s[i][1]].num_computed_tokens
               /\ T1[s[i][1]] = T[s[i][1]]
    <3>1. s \in Seq(Reqs \X (Nat \ {0})) /\ Takes(req[s[i][1]], s[i][2])
      BY <1>0, <1>3, <1>13 DEF LoopInv
    <3>2. s[i] \in Reqs \X (Nat \ {0})
      BY <3>1
    <3>3. s[i][1] # r /\ s[i][1] \in Reqs
      BY <1>7, <3>1, <3>2 DEF Takes
    <3> QED BY <1>6, <1>13, <1>14, <3>3 DEF OthersKeep
  <2> QED BY <2>1, PendingSame
<1>15. FillsCache(kv, s, req, T, m.pool.hash) /\ FillsTable(kv, s, req, T, n, r)
  BY <1>4, <1>11, <1>13 DEF KVInv
<1>16. loop'.scheduled = s /\ (pc' \notin LoopStates => loop'.scheduled = << >>) /\ kv' = kv
  BY <1>3, <1>13 DEF LoopStates
<1>17. CASE load[r].failed /\ n = 0
  <2>1. m' = free(m, r) /\ k = 0
    BY <1>2, <1>3, <1>17
  <2>2. Emptied(m, m', r)
    BY <1>0, <1>4, <2>1, FreeManager
  <2>3. OthersKeep(m, m', r) /\ OthersKeep(m, m, r)
    BY <1>0, <1>4, <2>2, EmptiedKeeps DEF OthersKeep
  <2>4. PendingStays(loop.scheduled, req, m.req_to_blocks,
                     loop'.scheduled, req', m'.req_to_blocks)
    BY <1>13, <1>14, <1>16, <2>3
  <2>5. FillsCache(kv, loop.scheduled, req, m.req_to_blocks, m.pool.hash)
    BY <1>13, <1>15
  <2>6. Valid(req'[r], load'[r]) = 0 /\ load'[r].state # "transfer"
    BY <1>5, <1>11, <2>1
  <2> QED BY <1>0, <1>4, <1>6, <1>12, <1>16, <2>2, <2>3, <2>4, <2>5, <2>6, EmptiedKV
<1>18. CASE ~ (load[r].failed /\ n = 0)
  <2>1. PICK k1 : k1 = m'
    OBVIOUS
  <2>2. k1 = cache_blocks(m, r, n)
    BY <1>3, <1>18, <2>1
  <2>3. n <= Len(m.req_to_blocks[r]) * block_size /\ n <= MaxLen(r)
    BY <1>4, <1>8, <1>13, <1>15, MaxLenNat DEF FillsTable
  <2>4. ManagerInv(k1, deferred_frees) /\ CachedFrom(m, k1, r)
    BY <1>0, <1>4, <1>8, <2>2, <2>3, CacheManager
  <2>5. Hashes(k1) /\ NewNames(m, k1, r, n)
    BY <1>0, <1>4, <1>8, <2>2, <2>3, CacheHashes
  <2>6. OthersKeep(m, m', r) /\ T1 = T
    BY <1>13, <2>1, <2>4 DEF OthersKeep, CachedFrom
  <2>7. PendingStays(s, req, T, s, rq1, T1)
    BY <1>14, <2>6
  <2>8. T[r] \in Seq(Blocks) /\ Len(T[r]) \in Nat /\ Len(T1[r]) \in Nat /\ Len(T[r]) <= Len(T1[r])
        /\ \A i \in 1 .. Len(T[r]) : T1[r][i] = T[r][i]
    BY <1>0, <1>4, <1>13, <2>6 DEF ManagerInv
  <2>9. FillsTable(kv, s, rq1, T1, n, r)
    <3>1. n <= n
      BY <1>8
    <3> QED BY <1>8, <1>15, <2>7, <2>8, <3>1, TableStays
  <2>10. FillsTable(kv, s, rq1, T1, k, r)
    BY <1>10, <1>15, <2>7, <2>8, TableStays
  <2>11. FillsCache(kv, s, rq1, k1.req_to_blocks, k1.pool.hash)
    <3>1. PendingStays(s, req, m.req_to_blocks, s, rq1, k1.req_to_blocks)
      BY <1>13, <2>1, <2>7
    <3>2. FillsCache(kv, s, req, m.req_to_blocks, m.pool.hash)
      BY <1>13, <1>15
    <3>3. FillsTable(kv, s, rq1, k1.req_to_blocks, n, r) /\ Len(k1.req_to_blocks[r]) \in Nat
      BY <1>13, <2>1, <2>8, <2>9
    <3> QED BY <1>4, <2>5, <3>1, <3>2, <3>3, CacheGrows
  <2>12. /\ PendingStays(loop.scheduled, req, m.req_to_blocks,
                         loop'.scheduled, req', m'.req_to_blocks)
         /\ Hashes(m') /\ FillsCache(kv, loop'.scheduled, req', m'.req_to_blocks, m'.pool.hash)
         /\ FillsTable(kv, loop'.scheduled, req', m'.req_to_blocks, Valid(req'[r], load'[r]), r)
    BY <1>11, <1>13, <1>16, <2>1, <2>5, <2>7, <2>10, <2>11
  <2>13. LoadRoom(req'[r], load'[r], m'.req_to_blocks[r])
    BY <1>5 DEF LoadRoom
  <2> QED BY <1>0, <1>4, <1>6, <1>12, <1>16, <2>6, <2>12, <2>13, OneKV
<1> QED BY <1>17, <1>18

\* The blocks that AsyncScheduler caches hold their tokens.
LEMMA CachedAfterKV ==
  ASSUME QueueInv, TokenInv, BlockInv, KVInv, pc = "update", todo # << >>, NEW e, e = Head(todo),
         Delivers(e), NEW r, r = e.request
  PROVE  /\ Hashes(CachedAfter(e))
         /\ FillsCache(kv, loop.scheduled, req, m.req_to_blocks, CachedAfter(e).pool.hash)
<1>0. ManagerInv(m, deferred_frees) /\ Hashes(m) /\ loop.scheduled = << >>
  BY DEF BlockInv, KVInv, LoopStates
<1>1. /\ r \in Reqs /\ r \in Known
      /\ req[r].status = "RUNNING" => req[r].num_stale_output_tokens = 0
  BY DeliversTo
<1>2. PICK s, T : s = loop.scheduled /\ T = m.req_to_blocks
  OBVIOUS
<1>3. FillsCache(kv, s, req, T, m.pool.hash)
  BY <1>2 DEF KVInv
<1>4. CASE async_scheduling /\ req[r].status = "RUNNING"
  <2>1. PICK q, q1 : q = req[r] /\ q1 = WithOutput(e)
    OBVIOUS
  <2>2. Numbers(q) /\ Numbers(q1) /\ q.num_tokens < MaxLen(r) /\ q.status = "RUNNING"
    BY <1>1, <1>4, <2>1, LandedAccounted, KnownTokens
  <2>3. /\ q1.num_computed_tokens = q.num_computed_tokens
        /\ q1.num_output_placeholders = q.num_output_placeholders - 1
    <3>1. DOMAIN req[e.request] = RequestFields /\ e.request \in Reqs
      BY <1>1 DEF QueueInv, Fields
    <3>2. /\ WithOutput(e).num_computed_tokens = req[e.request].num_computed_tokens
          /\ WithOutput(e).num_output_placeholders =
                 IF async_scheduling /\ ~ (req[e.request].num_stale_output_tokens > 0)
                 THEN req[e.request].num_output_placeholders - 1
                 ELSE req[e.request].num_output_placeholders
      BY <3>1, LandedFields
    <3> QED BY <1>1, <1>4, <2>1, <3>2
  <2>4. PICK o : Progress(q, o)
    BY <1>1, <2>1 DEF TokenInv, AccountedInv, Accounted
  <2>5. q.num_output_placeholders > 0 =>
          q.num_computed_tokens + 1 = q.num_tokens + q.num_output_placeholders
    BY <1>4, <2>2, <2>4 DEF Progress
  <2>6. PICK n : n = q1.num_computed_tokens - q1.num_output_placeholders
    OBVIOUS
  <2>7. n = q.num_tokens /\ n \in Nat /\ n <= q.num_computed_tokens
    <3>1. PICK c, o1, p, p1 : /\ c = q.num_computed_tokens /\ o1 = q.num_tokens
                              /\ p = q.num_output_placeholders /\ p1 = q1.num_output_placeholders
      OBVIOUS
    <3>2. c \in Nat /\ o1 \in Nat /\ p \in Nat /\ p1 \in Nat /\ p1 = p - 1
      BY <2>2, <2>3, <3>1 DEF Numbers
    <3>3. n = c - p1 /\ (p > 0 => c + 1 = o1 + p)
      BY <2>3, <2>5, <2>6, <3>1
    <3>4. n = o1 /\ n <= c
      BY <3>2, <3>3
    <3> QED BY <3>1, <3>2, <3>4
  <2>8. n <= MaxLen(r)
    BY <1>1, <2>2, <2>7, MaxLenNat
  <2>9. FillsTable(kv, s, req, T, n, r)
    <3>1. Valid(req[r], load[r]) = q.num_computed_tokens
      BY <1>4, <2>1 DEF Valid
    <3>2. FillsTable(kv, s, req, T, q.num_computed_tokens, r)
      BY <1>1, <1>2, <3>1 DEF KVInv
    <3>3. T[r] \in Seq(Blocks) /\ Len(T[r]) \in Nat /\ Len(T[r]) <= Len(T[r])
      BY <1>0, <1>1, <1>2 DEF ManagerInv
    <3>4. PendingStays(s, req, T, s, req, T)
      BY PendingSame
    <3> QED BY <2>7, <3>2, <3>3, <3>4, TableStays
  <2>10. PICK k1 : k1 = CachedAfter(e)
    OBVIOUS
  <2>11. k1 = cache_blocks(m, r, n)
    BY <1>4, <2>1, <2>6, <2>10 DEF CachedAfter
  <2>12. n <= Len(m.req_to_blocks[r]) * block_size
    BY <1>2, <2>9 DEF FillsTable
  <2>13. Hashes(k1) /\ NewNames(m, k1, r, n)
    BY <1>0, <1>1, <2>7, <2>8, <2>11, <2>12, CacheHashes
  <2>14. k1.req_to_blocks = T
    <3>1. CachedFrom(m, k1, r)
      BY <1>0, <1>1, <2>7, <2>8, <2>11, <2>12, CacheManager
    <3> QED BY <1>2, <3>1 DEF CachedFrom
  <2>15. FillsCache(kv, s, req, k1.req_to_blocks, k1.pool.hash)
    <3>1. /\ PendingStays(s, req, m.req_to_blocks, s, req, k1.req_to_blocks)
          /\ FillsCache(kv, s, req, m.req_to_blocks, m.pool.hash)
          /\ FillsTable(kv, s, req, k1.req_to_blocks, n, r)
      BY <1>2, <1>3, <2>9, <2>14, PendingSame
    <3>2. Len(k1.req_to_blocks[r]) \in Nat
      BY <1>0, <1>1, <1>2, <2>14 DEF ManagerInv
    <3> QED BY <1>1, <2>13, <3>1, <3>2, CacheGrows
  <2> QED BY <1>2, <2>10, <2>13, <2>14, <2>15
<1>5. CASE ~ (async_scheduling /\ req[r].status = "RUNNING")
  <2>1. CachedAfter(e) = m
    BY <1>5 DEF CachedAfter
  <2> QED BY <1>0, <1>2, <1>3, <2>1
<1> QED BY <1>4, <1>5

LEMMA KVDeliver ==
  ASSUME QueueInv, TokenInv, BlockInv, KVInv, UpdateDeliver
  PROVE  KVInv'
<1>0. ManagerInv(m, deferred_frees) /\ TakenBack
  BY DEF BlockInv, KVInv
<1>1. PICK e, r : e = Head(todo) /\ r = e.request
  OBVIOUS
<1>2. /\ pc = "update" /\ todo # << >> /\ Delivers(e) /\ UNCHANGED <<pc, load, kv, loop>>
      /\ req' = [req EXCEPT ![r] = WithOutput(e)] /\ m' = CachedAfter(e)
  BY <1>1 DEF UpdateDeliver
<1>3. /\ r \in Reqs /\ r \in Known /\ ~ Loading(r)
      /\ load[r].state \in {"none", "finished"}
  BY <1>1, <1>2, DeliversTo
<1>4. CachedFrom(m, m', r)
  BY <1>1, <1>2, CachedAfterManager
<1>5. OthersKeep(m, m', r) /\ m'.req_to_blocks = m.req_to_blocks
  BY <1>4 DEF OthersKeep, CachedFrom
<1>6. /\ req'[r].status = req[r].status
      /\ req'[r].num_computed_tokens = req[r].num_computed_tokens
      /\ \A q \in Reqs : q # r => req'[q] = req[q] /\ load'[q] = load[q]
  <2>1. DOMAIN req = Reqs /\ DOMAIN req[e.request] = RequestFields /\ e.request \in Reqs
    BY <1>1, <1>3 DEF QueueInv, Fields
  <2>2. /\ WithOutput(e).status = req[e.request].status
        /\ WithOutput(e).num_computed_tokens = req[e.request].num_computed_tokens
    BY <2>1, LandedFields
  <2> QED BY <1>1, <1>2, <2>1, <2>2
<1>7. PICK s, T, rq1, h1 : s = loop.scheduled /\ T = m.req_to_blocks /\ rq1 = req' /\ h1 = m'.pool.hash
  OBVIOUS
<1>8. s = << >> /\ loop' = loop
  BY <1>2, <1>7 DEF KVInv, LoopStates
<1>9. PendingStays(s, req, T, s, rq1, T)
  BY <1>8, NothingPending
<1>10. Hashes(m') /\ FillsCache(kv, s, req, T, h1)
  BY <1>1, <1>2, <1>7, CachedAfterKV
<1>11. FillsCache(kv, s, rq1, T, h1)
  <2>1. \A b \in Blocks : h1[b] = h1[b] \/ h1[b] = NoHash
    OBVIOUS
  <2> QED BY <1>9, <1>10, <2>1, CacheStays
<1>12. PICK n : n = Valid(req[r], load[r])
  OBVIOUS
<1>13. Valid(req'[r], load'[r]) = n
  BY <1>2, <1>6, <1>12 DEF Valid
<1>14. FillsTable(kv, s, rq1, T, n, r)
  <2>1. FillsTable(kv, s, req, T, n, r)
    BY <1>3, <1>7, <1>12 DEF KVInv
  <2>2. n \in Nat /\ n <= n
    BY <2>1 DEF FillsTable
  <2>3. T[r] \in Seq(Blocks) /\ Len(T[r]) \in Nat /\ Len(T[r]) <= Len(T[r])
    BY <1>0, <1>3, <1>7 DEF ManagerInv
  <2> QED BY <1>9, <2>1, <2>2, <2>3, TableStays
<1>15. TakenBack'
  <2>1. ~ Invalid(r)'
    BY <1>3, <1>6 DEF Invalid, Loading
  <2> QED BY <1>0, <1>2, <1>6, <2>1, TakenOthers
<1>16. LoadRoom(req'[r], load'[r], m'.req_to_blocks[r])
  BY <1>2, <1>3 DEF LoadRoom
<1>17. /\ pc' \notin LoopStates => loop'.scheduled = << >>
       /\ PendingStays(loop.scheduled, req, m.req_to_blocks,
                       loop'.scheduled, req', m'.req_to_blocks)
       /\ FillsCache(kv, loop'.scheduled, req', m'.req_to_blocks, m'.pool.hash)
       /\ FillsTable(kv, loop'.scheduled, req', m'.req_to_blocks, Valid(req'[r], load'[r]), r)
  BY <1>5, <1>7, <1>8, <1>9, <1>11, <1>13, <1>14
<1> QED BY <1>0, <1>2, <1>3, <1>5, <1>6, <1>10, <1>15, <1>16, <1>17, OneKV

LEMMA KVStop ==
  ASSUME QueueInv, TokenInv, BlockInv, KVInv, UpdateStop
  PROVE  KVInv'
<1>0. ManagerInv(m, deferred_frees) /\ TakenBack
  BY DEF BlockInv, KVInv
<1>1. PICK e, r, k : e = Head(todo) /\ r = e.request /\ k = CachedAfter(e)
  OBVIOUS
<1>2. /\ pc = "update" /\ todo # << >> /\ Delivers(e) /\ UNCHANGED <<pc, load, kv, loop>>
      /\ FreeRequestBlocks(k, r)
      /\ req' = [req EXCEPT ![r] = [WithOutput(e) EXCEPT !.status = "FINISHED",
                                                         !.prefilling = FALSE]]
  BY <1>1 DEF UpdateStop
<1>3. r \in Reqs /\ load[r].state \in {"none", "finished"}
  BY <1>1, <1>2, DeliversTo
<1>4. ManagerInv(k, deferred_frees) /\ OthersKeep(m, k, r)
  BY <1>1, <1>2, CachedAfterManager DEF OthersKeep, CachedFrom
<1>5. /\ req'[r].status = "FINISHED"
      /\ \A q \in Reqs : q # r => req'[q] = req[q] /\ load'[q] = load[q]
  <2>1. DOMAIN req = Reqs /\ DOMAIN req[e.request] = RequestFields /\ e.request \in Reqs
    BY <1>1, <1>3 DEF QueueInv, Fields
  <2>2. DOMAIN WithOutput(e) = RequestFields
    BY <2>1, LandedFields
  <2> QED BY <1>1, <1>2, <2>1, <2>2 DEF RequestFields
<1>6. /\ Hashes(k)
      /\ FillsCache(kv, loop.scheduled, req, m.req_to_blocks, k.pool.hash)
  BY <1>1, <1>2, CachedAfterKV
<1>7. Emptied(k, m', r)
  BY <1>2, <1>3, <1>4, FreeRequestManager
<1>8. loop.scheduled = << >> /\ loop' = loop /\ kv' = kv
  BY <1>2 DEF KVInv, LoopStates
<1>9. PendingStays(loop.scheduled, req, m.req_to_blocks, loop'.scheduled, req', m'.req_to_blocks)
  BY <1>8, NothingPending
<1>10. Valid(req'[r], load'[r]) = 0 /\ load'[r].state # "transfer" /\ ~ Invalid(r)'
  BY <1>2, <1>3, <1>5 DEF Valid, Invalid, Loading
<1>11. TakenBack'
  BY <1>0, <1>2, <1>5, <1>10, TakenOthers
<1> QED BY <1>0, <1>3, <1>4, <1>5, <1>6, <1>7, <1>8, <1>9, <1>10, <1>11, EmptiedKV

-----------------------------------------------------------------------------
(* Writes to the KV memory.                                                 *)

\* A write of a token of a request to its place in the request's table.
WriteOf(w) ==
  \E r \in Reqs : \E p \in Nat :
    /\ p >= 1 /\ p <= Len(m.req_to_blocks[r]) * block_size
    /\ w.block = m.req_to_blocks[r][Blk(p)] /\ w.slot = Slot(p) /\ w.content = PrefixId[r][p]

\* Slot l of block b is among the writes ws.
WritesSlot(ws, b, l) == \E w \in ws : w.block = b /\ w.slot = l

LEMMA WritesAre ==
  ASSUME NEW r \in Reqs, NEW first \in Nat, NEW last \in Int, first >= 1,
         Len(m.req_to_blocks[r]) \in Nat, last <= Len(m.req_to_blocks[r]) * block_size
  PROVE  /\ \A w \in Writes(r, first, last) : WriteOf(w)
         /\ \A p \in first .. last :
              WritesSlot(Writes(r, first, last), m.req_to_blocks[r][Blk(p)], Slot(p))
<1>1. PICK z \in Nat : z = Len(m.req_to_blocks[r]) * block_size
  <2>1. Len(m.req_to_blocks[r]) * block_size \in Nat
    BY ConstantFacts
  <2> QED BY <2>1
<1>2. ASSUME NEW w \in Writes(r, first, last) PROVE WriteOf(w)
  <2>1. PICK p \in first .. last :
          w = [block |-> m.req_to_blocks[r][Blk(p)], slot |-> Slot(p), content |-> PrefixId[r][p]]
    BY <1>2 DEF Writes, Blk, Slot
  <2>2. p \in Nat /\ p >= 1 /\ p <= z
    BY <1>1, <2>1
  <2> QED BY <1>1, <2>1, <2>2 DEF WriteOf
<1>3. ASSUME NEW p \in first .. last
      PROVE  WritesSlot(Writes(r, first, last), m.req_to_blocks[r][Blk(p)], Slot(p))
  <2>1. PICK w : w = [block |-> m.req_to_blocks[r][Blk(p)], slot |-> Slot(p),
                      content |-> PrefixId[r][p]]
    OBVIOUS
  <2>2. w \in Writes(r, first, last)
    BY <2>1 DEF Writes, Blk, Slot
  <2> QED BY <2>1, <2>2 DEF WritesSlot
<1> QED BY <1>2, <1>3

\* What all writes of a slot write is there, and what none writes stays.
LEMMA WrittenIs ==
  ASSUME NEW ws, NEW b \in Blocks, NEW l \in 1 .. block_size, NEW x,
         \A w \in ws : w.block = b /\ w.slot = l => w.content = x,
         kv[b][l] = x \/ WritesSlot(ws, b, l)
  PROVE  Written(ws)[b][l] = x
<1>1. Written(ws)[b][l] = IF \E w \in ws : w.block = b /\ w.slot = l
                          THEN (CHOOSE w \in ws : w.block = b /\ w.slot = l).content
                          ELSE kv[b][l]
  BY DEF Written
<1>2. CASE \E w \in ws : w.block = b /\ w.slot = l
  <2>1. PICK w : w = CHOOSE u \in ws : u.block = b /\ u.slot = l
    OBVIOUS
  <2>2. w \in ws /\ w.block = b /\ w.slot = l
    BY <1>2, <2>1
  <2> QED BY <1>1, <1>2, <2>1, <2>2
<1>3. CASE ~ \E w \in ws : w.block = b /\ w.slot = l
  BY <1>1, <1>3 DEF WritesSlot
<1> QED BY <1>2, <1>3

\* Who writes a token of a table writes what the table's request has there.
LEMMA WrittenTable ==
  ASSUME NEW d, ManagerInv(m, d), Hashes(m), NEW ws, \A w \in ws : WriteOf(w),
         NEW r \in Reqs, NEW p \in Nat, p >= 1, p <= Len(m.req_to_blocks[r]) * block_size,
         \/ kv[m.req_to_blocks[r][Blk(p)]][Slot(p)] = PrefixId[r][p]
         \/ WritesSlot(ws, m.req_to_blocks[r][Blk(p)], Slot(p))
  PROVE  Written(ws)[m.req_to_blocks[r][Blk(p)]][Slot(p)] = PrefixId[r][p]
<1>1. PICK b, l, x : b = m.req_to_blocks[r][Blk(p)] /\ l = Slot(p) /\ x = PrefixId[r][p]
  OBVIOUS
<1>2. b \in Blocks /\ l \in 1 .. block_size
  <2>1. m.req_to_blocks[r][Blk(p)] \in Blocks
    BY TablePlace
  <2>2. Slot(p) \in 1 .. block_size
    BY PlaceIs
  <2> QED BY <1>1, <2>1, <2>2
<1>3. ASSUME NEW w \in ws, w.block = b, w.slot = l PROVE w.content = x
  <2>1. PICK q \in Reqs : \E n \in Nat :
          /\ n >= 1 /\ n <= Len(m.req_to_blocks[q]) * block_size
          /\ w.block = m.req_to_blocks[q][Blk(n)] /\ w.slot = Slot(n) /\ w.content = PrefixId[q][n]
    BY <1>3 DEF WriteOf
  <2>2. PICK n \in Nat :
          /\ n >= 1 /\ n <= Len(m.req_to_blocks[q]) * block_size
          /\ w.block = m.req_to_blocks[q][Blk(n)] /\ w.slot = Slot(n) /\ w.content = PrefixId[q][n]
    BY <2>1
  <2>3. m.req_to_blocks[r][Blk(p)] = m.req_to_blocks[q][Blk(n)] /\ Slot(p) = Slot(n)
    BY <1>1, <1>3, <2>2
  <2>4. PrefixId[r][p] = PrefixId[q][n]
    BY <2>2, <2>3, SlotAgree
  <2> QED BY <1>1, <2>2, <2>4
<1>4. kv[b][l] = x \/ WritesSlot(ws, b, l)
  BY <1>1
<1>5. Written(ws)[b][l] = x
  BY <1>2, <1>3, <1>4, WrittenIs
<1> QED BY <1>1, <1>5

\* Who writes a cached block writes what its hash stands for.
LEMMA WrittenCache ==
  ASSUME NEW d, ManagerInv(m, d), Hashes(m), NEW ws, \A w \in ws : WriteOf(w),
         NEW b \in Blocks, NEW q \in Reqs, NEW n \in Nat, n >= 1, Blk(n) * block_size <= MaxLen(q),
         m.pool.hash[b] = BlockHash(q, Blk(n)),
         kv[b][Slot(n)] = PrefixId[q][n] \/ WritesSlot(ws, b, Slot(n))
  PROVE  Written(ws)[b][Slot(n)] = PrefixId[q][n]
<1>1. PICK l, x : l = Slot(n) /\ x = PrefixId[q][n]
  OBVIOUS
<1>2. l \in 1 .. block_size
  BY <1>1, PlaceIs
<1>3. ASSUME NEW w \in ws, w.block = b, w.slot = l PROVE w.content = x
  <2>1. PICK r \in Reqs : \E p \in Nat :
          /\ p >= 1 /\ p <= Len(m.req_to_blocks[r]) * block_size
          /\ w.block = m.req_to_blocks[r][Blk(p)] /\ w.slot = Slot(p) /\ w.content = PrefixId[r][p]
    BY <1>3 DEF WriteOf
  <2>2. PICK p \in Nat :
          /\ p >= 1 /\ p <= Len(m.req_to_blocks[r]) * block_size
          /\ w.block = m.req_to_blocks[r][Blk(p)] /\ w.slot = Slot(p) /\ w.content = PrefixId[r][p]
    BY <2>1
  <2>3. m.pool.hash[m.req_to_blocks[r][Blk(p)]] = BlockHash(q, Blk(n)) /\ Slot(p) = Slot(n)
    BY <1>1, <1>3, <2>2
  <2>4. PrefixId[r][p] = PrefixId[q][n]
    BY <2>2, <2>3, SlotHash
  <2> QED BY <1>1, <2>2, <2>4
<1>4. kv[b][l] = x \/ WritesSlot(ws, b, l)
  BY <1>1
<1>5. Written(ws)[b][l] = x
  BY <1>2, <1>3, <1>4, WrittenIs
<1> QED BY <1>1, <1>5

\* The step in the making is all among the writes.
WritesPending(ws) ==
  \A b \in Blocks : \A l \in 1 .. block_size :
    Pending(loop.scheduled, req, m.req_to_blocks, b, l) => WritesSlot(ws, b, l)

LEMMA WrittenKV ==
  ASSUME KVInv, ManagerInv(m, deferred_frees), m' = m, NEW ws, \A w \in ws : WriteOf(w),
         kv' = Written(ws), WritesPending(ws), loop'.scheduled = << >>, TakenBack',
         \A r \in Reqs :
           /\ Valid(req'[r], load'[r]) \in Nat
           /\ Valid(req'[r], load'[r]) <= Len(m.req_to_blocks[r]) * block_size
           /\ \A p \in 1 .. Valid(req'[r], load'[r]) :
                \/ p <= Valid(req[r], load[r])
                \/ WritesSlot(ws, m.req_to_blocks[r][Blk(p)], Slot(p))
           /\ LoadRoom(req'[r], load'[r], m.req_to_blocks[r])
  PROVE  KVInv'
<1>0. Hashes(m) /\ block_size \in Nat /\ block_size >= 1
  BY ConstantFacts DEF KVInv
<1>1. PICK s, t, h, s1, rq1, v1 :
        /\ s = loop.scheduled /\ t = m.req_to_blocks /\ h = m.pool.hash
        /\ s1 = loop'.scheduled /\ rq1 = req' /\ v1 = kv'
  OBVIOUS
<1>2. FillsCache(v1, s1, rq1, t, h)
  <2>1. FillsCache(kv, s, req, t, h)
    BY <1>1 DEF KVInv
  <2>2. ASSUME NEW b \in Blocks, NEW q \in Reqs, NEW p \in Nat, p >= 1,
               Blk(p) * block_size <= MaxLen(q), h[b] = BlockHash(q, Blk(p))
        PROVE  Filled(v1, s1, rq1, t, b, Slot(p), PrefixId[q][p])
    <3>1. Filled(kv, s, req, t, b, Slot(p), PrefixId[q][p])
      BY <2>1, <2>2 DEF FillsCache
    <3>2. Slot(p) \in 1 .. block_size
      BY <2>2, PlaceIs
    <3>3. kv[b][Slot(p)] = PrefixId[q][p] \/ WritesSlot(ws, b, Slot(p))
      BY <1>1, <3>1, <3>2 DEF Filled, WritesPending
    <3>4. m.pool.hash[b] = BlockHash(q, Blk(p))
      BY <1>1, <2>2
    <3>5. Written(ws)[b][Slot(p)] = PrefixId[q][p]
      BY <1>0, <2>2, <3>3, <3>4, WrittenCache
    <3> QED BY <1>1, <3>5 DEF Filled
  <2> QED BY <2>2 DEF FillsCache
<1>3. ASSUME NEW r \in Reqs
      PROVE  /\ FillsTable(v1, s1, rq1, t, Valid(req'[r], load'[r]), r)
             /\ LoadRoom(req'[r], load'[r], t[r])
  <2>1. PICK n, n1 : n = Valid(req[r], load[r]) /\ n1 = Valid(req'[r], load'[r])
    OBVIOUS
  <2>2. FillsTable(kv, s, req, t, n, r)
    BY <1>1, <2>1 DEF KVInv
  <2>3. n1 \in Nat /\ n1 <= Len(t[r]) * block_size /\ LoadRoom(req'[r], load'[r], t[r])
    BY <1>1, <2>1
  <2>4. t[r] \in Seq(Blocks) /\ Len(t[r]) \in Nat
    BY <1>1 DEF ManagerInv
  <2>5. PICK z \in Nat : z = Len(t[r]) * block_size
    <3>1. Len(t[r]) * block_size \in Nat
      BY <1>0, <2>4
    <3> QED BY <3>1
  <2>6. ASSUME NEW p \in 1 .. n1
        PROVE  Filled(v1, s1, rq1, t, t[r][Blk(p)], Slot(p), PrefixId[r][p])
    <3>1. p \in Nat /\ p >= 1 /\ p <= Len(m.req_to_blocks[r]) * block_size
      BY <1>1, <2>3, <2>5
    <3>2. t[r][Blk(p)] \in Blocks /\ Slot(p) \in 1 .. block_size
      <4>1. m.req_to_blocks[r][Blk(p)] \in Blocks
        BY <3>1, TablePlace
      <4>2. Slot(p) \in 1 .. block_size
        BY <3>1, PlaceIs
      <4> QED BY <1>1, <4>1, <4>2
    <3>3. CASE p <= n
      <4>1. p \in 1 .. n
        BY <2>2, <3>1, <3>3 DEF FillsTable
      <4>2. Filled(kv, s, req, t, t[r][Blk(p)], Slot(p), PrefixId[r][p])
        BY <2>2, <4>1 DEF FillsTable
      <4>3. kv[t[r][Blk(p)]][Slot(p)] = PrefixId[r][p] \/ WritesSlot(ws, t[r][Blk(p)], Slot(p))
        BY <1>1, <3>2, <4>2 DEF Filled, WritesPending
      <4>4. \/ kv[m.req_to_blocks[r][Blk(p)]][Slot(p)] = PrefixId[r][p]
            \/ WritesSlot(ws, m.req_to_blocks[r][Blk(p)], Slot(p))
        BY <1>1, <4>3
      <4>5. Written(ws)[m.req_to_blocks[r][Blk(p)]][Slot(p)] = PrefixId[r][p]
        BY <1>0, <3>1, <4>4, WrittenTable
      <4> QED BY <1>1, <4>5 DEF Filled
    <3>4. CASE ~ (p <= n)
      <4>1. WritesSlot(ws, m.req_to_blocks[r][Blk(p)], Slot(p))
        BY <2>1, <3>4
      <4>2. Written(ws)[m.req_to_blocks[r][Blk(p)]][Slot(p)] = PrefixId[r][p]
        BY <1>0, <3>1, <4>1, WrittenTable
      <4> QED BY <1>1, <4>2 DEF Filled
    <3> QED BY <3>3, <3>4
  <2>7. FillsTable(v1, s1, rq1, t, n1, r)
    BY <2>3, <2>6 DEF FillsTable
  <2> QED BY <2>1, <2>3, <2>7
<1>4. /\ FillsCache(kv', loop'.scheduled, req', m'.req_to_blocks, m'.pool.hash)
      /\ \A q \in Reqs :
           FillsTable(kv', loop'.scheduled, req', m'.req_to_blocks, Valid(req'[q], load'[q]), q)
      /\ \A q \in Reqs : LoadRoom(req'[q], load'[q], m'.req_to_blocks[q])
      /\ Hashes(m')
  BY <1>0, <1>1, <1>2, <1>3
<1> QED BY <1>4 DEF KVInv, FillsCache, FillsTable, Filled, Pending, Valid, LoadRoom, Hashes, Named

LEMMA KVIssue ==
  ASSUME QueueInv, TokenInv, BlockInv, KVInv, Issue
  PROVE  KVInv'
<1>0. ManagerInv(m, deferred_frees) /\ NumbersInv
  BY DEF BlockInv, TokenInv
<1>1. pc = "issue" /\ pc' = "idle" /\ UNCHANGED <<m, load>> /\ kv' = Written(StepWrites)
      /\ loop' = NoLoop
  BY DEF Issue
<1>2. PICK s : s = loop.scheduled
  OBVIOUS
<1>3. /\ \A i \in DOMAIN s :
              /\ s[i][1] \in Reqs /\ s[i][2] \in Nat
              /\ req[s[i][1]].status = "RUNNING" /\ req'[s[i][1]].status = "RUNNING"
              /\ req'[s[i][1]].num_computed_tokens = req[s[i][1]].num_computed_tokens + s[i][2]
      /\ \A r \in Reqs : (\A i \in DOMAIN s : s[i][1] # r) => req'[r] = req[r]
  BY <1>2, IssueIs
<1>4. PICK ws : ws = StepWrites
  OBVIOUS
<1>5. ASSUME NEW i \in DOMAIN s, NEW r, NEW n, NEW c, r = s[i][1], n = s[i][2],
             c = req[r].num_computed_tokens
      PROVE  /\ r \in Reqs /\ n \in Nat /\ c \in Nat
             /\ Len(m.req_to_blocks[r]) \in Nat /\ c + n <= Len(m.req_to_blocks[r]) * block_size
             /\ Writes(r, c + 1, c + n) \subseteq ws
             /\ \A w \in Writes(r, c + 1, c + n) : WriteOf(w)
             /\ \A p \in (c + 1) .. (c + n) : WritesSlot(ws, m.req_to_blocks[r][Blk(p)], Slot(p))
  <2>1. r \in Reqs /\ n \in Nat
    BY <1>3, <1>5
  <2>2. c \in Nat
    BY <1>0, <1>5, <2>1 DEF NumbersInv, Numbers
  <2>3. m.req_to_blocks[r] \in Seq(Blocks) /\ Len(m.req_to_blocks[r]) \in Nat
    BY <1>0, <2>1 DEF ManagerInv
  <2>4. c + n <= Len(m.req_to_blocks[r]) * block_size
    BY <1>1, <1>2, <1>5 DEF BlockInv, RoomInv, LoopStates
  <2>5. PICK a, b : a = c + 1 /\ b = c + n
    OBVIOUS
  <2>6. a \in Nat /\ a >= 1 /\ b \in Int /\ b <= Len(m.req_to_blocks[r]) * block_size
    BY <2>1, <2>2, <2>4, <2>5
  <2>7. /\ \A w \in Writes(r, a, b) : WriteOf(w)
        /\ \A p \in a .. b : WritesSlot(Writes(r, a, b), m.req_to_blocks[r][Blk(p)], Slot(p))
    BY <2>1, <2>3, <2>6, WritesAre
  <2>8. Writes(r, a, b) \subseteq ws
    BY <1>2, <1>4, <1>5, <2>5 DEF StepWrites
  <2>9. \A p \in a .. b : WritesSlot(ws, m.req_to_blocks[r][Blk(p)], Slot(p))
    BY <2>7, <2>8 DEF WritesSlot
  <2> QED BY <2>1, <2>2, <2>3, <2>4, <2>5, <2>7, <2>8, <2>9
<1>6. ASSUME NEW w \in ws PROVE WriteOf(w)
  <2>1. PICK i \in DOMAIN s :
          w \in Writes(s[i][1], req[s[i][1]].num_computed_tokens + 1,
                       req[s[i][1]].num_computed_tokens + s[i][2])
    BY <1>2, <1>4, <1>6 DEF StepWrites
  <2>2. PICK r, n, c : r = s[i][1] /\ n = s[i][2] /\ c = req[r].num_computed_tokens
    OBVIOUS
  <2>3. w \in Writes(r, c + 1, c + n)
    BY <2>1, <2>2
  <2> QED BY <1>5, <2>2, <2>3
<1>7. WritesPending(ws)
  <2> SUFFICES ASSUME NEW b \in Blocks, NEW l \in 1 .. block_size,
                      Pending(loop.scheduled, req, m.req_to_blocks, b, l)
               PROVE  WritesSlot(ws, b, l)
    BY DEF WritesPending
  <2>1. PICK t : t = m.req_to_blocks
    OBVIOUS
  <2>2. Pending(s, req, t, b, l)
    BY <1>2, <2>1
  <2>3. PICK i \in DOMAIN s :
        \E p \in (req[s[i][1]].num_computed_tokens + 1)
                   .. (req[s[i][1]].num_computed_tokens + s[i][2]) :
          t[s[i][1]][Blk(p)] = b /\ Slot(p) = l
    BY <2>2 DEF Pending
  <2>4. PICK r, n, c : r = s[i][1] /\ n = s[i][2] /\ c = req[r].num_computed_tokens
    OBVIOUS
  <2>5. PICK p \in (c + 1) .. (c + n) : t[r][Blk(p)] = b /\ Slot(p) = l
    BY <2>3, <2>4
  <2>6. WritesSlot(ws, m.req_to_blocks[r][Blk(p)], Slot(p))
    BY <1>5, <2>4, <2>5
  <2> QED BY <2>1, <2>5, <2>6
<1>8. ASSUME NEW r \in Reqs
      PROVE  /\ Valid(req'[r], load'[r]) \in Nat
             /\ Valid(req'[r], load'[r]) <= Len(m.req_to_blocks[r]) * block_size
             /\ \A p \in 1 .. Valid(req'[r], load'[r]) :
                  \/ p <= Valid(req[r], load[r])
                  \/ WritesSlot(ws, m.req_to_blocks[r][Blk(p)], Slot(p))
             /\ LoadRoom(req'[r], load'[r], m.req_to_blocks[r])
  <2>1. CASE \E i \in DOMAIN s : s[i][1] = r
    <3>1. PICK i \in DOMAIN s : s[i][1] = r
      BY <2>1
    <3>2. PICK n, c : n = s[i][2] /\ c = req[r].num_computed_tokens
      OBVIOUS
    <3>3. /\ n \in Nat /\ c \in Nat /\ c + n <= Len(m.req_to_blocks[r]) * block_size
          /\ \A p \in (c + 1) .. (c + n) : WritesSlot(ws, m.req_to_blocks[r][Blk(p)], Slot(p))
      BY <1>5, <3>1, <3>2
    <3>4. /\ req[r].status = "RUNNING" /\ req'[r].status = "RUNNING"
          /\ req'[r].num_computed_tokens = c + n
      BY <1>3, <3>1, <3>2
    <3>5. Valid(req[r], load[r]) = c /\ Valid(req'[r], load'[r]) = c + n
      BY <3>2, <3>4 DEF Valid
    <3>6. ASSUME NEW p \in 1 .. (c + n)
          PROVE  p <= c \/ WritesSlot(ws, m.req_to_blocks[r][Blk(p)], Slot(p))
      BY <3>3
    <3>7. LoadRoom(req'[r], load'[r], m.req_to_blocks[r])
      <4>1. LoadedBy(req[r], load[r], m.req_to_blocks[r], m.num_cached_block[r])
        BY DEF BlockInv, LoadsInv
      <4> QED BY <1>1, <3>4, <4>1 DEF LoadedBy, LoadRoom
    <3> QED BY <3>3, <3>5, <3>6, <3>7
  <2>2. CASE ~ \E i \in DOMAIN s : s[i][1] = r
    <3>1. req'[r] = req[r] /\ load'[r] = load[r]
      BY <1>1, <1>3, <2>2
    <3>2. /\ FillsTable(kv, loop.scheduled, req, m.req_to_blocks, Valid(req[r], load[r]), r)
          /\ LoadRoom(req[r], load[r], m.req_to_blocks[r])
      BY DEF KVInv
    <3>3. PICK n : n = Valid(req[r], load[r])
      OBVIOUS
    <3>4. n \in Nat /\ n <= Len(m.req_to_blocks[r]) * block_size
      BY <3>2, <3>3 DEF FillsTable
    <3> QED BY <3>1, <3>2, <3>3, <3>4
  <2> QED BY <2>1, <2>2
<1>9. loop'.scheduled = << >> /\ TakenBack' /\ m' = m /\ kv' = Written(ws)
  BY <1>1, <1>4 DEF NoLoop, TakenBack
<1> QED BY <1>0, <1>6, <1>7, <1>8, <1>9, WrittenKV

LEMMA KVLoadArrives ==
  ASSUME QueueInv, TokenInv, BlockInv, KVInv, NEW r \in Reqs, LoadArrives(r)
  PROVE  KVInv'
<1>0. /\ ManagerInv(m, deferred_frees) /\ DOMAIN load = Reqs /\ DOMAIN load[r] = LoadFields
      /\ block_size \in Nat /\ block_size >= 1
  BY ConstantFacts DEF BlockInv, QueueInv, Fields
<1>1. PICK e, f : e = req[r].num_computed_tokens /\ f = load[r].first
  OBVIOUS
<1>2. /\ pc = "idle" /\ pc' = "idle" /\ UNCHANGED <<m, req, loop>> /\ load[r].state = "transfer"
  BY DEF LoadArrives
<1>3. PICK i \in {0} \cup (((f \div block_size) + 1) .. cdiv(e, block_size)) :
        /\ load' = [load EXCEPT ![r].state = "arrived", ![r].invalid = i]
        /\ kv' = Written(Writes(r, f + 1, IF i = 0 THEN e ELSE (i - 1) * block_size))
  BY <1>1 DEF LoadArrives
<1>4. e \in Nat /\ f \in Nat
  BY <1>1 DEF TokenInv, NumbersInv, Numbers, LoadInv
<1>5. i \in Nat /\ (i > 0 => (i - 1) * block_size \in Nat /\ (i - 1) * block_size < e)
  <2>1. f \div block_size \in Nat
    BY <1>0, <1>4, DivTimes
  <2>2. PICK k : k = cdiv(e, block_size)
    OBVIOUS
  <2>3. k \in Nat /\ k * block_size < e + block_size
    BY <1>0, <1>4, <2>2, CdivIs
  <2>4. i = 0 \/ (i \in Nat /\ i >= 1 /\ i <= k)
    BY <1>3, <2>1, <2>2, <2>3
  <2>5. CASE i >= 1 /\ i \in Nat /\ i <= k
    <3>1. i * block_size <= k * block_size
      BY <1>0, <2>3, <2>5, TimesMonotone
    <3>2. (i - 1) * block_size = i * block_size - block_size
      BY <1>0, <2>5
    <3>3. i * block_size \in Int /\ k * block_size \in Int
      BY <1>0, <2>3, <2>5
    <3>4. (i - 1) * block_size \in Nat
      <4>1. PICK j \in Nat : j = i - 1
        BY <2>5
      <4>2. j * block_size \in Nat
        BY <1>0
      <4> QED BY <4>1, <4>2
    <3> QED BY <1>0, <1>4, <2>3, <2>5, <3>1, <3>2, <3>3, <3>4
  <2> QED BY <2>4, <2>5
<1>6. PICK l \in Nat : l = (IF i = 0 THEN e ELSE (i - 1) * block_size) /\ l <= e
  BY <1>4, <1>5
<1>7. Len(m.req_to_blocks[r]) \in Nat /\ m.req_to_blocks[r] \in Seq(Blocks)
  BY <1>0 DEF ManagerInv
<1>8. PICK z \in Nat : z = Len(m.req_to_blocks[r]) * block_size
  <2>1. Len(m.req_to_blocks[r]) * block_size \in Nat
    BY <1>0, <1>7
  <2> QED BY <2>1
<1>9. e <= z /\ l <= Len(m.req_to_blocks[r]) * block_size
  <2>1. e <= z
    BY <1>1, <1>2, <1>8 DEF KVInv, LoadRoom
  <2> QED BY <1>4, <1>6, <1>8, <2>1
<1>10. PICK a, ws : a = f + 1 /\ ws = Writes(r, a, l)
  OBVIOUS
<1>11. /\ \A w \in ws : WriteOf(w)
       /\ \A p \in a .. l : WritesSlot(ws, m.req_to_blocks[r][Blk(p)], Slot(p))
  <2>1. a \in Nat /\ a >= 1 /\ l \in Int
    BY <1>4, <1>10
  <2> QED BY <1>7, <1>9, <1>10, <2>1, WritesAre
<1>12. kv' = Written(ws)
  BY <1>3, <1>6, <1>10
<1>13. /\ load'[r].state = "arrived" /\ load'[r].invalid = i
       /\ \A q \in Reqs : q # r => load'[q] = load[q]
  BY <1>0, <1>3 DEF LoadFields
<1>14. ASSUME NEW q \in Reqs
       PROVE  /\ Valid(req'[q], load'[q]) \in Nat
              /\ Valid(req'[q], load'[q]) <= Len(m.req_to_blocks[q]) * block_size
              /\ \A p \in 1 .. Valid(req'[q], load'[q]) :
                   \/ p <= Valid(req[q], load[q])
                   \/ WritesSlot(ws, m.req_to_blocks[q][Blk(p)], Slot(p))
              /\ LoadRoom(req'[q], load'[q], m.req_to_blocks[q])
  <2>1. CASE q = r
    <3>1. req[r].status \in {"WAITING_FOR_REMOTE_KVS", "FINISHED"}
      <4>1. LoadedBy(req[r], load[r], m.req_to_blocks[r], m.num_cached_block[r])
        BY DEF BlockInv, LoadsInv
      <4> QED BY <1>2, <4>1 DEF LoadedBy
    <3>2. LoadRoom(req'[r], load'[r], m.req_to_blocks[r])
      BY <1>13 DEF LoadRoom
    <3>3. CASE req[r].status = "WAITING_FOR_REMOTE_KVS"
      <4>1. Valid(req[r], load[r]) = f
        BY <1>1, <1>2, <3>3 DEF Valid
      <4>2. Valid(req'[r], load'[r]) = l
        <5>1. CASE i = 0
          BY <1>1, <1>2, <1>6, <1>13, <3>3, <5>1 DEF Valid
        <5>2. CASE i # 0
          <6>1. i > 0
            BY <1>5, <5>2
          <6> QED BY <1>2, <1>6, <1>13, <3>3, <5>2, <6>1 DEF Valid
        <5> QED BY <5>1, <5>2
      <4>3. ASSUME NEW p \in 1 .. l
            PROVE  p <= f \/ WritesSlot(ws, m.req_to_blocks[r][Blk(p)], Slot(p))
        <5>1. p <= f \/ p \in a .. l
          BY <1>4, <1>10
        <5> QED BY <1>11, <5>1
      <4> QED BY <1>9, <2>1, <3>2, <4>1, <4>2, <4>3
    <3>4. CASE req[r].status = "FINISHED"
      <4>1. Valid(req'[r], load'[r]) = 0
        BY <1>2, <3>4 DEF Valid
      <4> QED BY <1>8, <2>1, <3>2, <4>1
    <3> QED BY <3>1, <3>3, <3>4
  <2>2. CASE q # r
    <3>1. req'[q] = req[q] /\ load'[q] = load[q]
      BY <1>2, <1>13, <2>2
    <3>2. /\ FillsTable(kv, loop.scheduled, req, m.req_to_blocks, Valid(req[q], load[q]), q)
          /\ LoadRoom(req[q], load[q], m.req_to_blocks[q])
      BY DEF KVInv
    <3>3. PICK n : n = Valid(req[q], load[q])
      OBVIOUS
    <3>4. n \in Nat /\ n <= Len(m.req_to_blocks[q]) * block_size
      BY <3>2, <3>3 DEF FillsTable
    <3> QED BY <3>1, <3>2, <3>3, <3>4
  <2> QED BY <2>1, <2>2
<1>15. loop.scheduled = << >> /\ loop'.scheduled = << >>
  BY <1>2 DEF KVInv, LoopStates
<1>16. WritesPending(ws)
  BY <1>15, NothingPending DEF WritesPending
<1>17. TakenBack' /\ m' = m
  BY <1>2 DEF TakenBack
<1> QED BY <1>0, <1>11, <1>12, <1>14, <1>15, <1>16, <1>17, WrittenKV

-----------------------------------------------------------------------------
(* The theorems about the KV memory.                                        *)

LEMMA KVInit == Init => KVInv
<1> SUFFICES ASSUME Init PROVE KVInv
  OBVIOUS
<1>1. pc = "idle" /\ loop = NoLoop /\ m = InitManager
      /\ req = [r \in Reqs |-> [NewRequest(r) EXCEPT !.status = "ABSENT"]]
      /\ load = [r \in Reqs |-> NoLoad]
  BY DEF Init
<1>2. loop.scheduled = << >>
  BY <1>1 DEF NoLoop
<1>3. PICK t, h, s : t = m.req_to_blocks /\ h = m.pool.hash /\ s = loop.scheduled
  OBVIOUS
<1>4. /\ \A r \in Reqs : t[r] = << >> /\ m.num_cached_block[r] = 0
      /\ \A b \in Blocks : h[b] = NoHash
  <2>1. /\ m.pool = InitPool /\ m.req_to_blocks = [r \in Reqs |-> << >>]
        /\ m.num_cached_block = [r \in Reqs |-> 0]
    BY <1>1 DEF InitManager
  <2>2. m.pool.hash = [b \in Blocks |-> NoHash]
    BY <2>1 DEF InitPool
  <2> QED BY <1>3, <2>1, <2>2
<1>5. Hashes(m)
  <2>1. \A r \in Reqs : Named(t[r], 0, h, r)
    BY NoneNamed
  <2> QED BY <1>3, <1>4, <2>1 DEF Hashes
<1>6. FillsCache(kv, s, req, t, h)
  <2> SUFFICES ASSUME NEW b \in Blocks, NEW q \in Reqs, NEW p \in Nat, p >= 1,
                      Blk(p) * block_size <= MaxLen(q), h[b] = BlockHash(q, Blk(p))
               PROVE  FALSE
    BY DEF FillsCache
  <2>1. Blk(p) \in Nat /\ Blk(p) >= 1
    BY PlaceIs
  <2>2. BlockHash(q, Blk(p)) # NoHash
    BY <2>1, HashIs
  <2> QED BY <1>4, <2>2
<1>7. ASSUME NEW r \in Reqs
      PROVE  /\ FillsTable(kv, s, req, t, Valid(req[r], load[r]), r)
             /\ LoadRoom(req[r], load[r], t[r])
  <2>1. req[r].status = "ABSENT" /\ load[r].state = "none"
    BY <1>1 DEF NewRequest, NoLoad
  <2>2. Valid(req[r], load[r]) = 0
    BY <2>1 DEF Valid
  <2>3. 0 <= Len(t[r]) * block_size
    <3>1. Len(t[r]) = 0 /\ 0 <= 0 * block_size
      BY <1>4, ConstantFacts
    <3> QED BY <3>1
  <2>4. FillsTable(kv, s, req, t, 0, r)
    BY <2>3 DEF FillsTable
  <2> QED BY <2>1, <2>2, <2>4 DEF LoadRoom
<1>8. TakenBack
  BY <1>1 DEF TakenBack
<1> QED BY <1>2, <1>3, <1>5, <1>6, <1>7, <1>8 DEF KVInv

LEMMA KVStutter ==
  ASSUME TokenInv, BlockInv, KVInv, UNCHANGED vars
  PROVE  KVInv'
<1>1. UNCHANGED <<m, kv, req, load, pc, loop>>
  BY DEF vars
<1>2. \A r \in Reqs : SameKV(req[r], load[r], req'[r], load'[r])
  BY <1>1 DEF SameKV
<1>3. ManagerInv(m, deferred_frees)
  BY DEF BlockInv
<1> QED BY <1>1, <1>2, <1>3, StillCalm

LEMMA KVNext ==
  ASSUME policy = "fcfs", QueueInv, TokenInv, BlockInv, KVInv, Next
  PROVE  KVInv'
<1>1. CASE EngineStep
  <2>1. ASSUME NEW r \in Reqs, UpdateLoadError(r)
        PROVE  KVInv'
    <3>1. /\ r \in Known /\ pc = "update" /\ UNCHANGED <<pc, loop, kv>> /\ FinishRequest(r)
      BY <2>1 DEF UpdateLoadError, Invalid, Loading, Known
    <3> QED BY <3>1, KVFinish
  <2>2. CASE \E r \in Reqs : UpdateLoadError(r) \/ UpdateLoadFinished(r)
    BY <2>1, <2>2, KVLoadFinished
  <2>3. CASE ScheduleBegin \/ RunningSelect \/ RunningDone \/ WaitingSkip \/ WaitingDone
    BY <2>3, KVLoopSteps
  <2>4. CASE ResetRaised \/ UpdateBegin \/ UpdateNoOutput \/ UpdateDone \/ DrainOne
    BY <2>4, KVOtherSteps
  <2> QED BY <1>1, <2>2, <2>3, <2>4, KVRunningAllocate, KVRunningPreempt, KVPromote, KVAdmit,
             KVLoad, KVIssue, KVDrainDone, KVDeliver, KVStop, KVResetPreempt, KVResetEnd
          DEF EngineStep
<1>2. CASE ClientStep
  <2>1. ASSUME NEW r \in Reqs, finish_requests(r)
        PROVE  KVInv'
    <3>1. /\ r \in Known /\ UNCHANGED <<pc, loop, kv>> /\ pc = "idle" /\ FinishRequest(r)
      BY <2>1 DEF finish_requests
    <3> QED BY <3>1, KVFinish
  <2>2. CASE \E reset_running \in BOOLEAN : ResetBegin(reset_running)
    BY <2>2, KVOtherSteps
  <2> QED BY <1>2, <2>1, <2>2, KVAdd DEF ClientStep
<1>3. CASE \E r \in Reqs : LoadArrives(r)
  BY <1>3, KVLoadArrives
<1> QED BY <1>1, <1>2, <1>3 DEF Next

\* The inductive invariant of the KV memory. With the priority policy it does
\* not hold: the victim of a preemption may be in the step that is being built,
\* and the hashes of the blocks that the step would have filled for it stay in
\* the prefix cache (the run scheduler_chunked_priority).
THEOREM SchedulerKV == Spec => [](policy = "fcfs" => KVInv)
<1>1. Init => (policy = "fcfs" => KVInv)
  BY KVInit
<1>2. QueueInv /\ TokenInv /\ BlockInv /\ (policy = "fcfs" => KVInv) /\ [Next]_vars
        => (policy = "fcfs" => KVInv)'
  BY KVNext, KVStutter
<1> QED BY <1>1, <1>2, SchedulerQueues, SchedulerTokens, SchedulerBlocks, PTL DEF Spec

\* ComputedTokensHaveKV of the scheduler's runs: between two steps, the tokens
\* that a running request counts as computed have their KV in the slots of its
\* block table, whether a step, a prefix-cache hit or a load put it there, and
\* whatever was preempted, aborted, evicted or reset meanwhile.
THEOREM ComputedTokensAlwaysHaveKV == Spec => [](policy = "fcfs" => ComputedTokensHaveKV)
<1>1. QueueInv /\ (policy = "fcfs" => KVInv) => (policy = "fcfs" => ComputedTokensHaveKV)
  <2> SUFFICES ASSUME QueueInv, KVInv, pc = "idle", NEW r \in ToSet(running),
                      NEW p \in 1 .. req[r].num_computed_tokens
               PROVE  kv[m.req_to_blocks[r][Blk(p)]][Slot(p)] = PrefixId[r][p]
    BY DEF ComputedTokensHaveKV, Blk, Slot
  <2>1. r \in Reqs /\ req[r].status = "RUNNING"
    BY RunningAre DEF ToSet
  <2>2. Valid(req[r], load[r]) = req[r].num_computed_tokens
    BY <2>1 DEF Valid
  <2>3. PICK s, t, n : /\ s = loop.scheduled /\ t = m.req_to_blocks
                       /\ n = req[r].num_computed_tokens
    OBVIOUS
  <2>4. FillsTable(kv, s, req, t, n, r) /\ s = << >>
    BY <2>1, <2>2, <2>3 DEF KVInv, LoopStates
  <2>5. Filled(kv, s, req, t, t[r][Blk(p)], Slot(p), PrefixId[r][p])
    BY <2>3, <2>4 DEF FillsTable
  <2>6. ~ Pending(s, req, t, t[r][Blk(p)], Slot(p))
    BY <2>4, NothingPending
  <2> QED BY <2>3, <2>5, <2>6 DEF Filled
<1> QED BY <1>1, SchedulerQueues, SchedulerKV, PTL

\* The last block of a prefix of whole blocks, slot by slot.
LEMMA LastBlock ==
  ASSUME NEW i \in Nat, i >= 1, NEW l \in 1 .. block_size, NEW p, p = i * block_size - block_size + l
  PROVE  /\ p \in Nat /\ p >= 1 /\ p <= i * block_size
         /\ Blk(p) = i /\ Slot(p) = l
<1>0. block_size \in Nat /\ block_size >= 1
  BY ConstantFacts
<1>1. PICK j \in Nat : j = i - 1
  OBVIOUS
<1>2. PICK x \in Nat : x = j * block_size
  <2>1. j * block_size \in Nat
    BY <1>0
  <2> QED BY <2>1
<1>3. i * block_size = x + block_size
  <2>1. i = j + 1
    BY <1>1
  <2>2. (j + 1) * block_size = j * block_size + block_size
    BY <1>0
  <2> QED BY <1>2, <2>1, <2>2
<1>4. p = x + l /\ p \in Nat /\ p >= 1 /\ p <= i * block_size
  BY <1>0, <1>2, <1>3
<1>5. Blk(p) <= i
  BY <1>4, BlkWithin
<1>6. /\ Blk(p) \in Nat /\ Blk(p) >= 1 /\ Slot(p) \in 1 .. block_size
      /\ p = (Blk(p) - 1) * block_size + Slot(p) /\ p <= Blk(p) * block_size
  BY <1>4, PlaceIs
<1>7. Blk(p) = i
  <2>1. SUFFICES ASSUME Blk(p) <= j PROVE FALSE
    BY <1>1, <1>5, <1>6
  <2>2. PICK b \in Nat : b = Blk(p)
    BY <1>6
  <2>3. b * block_size <= j * block_size
    BY <1>0, <2>1, <2>2, TimesMonotone
  <2>4. b * block_size \in Nat
    BY <1>0
  <2> QED BY <1>2, <1>4, <1>6, <2>2, <2>3, <2>4
<1>8. (Blk(p) - 1) * block_size = x
  BY <1>1, <1>2, <1>7
<1>9. PICK y \in Nat : y = Slot(p)
  BY <1>0, <1>6
<1>10. x + y = x + l
  BY <1>4, <1>6, <1>8, <1>9
<1>11. y = l
  BY <1>2, <1>9, <1>10
<1> QED BY <1>4, <1>7, <1>9, <1>11

\* CachedBlocksComputed of the scheduler's runs: between two steps, every block
\* that the prefix cache hands out under a hash holds the KV of the tokens that
\* the hash stands for, and the map of the cache matches the hashes.
THEOREM CachedBlocksAlwaysComputed == Spec => [](policy = "fcfs" => CachedBlocksComputed)
<1>1. BlockInv /\ (policy = "fcfs" => KVInv) => (policy = "fcfs" => CachedBlocksComputed)
  <2> SUFFICES ASSUME BlockInv, KVInv
               PROVE  CachedBlocksComputed
    OBVIOUS
  <2>1. MapMatchesHashes(m.pool)
    BY DEF BlockInv, ManagerInv, PoolInv
  <2>2. ASSUME pc = "idle", NEW e \in m.pool.cached, NEW l \in 1 .. block_size
        PROVE  kv[e[2]][l] = PrefixId[e[1][1]][e[1][2] - block_size + l]
    <3>1. PICK b \in Blocks : m.pool.hash[b] # NoHash /\ e = <<m.pool.hash[b], b>>
      BY <2>1 DEF MapMatchesHashes
    <3>2. PICK h : h = m.pool.hash[b]
      OBVIOUS
    <3>3. IsHash(h)
      BY <3>1, <3>2 DEF KVInv, Hashes
    <3>4. PICK q \in Reqs : \E i \in Nat :
            i >= 1 /\ i * block_size <= MaxLen(q) /\ h = BlockHash(q, i)
      BY <3>3 DEF IsHash
    <3>5. PICK i \in Nat : i >= 1 /\ i * block_size <= MaxLen(q) /\ h = BlockHash(q, i)
      BY <3>4
    <3>6. e[1] = h /\ e[2] = b
      BY <3>1, <3>2
    <3>7. PICK p : p = i * block_size - block_size + l
      OBVIOUS
    <3>8. p \in Nat /\ p >= 1 /\ p <= i * block_size /\ Blk(p) = i /\ Slot(p) = l
      BY <3>5, <3>7, LastBlock
    <3>9. PICK n \in Nat : n = i * block_size
      <4>1. i * block_size \in Nat
        BY ConstantFacts
      <4> QED BY <4>1
    <3>10. n \in 1 .. MaxLen(q) /\ p \in 1 .. n
      BY <3>5, <3>8, <3>9, MaxLenNat
    <3>11. h = PrefixId[q][n]
      BY <3>5, <3>9 DEF BlockHash
    <3>12. h[2] = n /\ PrefixId[h[1]][p] = PrefixId[q][p]
      BY <3>10, <3>11, PrefixOwner
    <3>13. PICK s, t, g : s = loop.scheduled /\ t = m.req_to_blocks /\ g = m.pool.hash
      OBVIOUS
    <3>14. FillsCache(kv, s, req, t, g) /\ s = << >>
      BY <2>2, <3>13 DEF KVInv, LoopStates
    <3>15. Blk(p) * block_size <= MaxLen(q) /\ g[b] = BlockHash(q, Blk(p))
      BY <3>2, <3>5, <3>8, <3>13
    <3>16. Filled(kv, s, req, t, b, Slot(p), PrefixId[q][p])
      BY <3>8, <3>14, <3>15 DEF FillsCache
    <3>17. ~ Pending(s, req, t, b, Slot(p))
      BY <3>14, NothingPending
    <3>18. kv[b][l] = PrefixId[q][p]
      BY <3>8, <3>16, <3>17 DEF Filled
    <3>19. e[1][2] - block_size + l = p /\ e[1][1] = h[1]
      BY <3>6, <3>7, <3>9, <3>12
    <3> QED BY <3>6, <3>12, <3>18, <3>19
  <2> QED BY <2>1, <2>2 DEF CachedBlocksComputed
<1> QED BY <1>1, SchedulerBlocks, SchedulerKV, PTL
=============================================================================
