--------------------------- MODULE Scheduler_proof ---------------------------
(***************************************************************************)
(* Proofs about Scheduler, for any number of requests, blocks and steps in  *)
(* flight and every configuration.                                          *)
(*                                                                          *)
(* QueueInv puts every request once into the queue that its status names    *)
(* (Placed), counted with Count. Beside the types of the queues it needs    *)
(* Cursor: in the loop over running the index is a place in the queue, so   *)
(* that the request it selects, and the victim that gives way to it, are    *)
(* running. A request moves by Without, which takes one occurrence out of   *)
(* one queue, and by being put at the front or the end of another, so the   *)
(* actions are covered by four lemmas on counts: PreemptMoves, SkipMoves,   *)
(* AdmitMoves and FinishMoves. That the priorities single out a request for *)
(* Peek and Victim at all is FirstRequest and LastRequest.                  *)
(*                                                                          *)
(* TokenInv says what the counters of a request mean while steps that were  *)
(* issued for it are in flight. Its heart is Counts: running along the      *)
(* steps that are not processed, oldest first, c counts the tokens of the   *)
(* request and o the outputs it will still take, and the entry that is to   *)
(* deliver the next output was issued for that very position. What c ends   *)
(* with is num_in_flight_tokens, and what o ends with is how far the        *)
(* request has run ahead of its output (Progress): its placeholders with    *)
(* the AsyncScheduler, at most one step without it. Output is taken only    *)
(* beyond the stale tokens, or while they need not be dropped, and all that *)
(* is in flight of a request that waits is stale; so after a preemption the *)
(* positions start again from num_tokens. Beside that the invariant needs   *)
(* what an entry holds (StepInv), that the step in the making takes no      *)
(* request twice nor beyond its tokens (LoopInv), and that a failed load    *)
(* leaves tokens to compute (LoadInv). An entry is issued by CountsIssue,   *)
(* landed by CountsLanded, and made stale by CountsPreempted.               *)
(*                                                                          *)
(* FenceInv is about the numbers of the steps: with defer_block_free,       *)
(* sched_step_seq is the number of steps with tokens in flight, and the     *)
(* fence of every deferred free is one of theirs (Fenced), so that the last *)
(* of them drains the last free.                                            *)
(***************************************************************************)
EXTENDS Scheduler, FiniteSetTheorems, SequenceTheorems, WellFoundedInduction, TLAPS

-----------------------------------------------------------------------------
(* Numbers and sequences.                                                   *)

\* A set of natural numbers has a least element.
LEMMA LeastNat ==
  ASSUME NEW T \in SUBSET Nat, T # {}
  PROVE  \E x \in T : \A y \in T : x <= y
<1>1. PICK x \in T : \A y \in T : ~ (<<y, x>> \in OpToRel(<, Nat))
  BY WFMin, NatLessThanWellFounded
<1>2. ASSUME NEW y \in T PROVE x <= y
  <2>1. ~ (<<y, x>> \in OpToRel(<, Nat))
    BY <1>1
  <2>2. x \in Nat /\ y \in Nat
    OBVIOUS
  <2>3. y < x => <<y, x>> \in OpToRel(<, Nat)
    BY <2>2 DEF OpToRel
  <2>4. ~ (y < x)
    BY <2>1, <2>3, Zenon
  <2> QED BY <2>2, <2>4
<1> QED BY <1>2

\* The places of r in a queue are finitely many.
LEMMA CountNat ==
  ASSUME NEW S, NEW s \in Seq(S), NEW r
  PROVE  /\ IsFiniteSet({i \in DOMAIN s : s[i] = r}) /\ Count(s, r) \in Nat
         /\ Count(s, r) = 0 <=> r \notin ToSet(s)
<1> DEFINE P == {i \in DOMAIN s : s[i] = r}
<1>1. IsFiniteSet(1 .. Len(s)) /\ P \in SUBSET (1 .. Len(s))
  BY FS_Interval
<1>2. IsFiniteSet(P)
  BY <1>1, FS_Subset
<1>3. Cardinality(P) \in Nat /\ (Cardinality(P) = 0 <=> P = {})
  BY <1>2, FS_CardinalityType, FS_EmptySet
<1>4. P = {} <=> r \notin ToSet(s)
  BY DEF ToSet
<1> QED BY <1>2, <1>3, <1>4 DEF Count

\* Occurrences in a concatenation.
LEMMA CountCat ==
  ASSUME NEW S, NEW s \in Seq(S), NEW t \in Seq(S), NEW r
  PROVE  Count(s \o t, r) = Count(s, r) + Count(t, r)
<1> DEFINE P == {i \in DOMAIN s : s[i] = r}
           Q == {i \in DOMAIN t : t[i] = r}
           R == {i \in DOMAIN (s \o t) : (s \o t)[i] = r}
           Q1 == {i \in (Len(s) + 1) .. (Len(s) + Len(t)) : t[i - Len(s)] = r}
           f == [i \in Q |-> i + Len(s)]
<1>1. IsFiniteSet(P) /\ IsFiniteSet(Q)
  BY CountNat
<1>2. R = P \cup Q1 /\ P \cap Q1 = {}
  OBVIOUS
<1>3. f \in Bijection(Q, Q1)
  <2>1. f \in [Q -> Q1] /\ \A i, j \in Q : f[i] = f[j] => i = j
    OBVIOUS
  <2>2. \A j \in Q1 : j - Len(s) \in Q /\ f[j - Len(s)] = j
    OBVIOUS
  <2> HIDE DEF f, Q, Q1
  <2> QED BY <2>1, <2>2 DEF Bijection, Injection, Surjection, IsInjective
<1>4. IsFiniteSet(Q1) /\ Cardinality(Q1) = Cardinality(Q)
  <2> HIDE DEF f, Q, Q1
  <2> QED BY <1>1, <1>3, FS_Bijection DEF ExistsBijection
<1>5. Cardinality(R) = Cardinality(P) + Cardinality(Q)
  <2> HIDE DEF P, Q, Q1, R
  <2>1. Cardinality(P \cup Q1) = Cardinality(P) + Cardinality(Q1) - Cardinality(P \cap Q1)
    BY <1>1, <1>4, FS_Union
  <2>2. Cardinality(P) \in Nat /\ Cardinality(Q1) \in Nat
    BY <1>1, <1>4, FS_CardinalityType
  <2>3. Cardinality({}) = 0
    BY FS_EmptySet
  <2>4. Cardinality(R) = Cardinality(P) + Cardinality(Q1) - 0
    BY <1>2, <2>1, <2>3
  <2> QED BY <2>2, <2>4, <1>4
<1> QED BY <1>5 DEF Count

\* Occurrences in short queues, and after an Append.
LEMMA CountSingle ==
  ASSUME NEW x, NEW r
  PROVE  Count(<<x>>, r) = IF x = r THEN 1 ELSE 0
<1>1. CASE x = r
  <2>1. {i \in DOMAIN <<x>> : <<x>>[i] = r} = {1}
    BY <1>1
  <2> QED BY <1>1, <2>1, FS_Singleton DEF Count
<1>2. CASE x # r
  <2>1. {i \in DOMAIN <<x>> : <<x>>[i] = r} = {}
    BY <1>2
  <2> QED BY <1>2, <2>1, FS_EmptySet DEF Count
<1> QED BY <1>1, <1>2

LEMMA CountEmpty ==
  ASSUME NEW r
  PROVE  Count(<< >>, r) = 0
<1>1. {i \in DOMAIN << >> : << >>[i] = r} = {}
  OBVIOUS
<1> QED BY <1>1, FS_EmptySet DEF Count

LEMMA CountLast ==
  ASSUME NEW S, NEW s \in Seq(S), NEW x \in S, NEW r
  PROVE  /\ Append(s, x) \in Seq(S)
         /\ Count(Append(s, x), r) = Count(s, r) + (IF x = r THEN 1 ELSE 0)
<1>1. <<x>> \in Seq(S) /\ Append(s, x) = s \o <<x>> /\ Append(s, x) \in Seq(S)
  OBVIOUS
<1>2. Count(s \o <<x>>, r) = Count(s, r) + Count(<<x>>, r)
  BY <1>1, CountCat
<1>3. Count(<<x>>, r) = IF x = r THEN 1 ELSE 0
  BY CountSingle
<1> QED BY <1>1, <1>2, <1>3

LEMMA CountFirst ==
  ASSUME NEW S, NEW s \in Seq(S), NEW x \in S, NEW r
  PROVE  /\ <<x>> \o s \in Seq(S)
         /\ Count(<<x>> \o s, r) = Count(s, r) + (IF x = r THEN 1 ELSE 0)
<1>1. <<x>> \in Seq(S) /\ <<x>> \o s \in Seq(S)
  OBVIOUS
<1>2. Count(s, r) \in Nat
  BY CountNat
<1>3. Count(<<x>> \o s, r) = Count(<<x>>, r) + Count(s, r)
  BY <1>1, CountCat
<1>4. Count(<<x>>, r) = IF x = r THEN 1 ELSE 0
  BY CountSingle
<1> QED BY <1>1, <1>2, <1>3, <1>4

\* A sequence is what is before an element, the element, and what is behind it.
LEMMA SplitAt ==
  ASSUME NEW S, NEW s \in Seq(S), NEW k \in 1 .. Len(s)
  PROVE  s = (SubSeq(s, 1, k - 1) \o <<s[k]>>) \o SubSeq(s, k + 1, Len(s))
<1>1. k \in Nat /\ Len(s) \in Nat /\ 1 <= k /\ k <= Len(s) /\ s[k] \in S
  OBVIOUS
<1>2. PICK a, z : a = SubSeq(s, 1, k - 1) /\ z = SubSeq(s, k + 1, Len(s))
  OBVIOUS
<1>3. a \in Seq(S) /\ Len(a) = k - 1 /\ \A i \in 1 .. (k - 1) : a[i] = s[i]
  BY <1>1, <1>2
<1>4. z \in Seq(S) /\ Len(z) = Len(s) - k /\ \A i \in 1 .. (Len(s) - k) : z[i] = s[k + i]
  BY <1>1, <1>2
<1>5. PICK u : u = a \o <<s[k]>>
  OBVIOUS
<1>6. /\ u \in Seq(S) /\ Len(u) = k /\ u[k] = s[k]
      /\ \A i \in 1 .. (k - 1) : u[i] = s[i]
  <2>1. a \in Seq(S) /\ <<s[k]>> \in Seq(S) /\ Len(<<s[k]>>) = 1 /\ <<s[k]>>[1] = s[k]
    BY <1>1, <1>3
  <2>2. PICK o : o = <<s[k]>>
    OBVIOUS
  <2>3. /\ u \in Seq(S) /\ Len(u) = Len(a) + Len(o)
        /\ \A i \in 1 .. Len(a) : u[i] = a[i]
        /\ \A i \in 1 .. Len(o) : u[Len(a) + i] = o[i]
    BY <1>5, <2>1, <2>2
  <2>4. Len(o) = 1 /\ o[1] = s[k]
    BY <2>1, <2>2
  <2>5. u[Len(a) + 1] = s[k]
    BY <2>3, <2>4
  <2> QED BY <1>1, <1>3, <2>3, <2>4, <2>5
<1>7. PICK t : t = u \o z
  OBVIOUS
<1>8. /\ t \in Seq(S) /\ Len(t) = Len(u) + Len(z)
      /\ \A i \in 1 .. Len(u) : t[i] = u[i]
      /\ \A i \in 1 .. Len(z) : t[Len(u) + i] = z[i]
  <2>1. u \in Seq(S) /\ z \in Seq(S)
    BY <1>4, <1>6
  <2> QED BY <1>7, <2>1
<1>9. ASSUME NEW i \in 1 .. Len(s)
      PROVE  t[i] = s[i]
  <2>1. CASE i <= k
    BY <2>1, <1>1, <1>6, <1>8
  <2>2. CASE i > k
    <3>1. i - k \in 1 .. Len(z) /\ k + (i - k) = i /\ i - k \in 1 .. (Len(s) - k)
      BY <2>2, <1>1, <1>4
    <3>2. t[k + (i - k)] = z[i - k] /\ z[i - k] = s[k + (i - k)]
      BY <3>1, <1>4, <1>6, <1>8
    <3> QED BY <3>1, <3>2
  <2>3. i \in Int
    OBVIOUS
  <2> QED BY <2>1, <2>2, <2>3, <1>1
<1>10. Len(t) = Len(s) /\ t \in Seq(S)
  BY <1>1, <1>4, <1>6, <1>8
<1>11. t = s
  BY <1>9, <1>10, SeqEqual
<1> QED BY <1>2, <1>5, <1>7, <1>11

\* Without takes out one occurrence.
LEMMA WithoutIs ==
  ASSUME NEW S, NEW s \in Seq(S), NEW x
  PROVE  /\ Without(s, x) \in Seq(S)
         /\ \A r : Count(Without(s, x), r)
                     = Count(s, r) - (IF x = r /\ x \in ToSet(s) THEN 1 ELSE 0)
<1>1. CASE x \notin ToSet(s)
  <2>1. Without(s, x) = s
    BY <1>1 DEF Without, RemoveFirst, ToSet
  <2>2. \A r : Count(s, r) \in Nat
    BY CountNat
  <2> QED BY <1>1, <2>1, <2>2
<1>2. CASE x \in ToSet(s)
  <2> DEFINE I == {i \in 1 .. Len(s) : s[i] = x}
  <2>1. I # {} /\ I \in SUBSET Nat
    BY <1>2 DEF ToSet
  <2>2. \E k \in I : \A j \in I : k <= j
    BY <2>1, LeastNat
  <2> DEFINE k == Min(I)
  <2>3. k \in I
    <3> HIDE DEF I
    <3> QED BY <2>2 DEF Min
  <2>4. k \in 1 .. Len(s) /\ s[k] = x
    BY <2>3
  <2>5. SelectInSeq(s, LAMBDA v : v = x) = k
    BY <2>1 DEF SelectInSeq
  <2>6. Without(s, x) = RemoveAt(s, k)
    <3> HIDE DEF k
    <3> QED BY <2>4, <2>5 DEF Without, RemoveFirst
  <2> HIDE DEF k, I
  <2> DEFINE pre == SubSeq(s, 1, k - 1)
             post == SubSeq(s, k + 1, Len(s))
  <2>7. pre \in Seq(S) /\ post \in Seq(S) /\ <<x>> \in Seq(S)
    BY <2>4
  <2>8. s = (pre \o <<x>>) \o post
    BY <2>4, SplitAt
  <2> HIDE DEF pre, post
  <2>9. Without(s, x) = pre \o post
    BY <2>6 DEF RemoveAt, pre, post
  <2>10. pre \o <<x>> \in Seq(S) /\ pre \o post \in Seq(S)
    BY <2>7
  <2>11. ASSUME NEW r
         PROVE  Count(Without(s, x), r) = Count(s, r) - (IF x = r THEN 1 ELSE 0)
    <3>1. Count(pre, r) \in Nat /\ Count(post, r) \in Nat
      BY <2>7, CountNat
    <3>2. Count(s, r) = Count(pre \o <<x>>, r) + Count(post, r)
      BY <2>7, <2>8, <2>10, CountCat
    <3>3. Count(pre \o <<x>>, r) = Count(pre, r) + (IF x = r THEN 1 ELSE 0)
      <4>1. Count(pre \o <<x>>, r) = Count(pre, r) + Count(<<x>>, r)
        BY <2>7, CountCat
      <4> QED BY <4>1, CountSingle
    <3>4. Count(Without(s, x), r) = Count(pre, r) + Count(post, r)
      BY <2>7, <2>9, CountCat
    <3> QED BY <3>1, <3>2, <3>3, <3>4
  <2> QED BY <1>2, <2>9, <2>10, <2>11
<1> QED BY <1>1, <1>2

LEMMA CountReverse ==
  ASSUME NEW S, NEW s \in Seq(S), NEW r
  PROVE  Reverse(s) \in Seq(S) /\ Count(Reverse(s), r) = Count(s, r)
<1> DEFINE t == Reverse(s)
           P == {i \in DOMAIN s : s[i] = r}
           Q == {i \in DOMAIN t : t[i] = r}
           f == [i \in P |-> (Len(s) - i) + 1]
<1>1. t \in Seq(S) /\ DOMAIN t = 1 .. Len(s) /\ \A i \in 1 .. Len(s) : t[i] = s[(Len(s) - i) + 1]
  BY DEF Reverse
<1>2. f \in [P -> Q] /\ \A i, j \in P : f[i] = f[j] => i = j
  <2> HIDE DEF t
  <2> QED BY <1>1
<1>3. \A j \in Q : (Len(s) - j) + 1 \in P /\ f[(Len(s) - j) + 1] = j
  <2> HIDE DEF t
  <2> QED BY <1>1
<1>4. f \in Bijection(P, Q)
  <2> HIDE DEF f, P, Q
  <2> QED BY <1>2, <1>3 DEF Bijection, Injection, Surjection, IsInjective
<1>5. IsFiniteSet(P)
  BY CountNat
<1>6. Cardinality(P) = Cardinality(Q)
  <2> HIDE DEF f, P, Q
  <2> QED BY <1>4, <1>5, FS_Bijection DEF ExistsBijection
<1> QED BY <1>1, <1>6 DEF Count

-----------------------------------------------------------------------------
(* The order of requests.                                                   *)

\* A bounded set of natural numbers has a greatest element.
LEMMA GreatestNat ==
  ASSUME NEW n \in Nat, NEW T \in SUBSET (0 .. n), T # {}
  PROVE  \E x \in T : \A y \in T : y <= x
<1> DEFINE U == {k \in 0 .. n : n - k \in T}
<1>1. U \in SUBSET Nat
  OBVIOUS
<1>2. U # {}
  <2>1. PICK x \in T : TRUE
    OBVIOUS
  <2>2. n - x \in 0 .. n /\ n - (n - x) = x
    BY <2>1
  <2> QED BY <2>1, <2>2
<1>3. PICK k \in U : \A j \in U : k <= j
  <2> HIDE DEF U
  <2> QED BY <1>1, <1>2, LeastNat
<1>4. ASSUME NEW y \in T
      PROVE  y <= n - k
  <2>1. n - y \in U /\ y \in 0 .. n
    OBVIOUS
  <2>2. k <= n - y /\ k \in 0 .. n
    BY <1>3, <2>1
  <2> QED BY <2>1, <2>2
<1> QED BY <1>3, <1>4

\* The priorities are bounded.
LEMMA PriorityBound == \E n \in Nat : \A r \in Reqs : Priority[r] <= n
<1> DEFINE T == {k \in 0 .. NumReqs : \A n \in Nat : \E r \in 1 .. k : ~ (Priority[r] <= n)}
<1>1. NumReqs \in Nat /\ Priority \in [1 .. NumReqs -> Nat]
  BY ManagerAssumption, SchedulerAssumption
<1>2. SUFFICES NumReqs \notin T
  BY <1>1 DEF Reqs
<1>3. SUFFICES ASSUME T # {}
               PROVE  FALSE
  OBVIOUS
<1>4. T \in SUBSET Nat
  BY <1>1
<1>5. PICK k \in T : \A j \in T : k <= j
  <2> HIDE DEF T
  <2> QED BY <1>3, <1>4, LeastNat
<1>6. k \in 0 .. NumReqs /\ \A n \in Nat : \E r \in 1 .. k : ~ (Priority[r] <= n)
  BY <1>5
<1>7. k # 0
  BY <1>6
<1>8. k - 1 \in 0 .. NumReqs /\ k - 1 \notin T
  <2>1. k - 1 \in 0 .. NumReqs /\ ~ (k <= k - 1)
    BY <1>1, <1>6, <1>7
  <2> HIDE DEF T
  <2> QED BY <2>1, <1>5
<1>9. PICK n \in Nat : \A r \in 1 .. (k - 1) : Priority[r] <= n
  BY <1>8
<1>10. k \in 1 .. NumReqs /\ Priority[k] \in Nat
  BY <1>1, <1>6, <1>7
<1>11. n + Priority[k] \in Nat /\ \A r \in 1 .. k : Priority[r] <= n + Priority[k]
  <2>1. ASSUME NEW r \in 1 .. k
        PROVE  Priority[r] <= n + Priority[k]
    <3>1. r \in 1 .. NumReqs /\ Priority[r] \in Nat
      BY <1>1, <1>10
    <3>2. CASE r = k
      BY <3>2, <1>10
    <3>3. CASE r # k
      BY <3>1, <3>3, <1>9, <1>10
    <3> QED BY <3>2, <3>3
  <2> QED BY <2>1, <1>10
<1> QED BY <1>6, <1>11

\* Among some requests there is a first one and a last one.
LEMMA FirstRequest ==
  ASSUME NEW T \in SUBSET Reqs, T # {}
  PROVE  \E r \in T : \A q \in T : q = r \/ Before(r, q)
<1> DEFINE P == {Priority[r] : r \in T}
<1>1. Reqs \subseteq Nat /\ \A r \in Reqs : Priority[r] \in Nat
  BY ManagerAssumption, SchedulerAssumption DEF Reqs
<1>2. P \in SUBSET Nat /\ P # {}
  BY <1>1
<1>3. PICK p \in P : \A x \in P : p <= x
  <2> HIDE DEF P
  <2> QED BY <1>2, LeastNat
<1> DEFINE U == {r \in T : Priority[r] = p}
<1>4. U \in SUBSET Nat /\ U # {}
  BY <1>1, <1>3
<1>5. PICK r \in U : \A x \in U : r <= x
  <2> HIDE DEF U
  <2> QED BY <1>4, LeastNat
<1>6. ASSUME NEW q \in T
      PROVE  q = r \/ Before(r, q)
  <2>1. r \in T /\ Priority[r] = p /\ p <= Priority[q] /\ p \in Nat /\ Priority[q] \in Nat
    BY <1>1, <1>3
  <2>2. Priority[q] = p => r <= q
    BY <1>5
  <2>3. r \in Nat /\ q \in Nat
    BY <1>1, <2>1
  <2> QED BY <2>1, <2>2, <2>3 DEF Before
<1> QED BY <1>5, <1>6

LEMMA LastRequest ==
  ASSUME NEW T \in SUBSET Reqs, T # {}
  PROVE  \E r \in T : \A q \in T : q = r \/ Before(q, r)
<1> DEFINE P == {Priority[r] : r \in T}
<1>1. /\ NumReqs \in Nat /\ Reqs \subseteq 0 .. NumReqs
      /\ \A r \in Reqs : Priority[r] \in Nat
  BY ManagerAssumption, SchedulerAssumption DEF Reqs
<1>2. PICK n \in Nat : \A r \in Reqs : Priority[r] <= n
  BY PriorityBound
<1>3. P \in SUBSET (0 .. n) /\ P # {}
  <2>1. \A r \in T : Priority[r] \in Nat /\ Priority[r] <= n
    BY <1>1, <1>2
  <2>2. \A r \in T : Priority[r] \in 0 .. n
    BY <2>1
  <2> QED BY <2>2
<1>4. PICK p \in P : \A x \in P : x <= p
  <2> HIDE DEF P
  <2> QED BY <1>3, GreatestNat
<1> DEFINE U == {r \in T : Priority[r] = p}
<1>5. U \in SUBSET (0 .. NumReqs) /\ U # {}
  BY <1>1, <1>4
<1>6. PICK r \in U : \A x \in U : x <= r
  <2> HIDE DEF U
  <2> QED BY <1>1, <1>5, GreatestNat
<1>7. ASSUME NEW q \in T
      PROVE  q = r \/ Before(q, r)
  <2>1. r \in T /\ Priority[r] = p /\ Priority[q] <= p /\ p \in Nat /\ Priority[q] \in Nat
    BY <1>1, <1>4
  <2>2. Priority[q] = p => q <= r
    BY <1>6
  <2>3. r \in Nat /\ q \in Nat
    BY <1>1, <2>1
  <2> QED BY <2>1, <2>2, <2>3 DEF Before
<1> QED BY <1>6, <1>7

\* peek_request returns a request of the queue.
LEMMA PeekIn ==
  ASSUME NEW s \in Seq(Reqs), s # << >>
  PROVE  Peek(s) \in ToSet(s)
<1>1. ToSet(s) \in SUBSET Reqs /\ s[1] \in ToSet(s) /\ Head(s) = s[1]
  BY DEF ToSet
<1>2. \E r \in ToSet(s) : \A q \in ToSet(s) : q = r \/ Before(r, q)
  BY <1>1, FirstRequest
<1> QED BY <1>1, <1>2 DEF Peek

LEMMA VictimIn ==
  ASSUME running \in Seq(Reqs), running # << >>
  PROVE  Victim \in ToSet(running)
<1>1. /\ ToSet(running) \in SUBSET Reqs /\ Last(running) \in ToSet(running)
      /\ ToSet(running) # {}
  BY DEF ToSet, Last
<1>2. \E r \in ToSet(running) : \A q \in ToSet(running) : q = r \/ Before(q, r)
  BY <1>1, LastRequest
<1> QED BY <1>1, <1>2 DEF Victim

LEMMA NextWaitingIn ==
  ASSUME waiting \in Seq(Reqs), skipped_waiting \in Seq(Reqs), CanAdmit
  PROVE  NextWaiting \in ToSet(waiting) \/ NextWaiting \in ToSet(skipped_waiting)
<1>1. waiting # << >> => Peek(waiting) \in ToSet(waiting)
  BY PeekIn
<1>2. skipped_waiting # << >> => Peek(skipped_waiting) \in ToSet(skipped_waiting)
  BY PeekIn
<1> QED BY <1>1, <1>2 DEF NextWaiting, CanAdmit

-----------------------------------------------------------------------------
(* The queues.                                                              *)

Waitable == {"WAITING", "WAITING_FOR_REMOTE_KVS", "PREEMPTED"}
RequestFields ==
  {"status", "num_tokens", "num_computed_tokens", "num_in_flight_tokens",
   "num_output_placeholders", "num_stale_output_tokens", "drop_stale_output",
   "last_sched_seq", "decode_wait", "prefilling"}
LoadFields == {"state", "first", "blocks", "invalid", "failed", "steps", "back"}
LoopFields == {"index", "request", "num_new", "budget", "scheduled", "preempted", "skipped"}

\* The records have their fields.
Fields ==
  /\ DOMAIN req = Reqs /\ \A r \in Reqs : DOMAIN req[r] = RequestFields
  /\ DOMAIN load = Reqs /\ \A r \in Reqs : DOMAIN load[r] = LoadFields
  /\ DOMAIN loop = LoopFields

Queues ==
  /\ running \in Seq(Reqs) /\ waiting \in Seq(Reqs) /\ skipped_waiting \in Seq(Reqs)
  /\ loop.skipped \in Seq(Reqs)

Statuses ==
  \A r \in Reqs : /\ req[r].status \in Waitable \cup {"ABSENT", "RUNNING", "FINISHED"}
                 /\ load[r].back \in {"WAITING", "PREEMPTED"}

\* How often r waits.
Waits(r) ==
  Count(waiting, r) + Count(skipped_waiting, r)
    + (IF pc = "waiting" THEN Count(loop.skipped, r) ELSE 0)

Placed(r) ==
  /\ Count(running, r) = IF req[r].status = "RUNNING" THEN 1 ELSE 0
  /\ Waits(r) = IF req[r].status \in Waitable THEN 1 ELSE 0

\* The loop over running requests looks at one of them.
Cursor ==
  /\ pc \in {"running", "allocate"} =>
       loop.skipped = << >> /\ loop.index \in Nat /\ loop.index >= 1
  /\ pc = "allocate" => loop.request \in ToSet(running)

QueueInv == Fields /\ Queues /\ Statuses /\ Cursor /\ \A r \in Reqs : Placed(r)

LEMMA PlacedIs ==
  ASSUME Statuses
  PROVE  QueuesMatchStatus <=> \A r \in Reqs : Placed(r)
BY DEF QueuesMatchStatus, Statuses, Placed, Waits, Waitable

LEMMA QueueInit == Init => QueueInv
<1> SUFFICES ASSUME Init PROVE QueueInv
  OBVIOUS
<1>1. Fields
  BY DEF Init, Fields, NewRequest, NoLoad, NoLoop, RequestFields, LoadFields, LoopFields
<1>2. Queues /\ Statuses /\ Cursor
  BY DEF Init, Queues, Statuses, Cursor, NewRequest, NoLoad, NoLoop
<1>3. \A r \in Reqs : Placed(r)
  BY CountEmpty DEF Init, Placed, Waits, Waitable, NewRequest, NoLoop
<1> QED BY <1>1, <1>2, <1>3 DEF QueueInv

\* A step that leaves the queues and the statuses alone.
LEMMA SameQueues ==
  ASSUME QueueInv, Fields', Cursor',
         UNCHANGED <<running, waiting, skipped_waiting>>,
         \A r \in Reqs : req'[r].status = req[r].status /\ load'[r].back = load[r].back,
         loop'.skipped \in Seq(Reqs),
         \/ pc' = pc /\ loop'.skipped = loop.skipped
         \/ pc # "waiting" /\ pc' # "waiting"
         \/ pc # "waiting" /\ loop'.skipped = << >>
  PROVE  QueueInv'
<1>1. Queues' /\ Statuses'
  BY DEF QueueInv, Queues, Statuses
<1>2. ASSUME NEW r \in Reqs
      PROVE  Placed(r)'
  <2>1. /\ Placed(r) /\ Count(waiting, r) \in Nat /\ Count(skipped_waiting, r) \in Nat
        /\ Count(<< >>, r) = 0
    BY CountNat, CountEmpty DEF QueueInv, Queues
  <2>2. Waits(r)' = Waits(r)
    BY <2>1 DEF Waits
  <2> QED BY <2>1, <2>2 DEF Placed
<1> QED BY <1>1, <1>2 DEF QueueInv

\* A step of schedule() that only moves the loop on.
LEMMA ScheduleSteps ==
  ASSUME QueueInv,
         ScheduleBegin \/ RunningSelect \/ RunningDone \/ RunningAllocate \/ Issue
  PROVE  QueueInv'
<1>1. CASE ScheduleBegin
  <2>1. \A r \in Reqs : DOMAIN req'[r] = RequestFields /\ req'[r].status = req[r].status
    BY <1>1 DEF QueueInv, ScheduleBegin, Fields, RequestFields
  <2>2. /\ DOMAIN loop' = LoopFields /\ loop'.skipped = << >> /\ loop'.index = 1
        /\ pc' = "running" /\ DOMAIN req' = Reqs
    BY <1>1 DEF ScheduleBegin, NoLoop, LoopFields
  <2>3. Fields' /\ Cursor'
    BY <1>1, <2>1, <2>2 DEF QueueInv, ScheduleBegin, Fields, Cursor
  <2>4. loop'.skipped \in Seq(Reqs)
    BY <2>2
  <2> QED BY <1>1, <2>1, <2>2, <2>3, <2>4, SameQueues DEF ScheduleBegin
<1>2. CASE RunningSelect
  <2>1. Fields' /\ loop'.skipped = loop.skipped
    BY <1>2 DEF QueueInv, RunningSelect, Fields, RequestFields, LoopFields
  <2>2. Cursor'
    <3>1. /\ running \in Seq(Reqs) /\ loop.index \in Nat /\ loop.index >= 1
          /\ loop.index <= Len(running) /\ loop.skipped = << >>
      BY <1>2 DEF QueueInv, RunningSelect, RunningLeft, Cursor, Queues
    <3>2. running[loop.index] \in ToSet(running)
      BY <3>1 DEF ToSet
    <3>3. DOMAIN loop = LoopFields
      BY DEF QueueInv, Fields
    <3>4. UNCHANGED running /\ loop'.index \in Nat /\ loop'.index >= 1
          /\ (pc' = "allocate" => loop'.request = running[loop.index])
      <4>1. UNCHANGED running
            /\ \/ loop' = [loop EXCEPT !.index = @ + 1] /\ pc' = pc
               \/ loop' = [loop EXCEPT !.request = running[loop.index],
                                       !.num_new = NumNewTokens(running[loop.index])]
        BY <1>2 DEF RunningSelect
      <4>2. pc = "running"
        BY <1>2 DEF RunningSelect
      <4>3. CASE loop' = [loop EXCEPT !.index = @ + 1] /\ pc' = pc
        <5>1. loop'.index = loop.index + 1
          BY <3>3, <4>3 DEF LoopFields
        <5> QED BY <3>1, <4>1, <4>2, <4>3, <5>1
      <4>4. CASE loop' = [loop EXCEPT !.request = running[loop.index],
                                      !.num_new = NumNewTokens(running[loop.index])]
        <5>1. loop'.index = loop.index /\ loop'.request = running[loop.index]
          BY <3>3, <4>4 DEF LoopFields
        <5> QED BY <3>1, <4>1, <5>1
      <4> QED BY <4>1, <4>3, <4>4
    <3> QED BY <2>1, <3>1, <3>2, <3>4 DEF Cursor
  <2> QED BY <1>2, <2>1, <2>2, SameQueues DEF QueueInv, Queues, RunningSelect
<1>3. CASE RunningDone
  BY <1>3, SameQueues DEF QueueInv, RunningDone, Fields, Cursor, Queues
<1>4. CASE RunningAllocate
  <2>1. Fields' /\ loop'.skipped = loop.skipped
    BY <1>4 DEF QueueInv, RunningAllocate, Fields, RequestFields, LoopFields
  <2>2. Cursor'
    BY <1>4 DEF QueueInv, RunningAllocate, Fields, Cursor, LoopFields
  <2> QED BY <1>4, <2>1, <2>2, SameQueues DEF QueueInv, Queues, RunningAllocate
<1>5. CASE Issue
  <2>1. Fields' /\ \A r \in Reqs : req'[r].status = req[r].status
    BY <1>5 DEF QueueInv, Issue, Fields, NoLoop, RequestFields, LoopFields
  <2>2. Cursor' /\ loop'.skipped = << >>
    BY <1>5 DEF Issue, Cursor, NoLoop
  <2>3. /\ pc = "issue" /\ pc' = "idle"
        /\ UNCHANGED <<running, waiting, skipped_waiting, load>>
    BY <1>5 DEF Issue
  <2>4. loop'.skipped \in Seq(Reqs)
    BY <2>2
  <2> QED BY <2>1, <2>2, <2>3, <2>4, SameQueues
<1> QED BY <1>1, <1>2, <1>3, <1>4, <1>5

\* What Without does to the counts of a queue in which x is at most once.
LEMMA WithoutCounts ==
  ASSUME NEW s \in Seq(Reqs), NEW x \in Reqs
  PROVE  /\ Without(s, x) \in Seq(Reqs)
         /\ \A q \in Reqs : /\ Count(s, q) \in Nat /\ Count(Without(s, x), q) \in Nat
                            /\ q # x => Count(Without(s, x), q) = Count(s, q)
         /\ Count(s, x) <= 1 => Count(Without(s, x), x) = 0
<1>1. /\ Without(s, x) \in Seq(Reqs)
      /\ \A r : Count(Without(s, x), r)
                  = Count(s, r) - (IF x = r /\ x \in ToSet(s) THEN 1 ELSE 0)
  BY WithoutIs
<1>2. \A q \in Reqs : Count(s, q) \in Nat /\ (Count(s, q) = 0 <=> q \notin ToSet(s))
  BY CountNat
<1>3. \A q \in Reqs : Count(Without(s, x), q) \in Nat
  BY <1>1, CountNat
<1> QED BY <1>1, <1>2, <1>3

\* A running request is preempted.
LEMMA PreemptMoves ==
  ASSUME QueueInv, NEW v \in ToSet(running), NEW drop, pc # "waiting", pc' # "waiting",
         running' = Without(running, v), waiting' = <<v>> \o waiting,
         skipped_waiting' = skipped_waiting,
         req' = [req EXCEPT ![v] = Preempted(v, drop)], load' = load,
         loop'.skipped = loop.skipped, DOMAIN loop' = LoopFields, Cursor'
  PROVE  QueueInv'
<1>1. v \in Reqs
  BY DEF QueueInv, Queues, ToSet
<1>2. /\ DOMAIN req' = Reqs /\ \A q \in Reqs : DOMAIN req'[q] = RequestFields
      /\ \A q \in Reqs : q # v => req'[q] = req[q]
      /\ req'[v].status = "PREEMPTED"
  BY <1>1 DEF QueueInv, Fields, Preempted, RequestFields
<1>3. Fields'
  BY <1>2 DEF QueueInv, Fields
<1>4. Queues'
  BY <1>1, WithoutCounts, CountFirst DEF QueueInv, Queues
<1>5. Statuses'
  BY <1>2 DEF QueueInv, Statuses, Waitable
<1>6. ASSUME NEW q \in Reqs
      PROVE  Placed(q)'
  <2>1. /\ Count(running, q) \in Nat /\ Count(running', q) \in Nat
        /\ Count(waiting, q) \in Nat /\ Count(skipped_waiting, q) \in Nat
        /\ q # v => Count(running', q) = Count(running, q)
        /\ Count(running, v) <= 1 => Count(running', v) = 0
    BY <1>1, WithoutCounts, CountNat DEF QueueInv, Queues
  <2>1a. Count(waiting', q) = Count(waiting, q) + (IF v = q THEN 1 ELSE 0)
    <3>1. waiting \in Seq(Reqs)
      BY DEF QueueInv, Queues
    <3> QED BY <1>1, <3>1, CountFirst
  <2>2. Placed(q) /\ (q = v => Count(running, q) # 0)
    BY CountNat DEF QueueInv, Queues
  <2>3. CASE q # v
    BY <1>2, <2>1, <2>1a, <2>2, <2>3 DEF Placed, Waits
  <2>4. CASE q = v
    BY <1>2, <2>1, <2>1a, <2>2, <2>4, SMTT(30) DEF Placed, Waits, Waitable
  <2> QED BY <2>3, <2>4
<1> QED BY <1>3, <1>4, <1>5, <1>6 DEF QueueInv

\* A request is finished and leaves its queue.
LEMMA FinishMoves ==
  ASSUME QueueInv, NEW v \in Reqs, pc \in {"idle", "update"}, UNCHANGED <<pc, loop>>,
         running' = Without(running, v), Dequeue(v), Fields',
         \A q \in Reqs : q # v => req'[q].status = req[q].status,
         \A q \in Reqs : load'[q].back \in {"WAITING", "PREEMPTED"},
         req'[v].status = "FINISHED"
  PROVE  QueueInv'
<1>1. Queues'
  BY WithoutCounts DEF QueueInv, Queues, Dequeue
<1>2. Statuses' /\ Cursor'
  BY DEF QueueInv, Statuses, Cursor
<1>3. ASSUME NEW q \in Reqs
      PROVE  Placed(q)'
  <2>1. /\ Count(running, q) \in Nat /\ Count(running', q) \in Nat
        /\ Count(waiting, q) \in Nat /\ Count(waiting', q) \in Nat
        /\ Count(skipped_waiting, q) \in Nat /\ Count(skipped_waiting', q) \in Nat
        /\ q # v => /\ Count(running', q) = Count(running, q)
                   /\ Count(waiting', q) = Count(waiting, q)
                   /\ Count(skipped_waiting', q) = Count(skipped_waiting, q)
        /\ Count(running, v) <= 1 => Count(running', v) = 0
        /\ Count(waiting, v) <= 1 => Count(waiting', v) = 0
        /\ Count(skipped_waiting, v) <= 1 => Count(skipped_waiting', v) = 0
    BY WithoutCounts DEF QueueInv, Queues, Dequeue
  <2>2. Placed(q)
    BY DEF QueueInv
  <2>3. CASE q # v
    BY <2>1, <2>2, <2>3 DEF Placed, Waits
  <2>4. CASE q = v
    BY <2>1, <2>2, <2>4 DEF Placed, Waits, Waitable
  <2> QED BY <2>3, <2>4
<1> QED BY <1>1, <1>2, <1>3 DEF QueueInv

\* The next waiting request is one, and is in one of the two queues, once.
LEMMA NextWaits ==
  ASSUME QueueInv, pc = "waiting", CanAdmit
  PROVE  /\ NextWaiting \in Reqs /\ req[NextWaiting].status \in Waitable
         /\ Count(waiting, NextWaiting) <= 1 /\ Count(skipped_waiting, NextWaiting) <= 1
         /\ Count(waiting, NextWaiting) + Count(skipped_waiting, NextWaiting) = 1
         /\ Count(loop.skipped, NextWaiting) = 0
<1>1. NextWaiting \in ToSet(waiting) \/ NextWaiting \in ToSet(skipped_waiting)
  BY NextWaitingIn DEF QueueInv, Queues
<1>2. NextWaiting \in Reqs
  BY <1>1 DEF QueueInv, Queues, ToSet
<1>3. PICK r \in Reqs : r = NextWaiting
  BY <1>2
<1>4. /\ Count(waiting, r) \in Nat /\ Count(skipped_waiting, r) \in Nat
      /\ Count(loop.skipped, r) \in Nat
      /\ Count(waiting, r) # 0 \/ Count(skipped_waiting, r) # 0
  BY <1>1, <1>3, CountNat DEF QueueInv, Queues
<1>5. Placed(r)
  BY DEF QueueInv
<1> QED BY <1>3, <1>4, <1>5 DEF Placed, Waits

\* The next waiting request is put aside.
LEMMA SkipMoves ==
  ASSUME QueueInv, pc = "waiting", CanAdmit, UNCHANGED <<pc, running>>,
         Dequeue(NextWaiting), Fields',
         loop'.skipped = <<NextWaiting>> \o loop.skipped,
         \A q \in Reqs : q # NextWaiting => req'[q].status = req[q].status,
         req'[NextWaiting].status \in Waitable,
         \A q \in Reqs : load'[q].back \in {"WAITING", "PREEMPTED"}
  PROVE  QueueInv'
<1>1. PICK v \in Reqs : v = NextWaiting
  BY NextWaits
<1>2. Queues'
  BY <1>1, WithoutCounts, CountFirst DEF QueueInv, Queues, Dequeue
<1>3. Statuses' /\ Cursor'
  BY <1>1 DEF QueueInv, Statuses, Cursor
<1>4. ASSUME NEW q \in Reqs
      PROVE  Placed(q)'
  <2>1. /\ Count(waiting, q) \in Nat /\ Count(waiting', q) \in Nat
        /\ Count(skipped_waiting, q) \in Nat /\ Count(skipped_waiting', q) \in Nat
        /\ q # v => /\ Count(waiting', q) = Count(waiting, q)
                   /\ Count(skipped_waiting', q) = Count(skipped_waiting, q)
        /\ Count(waiting, v) <= 1 => Count(waiting', v) = 0
        /\ Count(skipped_waiting, v) <= 1 => Count(skipped_waiting', v) = 0
    BY <1>1, WithoutCounts DEF QueueInv, Queues, Dequeue
  <2>2. /\ Count(loop.skipped, q) \in Nat
        /\ Count(loop'.skipped, q) = Count(loop.skipped, q) + (IF v = q THEN 1 ELSE 0)
    <3>1. loop.skipped \in Seq(Reqs)
      BY DEF QueueInv, Queues
    <3>2. Count(loop.skipped, q) \in Nat
      BY <3>1, CountNat
    <3>3. Count(<<v>> \o loop.skipped, q) = Count(loop.skipped, q) + (IF v = q THEN 1 ELSE 0)
      BY <3>1, CountFirst
    <3> QED BY <1>1, <3>2, <3>3
  <2>3. Placed(q)
    BY DEF QueueInv
  <2>4. CASE q # v
    BY <1>1, <2>1, <2>2, <2>3, <2>4 DEF Placed, Waits
  <2>5. CASE q = v
    <3>1. /\ req[v].status \in Waitable /\ Count(loop.skipped, v) = 0
          /\ Count(waiting, v) <= 1 /\ Count(skipped_waiting, v) <= 1
      BY <1>1, NextWaits
    <3>2. Waits(q)' = 1 /\ Count(running', q) = 0
      BY <2>1, <2>2, <2>3, <2>5, <3>1 DEF Placed, Waits, Waitable
    <3> QED BY <1>1, <2>5, <3>2 DEF Placed, Waitable
  <2> QED BY <2>4, <2>5
<1> QED BY <1>2, <1>3, <1>4 DEF QueueInv

\* The next waiting request runs.
LEMMA AdmitMoves ==
  ASSUME QueueInv, pc = "waiting", CanAdmit, UNCHANGED <<pc, load>>,
         Dequeue(NextWaiting), Fields', running' = Append(running, NextWaiting),
         loop'.skipped = loop.skipped,
         \A q \in Reqs : q # NextWaiting => req'[q].status = req[q].status,
         req'[NextWaiting].status = "RUNNING"
  PROVE  QueueInv'
<1>1. PICK v \in Reqs : v = NextWaiting
  BY NextWaits
<1>2. Queues'
  BY <1>1, WithoutCounts, CountLast DEF QueueInv, Queues, Dequeue
<1>3. Statuses' /\ Cursor'
  BY <1>1 DEF QueueInv, Statuses, Cursor
<1>4. ASSUME NEW q \in Reqs
      PROVE  Placed(q)'
  <2>1. /\ Count(waiting, q) \in Nat /\ Count(waiting', q) \in Nat
        /\ Count(skipped_waiting, q) \in Nat /\ Count(skipped_waiting', q) \in Nat
        /\ q # v => /\ Count(waiting', q) = Count(waiting, q)
                   /\ Count(skipped_waiting', q) = Count(skipped_waiting, q)
        /\ Count(waiting, v) <= 1 => Count(waiting', v) = 0
        /\ Count(skipped_waiting, v) <= 1 => Count(skipped_waiting', v) = 0
    BY <1>1, WithoutCounts DEF QueueInv, Queues, Dequeue
  <2>2. /\ Count(running, q) \in Nat
        /\ Count(running', q) = Count(running, q) + (IF v = q THEN 1 ELSE 0)
    <3>1. running \in Seq(Reqs)
      BY DEF QueueInv, Queues
    <3>2. Count(running, q) \in Nat
      BY <3>1, CountNat
    <3>3. Count(Append(running, v), q) = Count(running, q) + (IF v = q THEN 1 ELSE 0)
      BY <3>1, CountLast
    <3> QED BY <1>1, <3>2, <3>3
  <2>3. Placed(q)
    BY DEF QueueInv
  <2>4. CASE q # v
    BY <1>1, <2>1, <2>2, <2>3, <2>4 DEF Placed, Waits
  <2>5. CASE q = v
    <3>1. /\ req[v].status \in Waitable /\ Count(loop.skipped, v) = 0
          /\ Count(waiting, v) <= 1 /\ Count(skipped_waiting, v) <= 1
      BY <1>1, NextWaits
    <3>2. Waits(q)' = 0 /\ Count(running', q) = 1
      BY <2>1, <2>2, <2>3, <2>5, <3>1 DEF Placed, Waits, Waitable
    <3> QED BY <1>1, <2>5, <3>2 DEF Placed, Waitable
  <2> QED BY <2>4, <2>5
<1> QED BY <1>2, <1>3, <1>4 DEF QueueInv

LEMMA PreemptSteps ==
  ASSUME QueueInv, RunningPreempt \/ ResetPreempt
  PROVE  QueueInv'
<1>1. CASE RunningPreempt
  <2>1. /\ running \in Seq(Reqs) /\ loop.request \in ToSet(running)
        /\ loop.index \in Nat /\ loop.index >= 1 /\ loop.skipped = << >>
        /\ DOMAIN loop = LoopFields
    BY <1>1 DEF QueueInv, RunningPreempt, Cursor, Queues, Fields
  <2>2. Victim \in ToSet(running)
    <3>1. running # << >>
      BY <2>1 DEF ToSet
    <3> QED BY <2>1, <3>1, VictimIn
  <2>3. PICK v \in ToSet(running) : v = Victim
    BY <2>2
  <2>4. /\ running' = Without(running, v) /\ waiting' = <<v>> \o waiting
        /\ skipped_waiting' = skipped_waiting /\ load' = load /\ pc = "allocate"
        /\ req' = [req EXCEPT ![v] = Preempted(v, requires_kv_delivery)]
        /\ pc' = IF v = loop.request THEN "issue" ELSE "allocate"
    BY <1>1, <2>3 DEF RunningPreempt, PreemptRequest
  <2>5. /\ loop'.skipped = loop.skipped /\ DOMAIN loop' = LoopFields
        /\ loop'.request = loop.request /\ loop'.index = IndexAfter(v)
    BY <1>1, <2>1, <2>3 DEF RunningPreempt, LoopFields
  <2>6. IndexAfter(v) \in Nat /\ IndexAfter(v) >= 1
    BY <2>1 DEF IndexAfter
  <2>7. v # loop.request => loop.request \in ToSet(running')
    <3>1. v \in Reqs /\ loop.request \in Reqs
      BY <2>1 DEF ToSet
    <3>2. /\ Without(running, v) \in Seq(Reqs)
          /\ v # loop.request =>
               Count(Without(running, v), loop.request) = Count(running, loop.request)
      BY <2>1, <3>1, WithoutCounts
    <3> QED BY <2>1, <2>4, <3>2, CountNat
  <2>8. Cursor'
    BY <2>1, <2>4, <2>5, <2>6, <2>7 DEF Cursor
  <2> QED BY <2>4, <2>5, <2>8, PreemptMoves
<1>2. CASE ResetPreempt
  <2>1. running \in Seq(Reqs) /\ running # << >> /\ DOMAIN loop = LoopFields
    BY <1>2 DEF QueueInv, ResetPreempt, Queues, Fields
  <2>2. PICK v \in ToSet(running) : v = Last(running)
    BY <2>1 DEF ToSet, Last
  <2>3. /\ running' = Without(running, v) /\ waiting' = <<v>> \o waiting
        /\ skipped_waiting' = skipped_waiting /\ load' = load /\ pc = "reset_running"
        /\ req' = [req EXCEPT ![v] = Preempted(v, TRUE)] /\ loop' = loop /\ pc' = pc
    BY <1>2, <2>2 DEF ResetPreempt, PreemptRequest
  <2>4. Cursor'
    BY <2>3 DEF Cursor
  <2> QED BY <2>1, <2>3, <2>4, PreemptMoves
<1> QED BY <1>1, <1>2

LEMMA WaitingSteps ==
  ASSUME QueueInv,
         WaitingSkip \/ WaitingPromote \/ WaitingAdmit \/ WaitingLoad \/ WaitingDone
  PROVE  QueueInv'
<1>0. /\ DOMAIN loop = LoopFields /\ DOMAIN req = Reqs /\ DOMAIN load = Reqs
      /\ \A r \in Reqs : DOMAIN req[r] = RequestFields /\ DOMAIN load[r] = LoadFields
      /\ \A r \in Reqs : load[r].back \in {"WAITING", "PREEMPTED"}
  BY DEF QueueInv, Fields, Statuses
<1>1. CASE WaitingSkip
  <2>1. /\ pc = "waiting" /\ CanAdmit /\ UNCHANGED <<pc, running, req, load>>
        /\ Dequeue(NextWaiting)
        /\ loop' = [loop EXCEPT !.skipped = <<NextWaiting>> \o @]
    BY <1>1 DEF WaitingSkip
  <2>2. Fields' /\ loop'.skipped = <<NextWaiting>> \o loop.skipped
    BY <1>0, <2>1 DEF Fields, LoopFields
  <2>3. req[NextWaiting].status \in Waitable
    BY <2>1, NextWaits
  <2> QED BY <1>0, <2>1, <2>2, <2>3, SkipMoves
<1>2. CASE WaitingPromote
  <2>1. /\ pc = "waiting" /\ CanAdmit /\ Loading(NextWaiting)
        /\ UNCHANGED <<pc, running, waiting, skipped_waiting, loop>>
    BY <1>2 DEF WaitingPromote
  <2>2. PICK v \in Reqs : v = NextWaiting
    BY <2>1, NextWaits
  <2>3. /\ DOMAIN req' = Reqs /\ \A q \in Reqs : DOMAIN req'[q] = RequestFields
        /\ \A q \in Reqs : q # v => req'[q].status = req[q].status
        /\ req'[v].status = load[v].back
    BY <1>0, <1>2, <2>2 DEF WaitingPromote, RequestFields
  <2>4. /\ DOMAIN load' = Reqs /\ \A q \in Reqs : DOMAIN load'[q] = LoadFields
        /\ \A q \in Reqs : load'[q].back \in {"WAITING", "PREEMPTED"}
    BY <1>0, <1>2, <2>2 DEF WaitingPromote, LoadFields, NoLoad
  <2>5. req[v].status = "WAITING_FOR_REMOTE_KVS" /\ req'[v].status \in {"WAITING", "PREEMPTED"}
    BY <1>0, <2>1, <2>2, <2>3 DEF Loading
  <2>6. Fields' /\ Queues' /\ Cursor'
    BY <1>0, <2>1, <2>3, <2>4 DEF QueueInv, Fields, Queues, Cursor
  <2>7. Statuses'
    BY <2>3, <2>4, <2>5 DEF QueueInv, Statuses, Waitable
  <2>8. \A q \in Reqs : Placed(q)'
    BY <2>1, <2>3, <2>5 DEF QueueInv, Placed, Waits, Waitable
  <2> QED BY <2>6, <2>7, <2>8 DEF QueueInv
<1>3. CASE WaitingAdmit
  <2>1. /\ pc = "waiting" /\ CanAdmit /\ UNCHANGED <<pc, load>>
        /\ Dequeue(NextWaiting) /\ running' = Append(running, NextWaiting)
    BY <1>3 DEF WaitingAdmit
  <2>2. PICK v \in Reqs : v = NextWaiting
    BY <2>1, NextWaits
  <2>3. PICK c, p, b, sch :
           /\ req' = [req EXCEPT ![v].status = "RUNNING", ![v].num_computed_tokens = c,
                                 ![v].prefilling = p]
           /\ loop' = [loop EXCEPT !.budget = b, !.scheduled = sch]
    <3>1. PICK hits \in Hits(v) :
            LET computed == NumComputed(v, hits)
                num_new == Chunk(req[v].num_tokens - computed)
            IN /\ req' = [req EXCEPT
                    ![v].status = "RUNNING", ![v].num_computed_tokens = computed,
                    ![v].prefilling = @ \/ computed + num_new < req[v].num_tokens]
               /\ loop' = [loop EXCEPT !.budget = @ - num_new,
                                       !.scheduled = Append(@, <<v, num_new>>)]
      BY <1>3, <2>2 DEF WaitingAdmit
    <3> QED BY <3>1, Zenon
  <2>4. /\ DOMAIN req' = Reqs /\ \A q \in Reqs : DOMAIN req'[q] = RequestFields
        /\ \A q \in Reqs : q # v => req'[q].status = req[q].status
        /\ req'[v].status = "RUNNING"
    BY <1>0, <2>3 DEF RequestFields
  <2>5. DOMAIN loop' = LoopFields /\ loop'.skipped = loop.skipped
    BY <1>0, <2>3 DEF LoopFields
  <2>6. Fields'
    BY <1>0, <2>1, <2>4, <2>5 DEF Fields
  <2> QED BY <2>1, <2>2, <2>4, <2>5, <2>6, AdmitMoves
<1>4. CASE WaitingLoad
  <2>1. /\ pc = "waiting" /\ CanAdmit /\ UNCHANGED <<pc, running>>
        /\ Dequeue(NextWaiting) /\ Ready(NextWaiting)
        /\ loop' = [loop EXCEPT !.skipped = <<NextWaiting>> \o @]
    BY <1>4 DEF WaitingLoad
  <2>2. PICK v \in Reqs : v = NextWaiting
    BY <2>1, NextWaits
  <2>3. PICK c, f, b, n :
           /\ req' = [req EXCEPT ![v].status = "WAITING_FOR_REMOTE_KVS",
                                 ![v].num_computed_tokens = c, ![v].prefilling = TRUE]
           /\ load' = [load EXCEPT ![v] = [NoLoad EXCEPT !.state = "transfer", !.first = f,
                          !.blocks = b, !.steps = n, !.back = req[v].status]]
    <3>1. PICK hits \in Hits(v) : \E end \in Offers(v, NumComputed(v, hits)) :
            /\ req' = [req EXCEPT ![v].status = "WAITING_FOR_REMOTE_KVS",
                                  ![v].num_computed_tokens = end, ![v].prefilling = TRUE]
            /\ load' = [load EXCEPT ![v] =
                 [NoLoad EXCEPT !.state = "transfer", !.first = NumComputed(v, hits),
                                !.blocks = ToSet(m'.req_to_blocks[v]) \ ToSet(hits),
                                !.steps = Len(in_flight) + 1, !.back = req[v].status]]
      BY <1>4, <2>2 DEF WaitingLoad
    <3>2. PICK end \in Offers(v, NumComputed(v, hits)) :
            /\ req' = [req EXCEPT ![v].status = "WAITING_FOR_REMOTE_KVS",
                                  ![v].num_computed_tokens = end, ![v].prefilling = TRUE]
            /\ load' = [load EXCEPT ![v] =
                 [NoLoad EXCEPT !.state = "transfer", !.first = NumComputed(v, hits),
                                !.blocks = ToSet(m'.req_to_blocks[v]) \ ToSet(hits),
                                !.steps = Len(in_flight) + 1, !.back = req[v].status]]
      BY <3>1
    <3> QED BY <3>2
  <2>4. /\ DOMAIN req' = Reqs /\ \A q \in Reqs : DOMAIN req'[q] = RequestFields
        /\ \A q \in Reqs : q # v => req'[q].status = req[q].status
        /\ req'[v].status = "WAITING_FOR_REMOTE_KVS"
    BY <1>0, <2>3 DEF RequestFields
  <2>5. req[v].status \in {"WAITING", "PREEMPTED"}
    BY <2>1, <2>2, NextWaits DEF Ready, Loading, Waitable
  <2>6. /\ DOMAIN load' = Reqs /\ \A q \in Reqs : DOMAIN load'[q] = LoadFields
        /\ \A q \in Reqs : load'[q].back \in {"WAITING", "PREEMPTED"}
    BY <1>0, <2>3, <2>5 DEF LoadFields, NoLoad
  <2>7. DOMAIN loop' = LoopFields /\ loop'.skipped = <<NextWaiting>> \o loop.skipped
    BY <1>0, <2>1 DEF LoopFields
  <2>8. Fields' /\ req'[NextWaiting].status \in Waitable
    BY <2>2, <2>4, <2>6, <2>7 DEF Fields, Waitable
  <2> QED BY <2>1, <2>2, <2>4, <2>6, <2>7, <2>8, SkipMoves
<1>5. CASE WaitingDone
  <2>1. /\ pc = "waiting" /\ pc' = "issue"
        /\ UNCHANGED <<running, waiting, req, load, loop>>
        /\ skipped_waiting' = Reverse(loop.skipped) \o skipped_waiting
    BY <1>5 DEF WaitingDone
  <2>2. skipped_waiting \in Seq(Reqs) /\ loop.skipped \in Seq(Reqs)
    BY DEF QueueInv, Queues
  <2>3. Reverse(loop.skipped) \in Seq(Reqs)
    BY <2>2, CountReverse
  <2>4. Fields' /\ Queues' /\ Cursor' /\ Statuses'
    BY <2>1, <2>2, <2>3 DEF QueueInv, Fields, Queues, Cursor, Statuses
  <2>5. ASSUME NEW q \in Reqs
        PROVE  Placed(q)'
    <3>1. Count(skipped_waiting', q) = Count(loop.skipped, q) + Count(skipped_waiting, q)
      <4>1. Count(Reverse(loop.skipped) \o skipped_waiting, q)
              = Count(Reverse(loop.skipped), q) + Count(skipped_waiting, q)
        BY <2>2, <2>3, CountCat
      <4>2. Count(Reverse(loop.skipped), q) = Count(loop.skipped, q)
        BY <2>2, CountReverse
      <4> QED BY <2>1, <4>1, <4>2
    <3>2. /\ Count(waiting, q) \in Nat /\ Count(skipped_waiting, q) \in Nat
          /\ Count(loop.skipped, q) \in Nat
      BY CountNat DEF QueueInv, Queues
    <3>3. Placed(q)
      BY DEF QueueInv
    <3> QED BY <2>1, <3>1, <3>2, <3>3 DEF Placed, Waits
  <2> QED BY <2>4, <2>5 DEF QueueInv
<1> QED BY <1>1, <1>2, <1>3, <1>4, <1>5

\* finish_requests, of a request that is not finished.
LEMMA FinishStep ==
  ASSUME QueueInv, NEW r \in Reqs, pc \in {"idle", "update"}, UNCHANGED <<pc, loop>>,
         FinishRequest(r)
  PROVE  QueueInv'
<1>0. /\ DOMAIN loop = LoopFields /\ DOMAIN req = Reqs /\ DOMAIN load = Reqs
      /\ \A q \in Reqs : DOMAIN req[q] = RequestFields /\ DOMAIN load[q] = LoadFields
      /\ \A q \in Reqs : load[q].back \in {"WAITING", "PREEMPTED"}
  BY DEF QueueInv, Fields, Statuses
<1>1. /\ DOMAIN req' = Reqs /\ \A q \in Reqs : DOMAIN req'[q] = RequestFields
      /\ \A q \in Reqs : q # r => req'[q].status = req[q].status
      /\ req'[r].status = "FINISHED"
  BY <1>0 DEF FinishRequest, RequestFields
<1>2. /\ DOMAIN load' = Reqs /\ \A q \in Reqs : DOMAIN load'[q] = LoadFields
      /\ \A q \in Reqs : load'[q].back \in {"WAITING", "PREEMPTED"}
  BY <1>0 DEF FinishRequest, LoadFields, NoLoad
<1>3. Fields'
  BY <1>0, <1>1, <1>2 DEF Fields
<1> QED BY <1>1, <1>2, <1>3, FinishMoves DEF FinishRequest

LEMMA UpdateSteps ==
  ASSUME QueueInv,
         \/ UpdateBegin \/ DrainOne \/ DrainDone \/ UpdateNoOutput \/ UpdateDeliver
         \/ UpdateStop \/ UpdateDone
         \/ \E r \in Reqs : UpdateLoadError(r) \/ UpdateLoadFinished(r)
  PROVE  QueueInv'
<1>0. /\ DOMAIN loop = LoopFields /\ DOMAIN req = Reqs /\ DOMAIN load = Reqs
      /\ \A q \in Reqs : DOMAIN req[q] = RequestFields /\ DOMAIN load[q] = LoadFields
      /\ \A q \in Reqs : load[q].back \in {"WAITING", "PREEMPTED"}
      /\ loop.skipped \in Seq(Reqs)
  BY DEF QueueInv, Fields, Statuses, Queues
<1>1. CASE UpdateBegin
  <2>1. /\ UNCHANGED <<running, waiting, skipped_waiting, loop, load>>
        /\ pc = "idle" /\ pc' = "drain"
    BY <1>1 DEF UpdateBegin
  <2>2. \/ req' = req
        \/ req' = [r \in Reqs |-> [req[r] EXCEPT !.last_sched_seq = AtLeast0(@ - 1)]]
    BY <1>1 DEF UpdateBegin, StepProcessed
  <2>3. /\ DOMAIN req' = Reqs /\ \A q \in Reqs : DOMAIN req'[q] = RequestFields
        /\ \A q \in Reqs : req'[q].status = req[q].status
    BY <1>0, <2>2 DEF RequestFields
  <2>4. Fields' /\ Cursor'
    BY <1>0, <2>1, <2>3 DEF Fields, Cursor
  <2> QED BY <1>0, <2>1, <2>3, <2>4, SameQueues
<1>2. CASE DrainOne
  <2>1. /\ UNCHANGED <<running, waiting, skipped_waiting, loop, load, req, pc>>
    BY <1>2 DEF DrainOne
  <2>2. Fields' /\ Cursor'
    BY <2>1 DEF QueueInv, Fields, Cursor
  <2> QED BY <1>0, <2>1, <2>2, SameQueues
<1>3. CASE DrainDone
  <2>1. /\ UNCHANGED <<running, waiting, skipped_waiting, loop>>
        /\ pc = "drain" /\ pc' = "update"
    BY <1>3 DEF DrainDone
  <2>2. /\ DOMAIN req' = Reqs /\ \A q \in Reqs : DOMAIN req'[q] = RequestFields
        /\ \A q \in Reqs : req'[q].status = req[q].status
    BY <1>0, <1>3 DEF DrainDone, RequestFields
  <2>3. /\ DOMAIN load' = Reqs /\ \A q \in Reqs : DOMAIN load'[q] = LoadFields
        /\ \A q \in Reqs : load'[q].back = load[q].back
    BY <1>0, <1>3 DEF DrainDone, LoadFields
  <2>4. Fields' /\ Cursor'
    BY <1>0, <2>1, <2>2, <2>3 DEF Fields, Cursor
  <2> QED BY <1>0, <2>1, <2>2, <2>3, <2>4, SameQueues
<1>4. CASE UpdateNoOutput \/ UpdateDeliver
  <2>1. UNCHANGED <<running, waiting, skipped_waiting, loop, load, pc>>
    BY <1>4 DEF UpdateNoOutput, UpdateDeliver
  <2>2. \/ req' = req
        \/ \E v \in Reqs : /\ v = Head(todo).request
                           /\ \/ req' = [req EXCEPT ![v] = Landed(Head(todo))]
                              \/ req' = [req EXCEPT ![v] = WithOutput(Head(todo))]
    BY <1>4 DEF UpdateNoOutput, UpdateDeliver, Known, Delivers
  <2>3. /\ DOMAIN req' = Reqs /\ \A q \in Reqs : DOMAIN req'[q] = RequestFields
        /\ \A q \in Reqs : req'[q].status = req[q].status
    <3>1. CASE req' = req
      BY <1>0, <3>1
    <3>2. ASSUME NEW v \in Reqs, v = Head(todo).request
          PROVE  /\ DOMAIN Landed(Head(todo)) = RequestFields
                 /\ Landed(Head(todo)).status = req[v].status
                 /\ DOMAIN WithOutput(Head(todo)) = RequestFields
                 /\ WithOutput(Head(todo)).status = req[v].status
      BY <1>0, <3>2 DEF Landed, WithOutput, RequestFields
    <3>3. ASSUME NEW v \in Reqs, NEW x, DOMAIN x = RequestFields, x.status = req[v].status,
                 req' = [req EXCEPT ![v] = x]
          PROVE  /\ DOMAIN req' = Reqs /\ \A q \in Reqs : DOMAIN req'[q] = RequestFields
                 /\ \A q \in Reqs : req'[q].status = req[q].status
      BY <1>0, <3>3
    <3> QED BY <2>2, <3>1, <3>2, <3>3
  <2>4. Fields' /\ Cursor'
    BY <1>0, <2>1, <2>3 DEF QueueInv, Fields, Cursor
  <2> QED BY <1>0, <2>1, <2>3, <2>4, SameQueues
<1>5. CASE UpdateStop
  <2>1. PICK v \in Reqs : v = Head(todo).request
    BY <1>5 DEF UpdateStop, Delivers, Known
  <2>2. /\ UNCHANGED <<pc, loop, load>> /\ pc = "update"
        /\ running' = Without(running, v) /\ Dequeue(v)
        /\ req' = [req EXCEPT ![v] =
             [WithOutput(Head(todo)) EXCEPT !.status = "FINISHED", !.prefilling = FALSE]]
    BY <1>5, <2>1 DEF UpdateStop
  <2>3. DOMAIN WithOutput(Head(todo)) = RequestFields
    BY <1>0, <2>1 DEF WithOutput, Landed, RequestFields
  <2>4. /\ DOMAIN req' = Reqs /\ \A q \in Reqs : DOMAIN req'[q] = RequestFields
        /\ \A q \in Reqs : q # v => req'[q].status = req[q].status
        /\ req'[v].status = "FINISHED"
    BY <1>0, <2>2, <2>3 DEF RequestFields
  <2>5. Fields'
    BY <1>0, <2>2, <2>4 DEF Fields
  <2> QED BY <1>0, <2>2, <2>4, <2>5, FinishMoves
<1>6. CASE UpdateDone
  <2>1. /\ UNCHANGED <<running, waiting, skipped_waiting, loop, req>>
        /\ pc = "update" /\ pc' = "idle"
    BY <1>6 DEF UpdateDone
  <2>2. /\ DOMAIN load' = Reqs /\ \A q \in Reqs : DOMAIN load'[q] = LoadFields
        /\ \A q \in Reqs : load'[q].back = load[q].back
    BY <1>0, <1>6 DEF UpdateDone, LoadFields
  <2>3. Fields' /\ Cursor'
    BY <1>0, <2>1, <2>2 DEF Fields, Cursor
  <2> QED BY <1>0, <2>1, <2>2, <2>3, SameQueues
<1>7. ASSUME NEW r \in Reqs, UpdateLoadError(r)
      PROVE  QueueInv'
  BY <1>7, FinishStep DEF UpdateLoadError
<1>8. ASSUME NEW r \in Reqs, UpdateLoadFinished(r)
      PROVE  QueueInv'
  <2>1. UNCHANGED <<running, waiting, skipped_waiting, loop, req, pc>>
    BY <1>8 DEF UpdateLoadFinished
  <2>2. \/ load' = [load EXCEPT ![r].state = "finished"]
        \/ load' = [load EXCEPT ![r] = NoLoad]
    BY <1>8 DEF UpdateLoadFinished
  <2>3. /\ DOMAIN load' = Reqs /\ \A q \in Reqs : DOMAIN load'[q] = LoadFields
        /\ \A q \in Reqs : load'[q].back \in {"WAITING", "PREEMPTED"}
    BY <1>0, <2>2 DEF LoadFields, NoLoad
  <2> QED BY <1>0, <2>1, <2>3
        DEF QueueInv, Fields, Queues, Statuses, Cursor, Placed, Waits
<1> QED BY <1>1, <1>2, <1>3, <1>4, <1>5, <1>6, <1>7, <1>8

LEMMA OutsideSteps ==
  ASSUME QueueInv,
         \/ \E r \in Reqs : add_request(r) \/ finish_requests(r) \/ LoadArrives(r)
         \/ \E reset_running \in BOOLEAN : ResetBegin(reset_running)
         \/ ResetEnd \/ ResetRaised
  PROVE  QueueInv'
<1>0. /\ DOMAIN loop = LoopFields /\ DOMAIN req = Reqs /\ DOMAIN load = Reqs
      /\ \A q \in Reqs : DOMAIN req[q] = RequestFields /\ DOMAIN load[q] = LoadFields
      /\ loop.skipped \in Seq(Reqs) /\ waiting \in Seq(Reqs)
  BY DEF QueueInv, Fields, Statuses, Queues
<1>1. ASSUME NEW r \in Reqs, add_request(r)
      PROVE  QueueInv'
  <2>1. /\ UNCHANGED <<running, skipped_waiting, loop, load, pc>> /\ pc = "idle"
        /\ waiting' = Append(waiting, r) /\ req[r].status = "ABSENT"
        /\ req' = [req EXCEPT ![r] = NewRequest(r)]
    BY <1>1 DEF add_request, BetweenSteps
  <2>2. /\ DOMAIN req' = Reqs /\ \A q \in Reqs : DOMAIN req'[q] = RequestFields
        /\ \A q \in Reqs : q # r => req'[q].status = req[q].status
        /\ req'[r].status = "WAITING"
    BY <1>0, <2>1 DEF NewRequest, RequestFields
  <2>3. Fields' /\ Cursor' /\ Statuses'
    BY <2>1, <2>2 DEF QueueInv, Fields, Cursor, Statuses, Waitable
  <2>4. Queues'
    BY <1>0, <2>1, CountLast DEF QueueInv, Queues
  <2>5. ASSUME NEW q \in Reqs
        PROVE  Placed(q)'
    <3>1. Count(Append(waiting, r), q) = Count(waiting, q) + (IF r = q THEN 1 ELSE 0)
      BY <1>0, CountLast
    <3>2. Count(waiting, q) \in Nat /\ Count(skipped_waiting, q) \in Nat
      BY CountNat DEF QueueInv, Queues
    <3>3. Placed(q)
      BY DEF QueueInv
    <3> QED BY <2>1, <2>2, <3>1, <3>2, <3>3 DEF Placed, Waits, Waitable
  <2> QED BY <2>3, <2>4, <2>5 DEF QueueInv
<1>2. ASSUME NEW r \in Reqs, finish_requests(r)
      PROVE  QueueInv'
  BY <1>2, FinishStep DEF finish_requests
<1>3. ASSUME NEW r \in Reqs, LoadArrives(r)
      PROVE  QueueInv'
  <2>1. UNCHANGED <<running, waiting, skipped_waiting, loop, req, pc>>
    BY <1>3 DEF LoadArrives
  <2>2. \E i : load' = [load EXCEPT ![r].state = "arrived", ![r].invalid = i]
    BY <1>3 DEF LoadArrives
  <2>3. /\ DOMAIN load' = Reqs /\ \A q \in Reqs : DOMAIN load'[q] = LoadFields
        /\ \A q \in Reqs : load'[q].back = load[q].back
    BY <1>0, <2>2 DEF LoadFields
  <2>4. Fields' /\ Cursor'
    BY <2>1, <2>3 DEF QueueInv, Fields, Cursor
  <2> QED BY <1>0, <2>1, <2>3, <2>4, SameQueues
<1>4. CASE (\E reset_running \in BOOLEAN : ResetBegin(reset_running)) \/ ResetEnd \/ ResetRaised
  <2>1. /\ UNCHANGED <<running, waiting, skipped_waiting, loop, req, load>>
        /\ pc \in {"idle", "reset", "reset_running", "reset_failed"}
        /\ pc' \in {"idle", "reset", "reset_running", "reset_failed"}
    BY <1>4 DEF ResetBegin, BetweenSteps, ResetEnd, ResetRaised
  <2>2. Fields' /\ Cursor'
    BY <2>1 DEF QueueInv, Fields, Cursor
  <2> QED BY <1>0, <2>1, <2>2, SameQueues
<1> QED BY <1>1, <1>2, <1>3, <1>4

\* The inductive invariant of the queues.
THEOREM SchedulerQueues == Spec => []QueueInv
<1>1. Init => QueueInv
  BY QueueInit
<1>2. QueueInv /\ [Next]_vars => QueueInv'
  <2> SUFFICES ASSUME QueueInv, [Next]_vars
               PROVE  QueueInv'
    OBVIOUS
  <2>1. CASE UNCHANGED vars
    BY <2>1 DEF vars, QueueInv, Fields, Queues, Statuses, Cursor, Placed, Waits
  <2>2. CASE Next
    BY <2>2, ScheduleSteps, PreemptSteps, WaitingSteps, UpdateSteps, OutsideSteps
       DEF Next, EngineStep, ClientStep
  <2> QED BY <2>1, <2>2
<1> QED BY <1>1, <1>2, PTL DEF Spec

\* QueuesMatchStatus of every run: each request is in the one queue of the
\* scheduler that its status names, once, whatever is preempted, put aside,
\* loaded, aborted or reset.
THEOREM RequestsInOneQueue == Spec => []QueuesMatchStatus
<1>1. QueueInv => QueuesMatchStatus
  BY PlacedIs DEF QueueInv
<1> QED BY <1>1, SchedulerQueues, PTL

-----------------------------------------------------------------------------
(* Filter.                                                                  *)

\* f is what the elements s[1] .. s[i] leave: g says where they are in s.
Picks(f, g, s, i, T) ==
  /\ g \in [1 .. Len(f) -> 1 .. i]
  /\ \A k \in 1 .. Len(f) : f[k] = s[g[k]] /\ s[g[k]] \in T
  /\ \A k, l \in 1 .. Len(f) : g[k] = g[l] => k = l
  /\ \A j \in 1 .. i : s[j] \in T => \E k \in 1 .. Len(f) : g[k] = j

\* One element more.
LEMMA PicksNext ==
  ASSUME NEW X, NEW s \in Seq(X), NEW T, NEW i \in 1 .. Len(s), NEW f \in Seq(X),
         NEW g, Picks(f, g, s, i - 1, T)
  PROVE  LET f1 == IF s[i] \in T THEN Append(f, s[i]) ELSE f
         IN  f1 \in Seq(X) /\ \E g1 : Picks(f1, g1, s, i, T)
<1>1. i \in Nat /\ Len(s) \in Nat /\ Len(f) \in Nat /\ i - 1 \in Nat /\ s[i] \in X
  OBVIOUS
<1>2. CASE s[i] \notin T
  <2>1. Picks(f, g, s, i, T)
    BY <1>1, <1>2 DEF Picks
  <2> QED BY <1>2, <2>1
<1>3. CASE s[i] \in T
  <2>1. PICK f1 : f1 = Append(f, s[i])
    OBVIOUS
  <2>2. /\ f1 \in Seq(X) /\ Len(f1) = Len(f) + 1 /\ f1[Len(f) + 1] = s[i]
        /\ \A k \in 1 .. Len(f) : f1[k] = f[k]
    BY <1>1, <2>1
  <2> DEFINE g1 == [k \in 1 .. (Len(f) + 1) |-> IF k <= Len(f) THEN g[k] ELSE i]
  <2>3. /\ \A k \in 1 .. Len(f) : g1[k] = g[k] /\ g[k] \in 1 .. (i - 1)
        /\ g1[Len(f) + 1] = i
    <3>1. \A k \in 1 .. Len(f) : g[k] \in 1 .. (i - 1)
      BY DEF Picks
    <3>2. Len(f) + 1 \in 1 .. (Len(f) + 1) /\ ~ (Len(f) + 1 <= Len(f))
          /\ \A k \in 1 .. Len(f) : k \in 1 .. (Len(f) + 1) /\ k <= Len(f)
      BY <1>1
    <3> QED BY <3>1, <3>2
  <2>4. g1 \in [1 .. Len(f1) -> 1 .. i]
    <3>1. \A k \in 1 .. (Len(f) + 1) : k \in 1 .. Len(f) \/ k = Len(f) + 1
      BY <1>1
    <3>2. i \in 1 .. i /\ \A x \in 1 .. (i - 1) : x \in 1 .. i
      BY <1>1
    <3>3. \A k \in 1 .. (Len(f) + 1) : g1[k] \in 1 .. i
      <4> HIDE DEF g1
      <4> QED BY <2>3, <3>1, <3>2
    <3> QED BY <2>2, <3>3
  <2> HIDE DEF g1
  <2>5. \A k \in 1 .. Len(f1) : k \in 1 .. Len(f) \/ k = Len(f) + 1
    BY <1>1, <2>2
  <2>6. \A k \in 1 .. Len(f1) : f1[k] = s[g1[k]] /\ s[g1[k]] \in T
    BY <1>3, <2>2, <2>3, <2>5 DEF Picks
  <2>7. \A k, l \in 1 .. Len(f1) : g1[k] = g1[l] => k = l
    BY <1>1, <2>3, <2>5 DEF Picks
  <2>8. \A j \in 1 .. i : s[j] \in T => \E k \in 1 .. Len(f1) : g1[k] = j
    <3> SUFFICES ASSUME NEW j \in 1 .. i, s[j] \in T
                 PROVE  \E k \in 1 .. Len(f1) : g1[k] = j
      OBVIOUS
    <3>1. CASE j = i
      BY <1>1, <2>2, <2>3, <3>1
    <3>2. CASE j # i
      <4>1. j \in 1 .. (i - 1)
        BY <1>1, <3>2
      <4>2. PICK k \in 1 .. Len(f) : g[k] = j
        BY <4>1 DEF Picks
      <4>3. k \in 1 .. Len(f1) /\ g1[k] = j
        BY <1>1, <2>2, <2>3, <4>2
      <4> QED BY <4>3
    <3> QED BY <3>1, <3>2
  <2>9. Picks(f1, g1, s, i, T)
    BY <2>4, <2>6, <2>7, <2>8 DEF Picks
  <2> QED BY <1>3, <2>1, <2>2, <2>9
<1> QED BY <1>2, <1>3

LEMMA FilterPicks ==
  ASSUME NEW X, NEW s \in Seq(X), NEW T
  PROVE  Filter(s, T) \in Seq(X) /\ \E g : Picks(Filter(s, T), g, s, Len(s), T)
<1> DEFINE Next1(f, i) == IF i = 0 THEN << >>
                          ELSE IF s[i] \in T THEN Append(f[i - 1], s[i]) ELSE f[i - 1]
           Good(f, n) == /\ f = [i \in 0 .. n |-> Next1(f, i)]
                         /\ \A i \in 0 .. n : f[i] \in Seq(X) /\ \E g : Picks(f[i], g, s, i, T)
           Bad == {n \in 0 .. Len(s) : ~ \E f : Good(f, n)}
<1>1. Len(s) \in Nat
  OBVIOUS
<1>2. Bad = {}
  <2> SUFFICES ASSUME Bad # {} PROVE FALSE
    OBVIOUS
  <2>1. PICK n \in Bad : \A k \in Bad : n <= k
    <3>1. Bad \in SUBSET Nat
      BY <1>1
    <3> HIDE DEF Bad
    <3> QED BY <3>1, LeastNat
  <2>2. n \in 0 .. Len(s) /\ ~ \E f : Good(f, n)
    BY <2>1
  <2>3. CASE n = 0
    <3> DEFINE f == [i \in 0 .. 0 |-> << >>]
    <3>1. f = [i \in 0 .. 0 |-> Next1(f, i)]
      OBVIOUS
    <3>2. f[0] \in Seq(X) /\ Len(f[0]) = 0
      OBVIOUS
    <3>3. Picks(f[0], << >>, s, 0, T)
      <4> HIDE DEF f
      <4> QED BY <3>2 DEF Picks
    <3>4. Good(f, 0)
      <4> HIDE DEF f, Next1
      <4>1. \A i \in 0 .. 0 : i = 0
        OBVIOUS
      <4> QED BY <3>1, <3>2, <3>3, <4>1
    <3> QED BY <2>2, <2>3, <3>4
  <2>4. CASE n # 0
    <3>1. n \in 1 .. Len(s) /\ n - 1 \in 0 .. Len(s) /\ n - 1 < n
      BY <1>1, <2>2, <2>4
    <3>2. n - 1 \notin Bad
      <4> HIDE DEF Bad
      <4> QED BY <2>1, <2>2, <3>1
    <3>3. PICK f : Good(f, n - 1)
      BY <3>1, <3>2
    <3> DEFINE h == [i \in 0 .. n |-> IF i = n THEN Next1(f, n) ELSE f[i]]
    <3>4. \A i \in 0 .. (n - 1) : i \in 0 .. n /\ h[i] = f[i] /\ f[i] = Next1(f, i)
      <4>1. f = [i \in 0 .. (n - 1) |-> Next1(f, i)]
        BY <3>3
      <4> HIDE DEF Next1
      <4> QED BY <3>1, <4>1, SMTT(30)
    <3>5. \A i \in 0 .. n : h[i] = Next1(h, i)
      <4> SUFFICES ASSUME NEW i \in 0 .. n PROVE h[i] = Next1(h, i)
        OBVIOUS
      <4>1. i = 0 \/ (i - 1 \in 0 .. (n - 1) /\ h[i - 1] = f[i - 1])
        <5> HIDE DEF h, Next1
        <5> QED BY <3>1, <3>4
      <4>2. Next1(h, i) = Next1(f, i)
        <5> HIDE DEF h
        <5> QED BY <4>1
      <4>3. h[i] = Next1(f, i)
        <5>1. h[n] = Next1(f, n)
          <6> HIDE DEF Next1
          <6> QED BY <3>1
        <5>2. i = n \/ i \in 0 .. (n - 1)
          BY <3>1
        <5> HIDE DEF h, Next1
        <5> QED BY <3>4, <5>1, <5>2
      <4> QED BY <4>2, <4>3
    <3>6. h = [i \in 0 .. n |-> Next1(h, i)]
      <4> HIDE DEF Next1
      <4> QED BY <3>5
    <3>7. n - 1 \in 0 .. (n - 1) /\ f[n - 1] \in Seq(X)
      BY <3>1, <3>3
    <3>8. PICK g : Picks(f[n - 1], g, s, n - 1, T)
      BY <3>3, <3>7
    <3>9. h[n] \in Seq(X) /\ \E g1 : Picks(h[n], g1, s, n, T)
      <4>1. h[n] = IF s[n] \in T THEN Append(f[n - 1], s[n]) ELSE f[n - 1]
        BY <3>1
      <4> HIDE DEF h
      <4> QED BY <3>1, <3>7, <3>8, <4>1, PicksNext
    <3>10. \A i \in 0 .. n : h[i] \in Seq(X) /\ \E g1 : Picks(h[i], g1, s, i, T)
      <4> SUFFICES ASSUME NEW i \in 0 .. n
                   PROVE  h[i] \in Seq(X) /\ \E g1 : Picks(h[i], g1, s, i, T)
        OBVIOUS
      <4> HIDE DEF h, Next1
      <4>1. CASE i = n
        BY <3>9, <4>1
      <4>2. CASE i # n
        <5>1. i \in 0 .. (n - 1)
          BY <3>1, <4>2
        <5> QED BY <3>3, <3>4, <5>1
      <4> QED BY <4>1, <4>2
    <3>11. Good(h, n)
      <4> HIDE DEF h, Next1
      <4> QED BY <3>6, <3>10
    <3> HIDE DEF Good, h
    <3> QED BY <2>2, <3>11
  <2> QED BY <2>3, <2>4
<1>3. PICK f : Good(f, Len(s))
  <2>1. Len(s) \in 0 .. Len(s) /\ Len(s) \notin Bad
    <3> HIDE DEF Bad
    <3> QED BY <1>1, <1>2
  <2> HIDE DEF Good
  <2> QED BY <2>1
<1> DEFINE F == CHOOSE f1 : f1 = [i \in 0 .. Len(s) |-> Next1(f1, i)]
<1>4. F = [i \in 0 .. Len(s) |-> Next1(F, i)]
  <2> HIDE DEF Next1
  <2> QED BY <1>3
<1>5. Filter(s, T) = F[Len(s)]
  BY DEF Filter
<1>6. F = f
  <2> SUFFICES ASSUME F # f PROVE FALSE
    OBVIOUS
  <2> DEFINE Diff == {i \in 0 .. Len(s) : F[i] # f[i]}
  <2>0. f = [i \in 0 .. Len(s) |-> Next1(f, i)]
    BY <1>3
  <2>1. Diff # {} /\ Diff \in SUBSET Nat
    <3> HIDE DEF Next1, F
    <3> QED BY <1>1, <1>4, <2>0
  <2>2. PICK i \in Diff : \A j \in Diff : i <= j
    <3> HIDE DEF Diff
    <3> QED BY <2>1, LeastNat
  <2>3. i \in 0 .. Len(s) /\ F[i] = Next1(F, i) /\ f[i] = Next1(f, i)
    <3> HIDE DEF Next1, F
    <3> QED BY <1>4, <2>0, <2>2
  <2>4. CASE i = 0
    <3> HIDE DEF F
    <3> QED BY <2>2, <2>3, <2>4
  <2>5. CASE i # 0
    <3>1. i - 1 \in 0 .. Len(s) /\ i - 1 \notin Diff
      <4>1. i - 1 \in 0 .. Len(s) /\ ~ (i <= i - 1)
        BY <1>1, <2>3, <2>5
      <4> HIDE DEF Diff
      <4> QED BY <2>2, <4>1
    <3>2. F[i - 1] = f[i - 1]
      BY <3>1
    <3> HIDE DEF F
    <3> QED BY <2>2, <2>3, <2>5, <3>2
  <2> QED BY <2>4, <2>5
<1>7. Len(s) \in 0 .. Len(s)
  BY <1>1
<1> HIDE DEF Next1, F
<1> QED BY <1>3, <1>5, <1>6, <1>7

-----------------------------------------------------------------------------
(* Tokens and blocks.                                                       *)

LEMMA ConstantFacts ==
  /\ block_size \in Nat /\ block_size >= 1 /\ Reqs \subseteq Nat /\ 0 \notin Reqs
  /\ \A r \in Reqs : num_prompt_tokens(r) \in Nat /\ num_prompt_tokens(r) >= 1
  /\ max_tokens \in Nat /\ max_tokens >= 1
  /\ max_num_scheduled_tokens \in Nat /\ max_num_scheduled_tokens >= 1
  /\ long_prefill_token_threshold \in Nat /\ pp_size \in Nat /\ pp_size >= 1
  /\ async_scheduling \in BOOLEAN
<1>1. block_size \in Nat \ {0} /\ NumReqs \in Nat \ {0} /\ max_tokens \in Nat \ {0}
  BY ManagerAssumption
<1>2. Reqs \subseteq Nat /\ 0 \notin Reqs
  BY <1>1 DEF Reqs
<1>3. \A r \in Reqs : num_prompt_tokens(r) \in Nat \ {0}
  BY ManagerAssumption DEF Reqs, num_prompt_tokens
<1>4. {pp_size, max_num_scheduled_tokens, max_num_running_reqs} \subseteq Nat \ {0}
  BY SchedulerAssumption
<1>5. {long_prefill_token_threshold, watermark_blocks, MaxAborts, MaxLoads} \subseteq Nat
  BY SchedulerAssumption
<1>6. async_scheduling \in BOOLEAN
  BY SchedulerAssumption
<1>7. \A n \in Nat \ {0} : n \in Nat /\ n >= 1
  OBVIOUS
<1> QED BY <1>1, <1>2, <1>3, <1>4, <1>5, <1>6, <1>7

LEMMA DivTimes ==
  ASSUME NEW a \in Nat, NEW d \in Nat, d >= 1
  PROVE  a \div d \in Nat /\ (a \div d) * d <= a /\ a < (a \div d) * d + d
OBVIOUS

LEMMA TimesMonotone ==
  ASSUME NEW a \in Nat, NEW b \in Nat, NEW d \in Nat, a <= b
  PROVE  a * d <= b * d
OBVIOUS

LEMMA TimesStrict ==
  ASSUME NEW a \in Nat, NEW b \in Nat, NEW d \in Nat, d >= 1, a * d < b * d
  PROVE  a < b
OBVIOUS

LEMMA CdivIs ==
  ASSUME NEW n \in Nat, NEW d \in Nat, d >= 1
  PROVE  cdiv(n, d) \in Nat /\ n <= cdiv(n, d) * d /\ cdiv(n, d) * d < n + d
BY DivTimes DEF cdiv

\* The hits are blocks, of fewer tokens than the request has.
LEMMA HitsAre ==
  ASSUME NEW r \in Reqs, req[r].num_tokens \in Nat, req[r].num_tokens >= 1,
         NEW hits \in Hits(r)
  PROVE  /\ hits \in Seq(Blocks) /\ Len(hits) \in Nat
         /\ Len(hits) * block_size <= req[r].num_tokens - 1
         /\ req[r].num_computed_tokens # 0 => hits = << >>
         /\ \A i \in 1 .. Len(hits) : hits[i] \in get_cached_block(m.pool, BlockHash(r, i))
<1>0. block_size \in Nat /\ block_size >= 1
  BY ConstantFacts
<1>1. CASE req[r].num_computed_tokens # 0
  <2>1. hits = << >>
    BY <1>1 DEF Hits
  <2>2. Len(hits) = 0 /\ hits \in Seq(Blocks)
    BY <2>1
  <2>3. 0 * block_size = 0
    BY <1>0
  <2> QED BY <2>1, <2>2, <2>3
<1>2. CASE req[r].num_computed_tokens = 0
  <2> DEFINE most == (req[r].num_tokens - 1) \div block_size
             Hit(k) == \A i \in 1 .. k : get_cached_block(m.pool, BlockHash(r, i)) # {}
             G == {n \in 0 .. most : Hit(n)}
             K == CHOOSE n \in 0 .. most : Hit(n) /\ \A j \in 0 .. most : Hit(j) => j <= n
  <2>1. most \in Nat /\ most * block_size <= req[r].num_tokens - 1
    <3>1. req[r].num_tokens - 1 \in Nat
      OBVIOUS
    <3> QED BY <1>0, <3>1, DivTimes
  <2>2. K \in 0 .. most
    <3> HIDE DEF most
    <3>1. 0 \in G /\ G \in SUBSET (0 .. most)
      BY <2>1
    <3>2. PICK n \in G : \A j \in G : j <= n
      <4> HIDE DEF G
      <4> QED BY <2>1, <3>1, GreatestNat
    <3>3. n \in 0 .. most /\ Hit(n) /\ \A j \in 0 .. most : Hit(j) => j <= n
      <4> HIDE DEF Hit
      <4> QED BY <3>2
    <3> HIDE DEF Hit
    <3> QED BY <3>3
  <2>3. /\ hits \in [1 .. K -> Blocks]
        /\ \A i \in 1 .. K : hits[i] \in get_cached_block(m.pool, BlockHash(r, i))
    BY <1>2 DEF Hits, get_computed_blocks
  <2> HIDE DEF K
  <2>4. hits \in Seq(Blocks) /\ Len(hits) = K
    BY <2>1, <2>2, <2>3
  <2>5. K * block_size <= most * block_size
    <3> HIDE DEF most
    <3>1. K \in Nat /\ K <= most
      BY <2>1, <2>2
    <3> QED BY <1>0, <2>1, <3>1, TimesMonotone
  <2>6. Len(hits) * block_size <= req[r].num_tokens - 1
    <3> HIDE DEF most
    <3>1. K * block_size \in Int /\ most * block_size \in Int
      BY <1>0, <2>1, <2>2
    <3> QED BY <2>1, <2>4, <2>5, <3>1
  <2> QED BY <1>2, <2>2, <2>3, <2>4, <2>6
<1> QED BY <1>1, <1>2

\* What the step takes of the tokens that a request wants.
LEMMA ChunkIs ==
  ASSUME NEW w \in Nat, w >= 1, loop.budget \in Nat, loop.budget >= 1
  PROVE  /\ Chunk(w) \in Nat /\ Chunk(w) >= 1 /\ Chunk(w) <= w
         /\ Chunk(w) <= loop.budget
BY ConstantFacts DEF Chunk, Min2

-----------------------------------------------------------------------------
(* The steps in flight.                                                     *)

\* An entry of a step, with blocks from B.
EntryOf(B) ==
  [request : Reqs, num : Nat \ {0}, position : Int, samples : BOOLEAN, blocks : SUBSET B]

\* No two entries of a step are of the same request.
OneEach(step) ==
  \A i, j \in DOMAIN step : step[i].request = step[j].request => i = j

SamplesIn(step, r) == \E j \in DOMAIN step : step[j].request = r /\ step[j].samples

\* A step after which request r has had c1 tokens and o1 outputs, and before
\* which c0 and o0. Of the tokens the first S are stale, and their output is
\* dropped if D; what is delivered is the token that follows N + o0 others.
StepCounts(step, r, N, S, D, c0, o0, c1, o1) ==
  /\ c1 = c0 + NumIn(step, r)
  /\ o1 = o0 + (IF SamplesIn(step, r) /\ (D => S <= c0) THEN 1 ELSE 0)
  /\ c1 <= S \/ S <= c0
  /\ \A j \in DOMAIN step :
       step[j].request = r /\ step[j].samples /\ (D => S <= c0) => step[j].position = N + o1

\* In the first i of the steps U request r has c[i] tokens and o[i] outputs.
Counts(U, r, N, S, D, c, o) ==
  /\ c \in [0 .. Len(U) -> Nat] /\ o \in [0 .. Len(U) -> Nat] /\ c[0] = 0 /\ o[0] = 0
  /\ \A i \in 1 .. Len(U) : StepCounts(U[i], r, N, S, D, c[i - 1], o[i - 1], c[i], o[i])

\* The tokens of the entry of r.
LEMMA NumInIs ==
  ASSUME NEW B, NEW step \in Seq(EntryOf(B)), OneEach(step), NEW r
  PROVE  /\ NumIn(step, r) \in Nat
         /\ \A j \in DOMAIN step : step[j].request = r => NumIn(step, r) = step[j].num
         /\ (\A j \in DOMAIN step : step[j].request # r) => NumIn(step, r) = 0
         /\ SamplesIn(step, r) => NumIn(step, r) > 0
<1>1. ASSUME NEW j \in DOMAIN step, step[j].request = r
      PROVE  NumIn(step, r) = step[j].num
  <2>1. step[j] \in ToSet(step)
    BY DEF ToSet
  <2>2. \A e \in ToSet(step) : e.request = r => e = step[j]
    BY <1>1 DEF ToSet, OneEach
  <2>3. (CHOOSE e \in ToSet(step) : e.request = r) = step[j]
    BY <1>1, <2>1, <2>2
  <2> QED BY <1>1, <2>3 DEF NumIn
<1>2. (\A j \in DOMAIN step : step[j].request # r) => NumIn(step, r) = 0
  BY DEF NumIn
<1>3. \A j \in DOMAIN step : step[j].num \in Nat \ {0}
  <2>1. \A j \in DOMAIN step : step[j] \in EntryOf(B)
    OBVIOUS
  <2> QED BY <2>1 DEF EntryOf
<1> QED BY <1>1, <1>2, <1>3 DEF SamplesIn

\* What never falls from one place to the next never falls.
LEMMA NeverFalls ==
  ASSUME NEW n \in Nat, NEW f \in [0 .. n -> Nat], \A i \in 1 .. n : f[i - 1] <= f[i],
         NEW j \in 0 .. n, NEW k \in 0 .. n, j <= k
  PROVE  f[j] <= f[k]
<1> DEFINE T == {i \in 0 .. n : j <= i /\ ~ (f[j] <= f[i])}
<1> SUFFICES ASSUME T # {} PROVE FALSE
  OBVIOUS
<1>1. PICK i \in T : \A l \in T : i <= l
  <2>1. T \in SUBSET Nat
    OBVIOUS
  <2> HIDE DEF T
  <2> QED BY <2>1, LeastNat
<1>2. i \in 0 .. n /\ j <= i /\ ~ (f[j] <= f[i])
  BY <1>1
<1>3. i # j
  BY <1>2, SMTT(30)
<1>4. i \in 1 .. n /\ i - 1 \in 0 .. n /\ j <= i - 1 /\ ~ (i <= i - 1)
  BY <1>2, <1>3
<1>5. f[j] <= f[i - 1]
  <2>1. i - 1 \notin T
    <3> HIDE DEF T
    <3> QED BY <1>1, <1>4
  <2> QED BY <1>4, <2>1
<1>6. f[i - 1] <= f[i] /\ f[j] \in Nat /\ f[i] \in Nat /\ f[i - 1] \in Nat
  BY <1>4
<1> QED BY <1>2, <1>5, <1>6

LEMMA CountsRise ==
  ASSUME NEW B, NEW U \in Seq(Seq(EntryOf(B))), \A i \in DOMAIN U : OneEach(U[i]),
         NEW r, NEW N, NEW S \in Nat, NEW D \in BOOLEAN, NEW c, NEW o,
         Counts(U, r, N, S, D, c, o)
  PROVE  \A j, k \in 0 .. Len(U) : j <= k => c[j] <= c[k] /\ o[j] <= o[k]
<1>1. Len(U) \in Nat /\ c \in [0 .. Len(U) -> Nat] /\ o \in [0 .. Len(U) -> Nat]
  BY DEF Counts
<1>2. ASSUME NEW i \in 1 .. Len(U)
      PROVE  c[i - 1] <= c[i] /\ o[i - 1] <= o[i]
  <2>1. i - 1 \in 0 .. Len(U) /\ U[i] \in Seq(EntryOf(B)) /\ OneEach(U[i])
    BY <1>1
  <2>2. NumIn(U[i], r) \in Nat
    BY <2>1, NumInIs
  <2>3. c[i] = c[i - 1] + NumIn(U[i], r)
    BY DEF Counts, StepCounts
  <2>4. o[i] = o[i - 1] + (IF SamplesIn(U[i], r) /\ (D => S <= c[i - 1]) THEN 1 ELSE 0)
    BY DEF Counts, StepCounts
  <2>5. c[i - 1] \in Nat /\ o[i - 1] \in Nat
    BY <1>1, <2>1
  <2>6. c[i - 1] <= c[i]
    BY <2>2, <2>3, <2>5
  <2>7. o[i - 1] <= o[i]
    BY <2>4, <2>5
  <2> QED BY <2>6, <2>7
<1> QED BY <1>1, <1>2, NeverFalls

\* If all of the request's output is stale and dropped, or there is none.
LEMMA NothingOut ==
  ASSUME NEW B, NEW U \in Seq(Seq(EntryOf(B))), \A i \in DOMAIN U : OneEach(U[i]),
         NEW r, NEW N, NEW D \in BOOLEAN, NEW c, NEW o,
         NEW S \in Nat, Counts(U, r, N, S, D, c, o), S = c[Len(U)], D \/ S = 0
  PROVE  \A i \in 0 .. Len(U) : o[i] = 0
<1> DEFINE T == {i \in 0 .. Len(U) : o[i] # 0}
<1>0. /\ Len(U) \in Nat /\ c \in [0 .. Len(U) -> Nat] /\ o \in [0 .. Len(U) -> Nat]
      /\ c[0] = 0 /\ o[0] = 0 /\ Len(U) \in 0 .. Len(U)
  BY DEF Counts
<1> SUFFICES ASSUME T # {} PROVE FALSE
  OBVIOUS
<1>1. PICK i \in T : \A k \in T : i <= k
  <2>1. T \in SUBSET Nat
    BY <1>0
  <2> HIDE DEF T
  <2> QED BY <2>1, LeastNat
<1>1a. i \in 0 .. Len(U) /\ o[i] # 0
  BY <1>1
<1>2. i \in 1 .. Len(U) /\ i - 1 \in 0 .. Len(U) /\ ~ (i <= i - 1)
  BY <1>0, <1>1a
<1>3. o[i - 1] = 0
  <2>1. i - 1 \notin T
    <3> HIDE DEF T
    <3> QED BY <1>1, <1>2
  <2> QED BY <1>2, <2>1
<1>4. SamplesIn(U[i], r) /\ (D => S <= c[i - 1])
  <2>1. o[i] = o[i - 1] + (IF SamplesIn(U[i], r) /\ (D => S <= c[i - 1]) THEN 1 ELSE 0)
    BY <1>2 DEF Counts, StepCounts
  <2> QED BY <1>1a, <1>3, <2>1
<1>5. NumIn(U[i], r) > 0 /\ NumIn(U[i], r) \in Nat
  <2>1. U[i] \in Seq(EntryOf(B)) /\ OneEach(U[i])
    BY <1>2
  <2> QED BY <1>4, <2>1, NumInIs
<1>6. c[i] = c[i - 1] + NumIn(U[i], r) /\ c[i] \in Nat /\ c[i - 1] \in Nat
  BY <1>0, <1>2 DEF Counts, StepCounts
<1>7. c[i] <= c[Len(U)]
  <2>1. \A j, k \in 0 .. Len(U) : j <= k => c[j] <= c[k]
    BY CountsRise
  <2> QED BY <1>0, <1>2, <2>1
<1> QED BY <1>4, <1>5, <1>6, <1>7

\* A step is issued.
LEMMA CountsIssue ==
  ASSUME NEW B, NEW U \in Seq(Seq(EntryOf(B))), NEW step \in Seq(EntryOf(B)),
         OneEach(step), NEW r, NEW N \in Nat, NEW S \in Nat, NEW D \in BOOLEAN, NEW c, NEW o,
         Counts(U, r, N, S, D, c, o), S <= c[Len(U)],
         \A j \in DOMAIN step : step[j].request = r /\ step[j].samples =>
           step[j].position = N + o[Len(U)] + 1
  PROVE  \E c1, o1 :
           /\ Counts(Append(U, step), r, N, S, D, c1, o1)
           /\ c1[Len(U) + 1] = c[Len(U)] + NumIn(step, r)
           /\ o1[Len(U) + 1] = o[Len(U)] + IF SamplesIn(step, r) THEN 1 ELSE 0
<1> DEFINE n == Len(U)
           k == NumIn(step, r)
           x == IF SamplesIn(step, r) THEN 1 ELSE 0
           c1 == [i \in 0 .. (n + 1) |-> IF i <= n THEN c[i] ELSE c[n] + k]
           o1 == [i \in 0 .. (n + 1) |-> IF i <= n THEN o[i] ELSE o[n] + x]
<1>1. PICK V : V = Append(U, step)
  OBVIOUS
<1>2. /\ V \in Seq(Seq(EntryOf(B))) /\ Len(V) = n + 1 /\ V[n + 1] = step
      /\ \A i \in 1 .. n : V[i] = U[i]
  BY <1>1
<1>3. n \in Nat /\ k \in Nat /\ x \in Nat /\ c \in [0 .. n -> Nat] /\ o \in [0 .. n -> Nat]
      /\ c[0] = 0 /\ o[0] = 0 /\ c[n] \in Nat /\ o[n] \in Nat
  <2>1. k \in Nat
    BY NumInIs
  <2>2. n \in Nat /\ c \in [0 .. n -> Nat] /\ o \in [0 .. n -> Nat] /\ c[0] = 0 /\ o[0] = 0
    BY DEF Counts
  <2> QED BY <2>1, <2>2
<1> HIDE DEF n, k, x
<1>4. /\ c1 \in [0 .. (n + 1) -> Nat] /\ o1 \in [0 .. (n + 1) -> Nat]
      /\ \A i \in 0 .. n : c1[i] = c[i] /\ o1[i] = o[i]
      /\ c1[n + 1] = c[n] + k /\ o1[n + 1] = o[n] + x
  BY <1>3, SMTT(30)
<1> HIDE DEF c1, o1
<1>5. ASSUME NEW i \in 1 .. (n + 1)
      PROVE  StepCounts(V[i], r, N, S, D, c1[i - 1], o1[i - 1], c1[i], o1[i])
  <2>1. CASE i = n + 1
    <3>1. i - 1 = n /\ n \in 0 .. n
      BY <1>3, <2>1
    <3>2. c1[i - 1] = c[n] /\ o1[i - 1] = o[n] /\ S <= c[n]
      BY <1>4, <3>1 DEF n
    <3>3. \A j \in DOMAIN step : step[j].request = r /\ step[j].samples =>
            SamplesIn(step, r) /\ step[j].position = N + o[n] + 1
      BY DEF n, SamplesIn
    <3>4. \A j \in DOMAIN step : step[j].request = r /\ step[j].samples =>
            step[j].position = N + o1[i]
      <4>1. o1[i] = o[n] + x /\ (SamplesIn(step, r) => x = 1)
        BY <1>4, <2>1 DEF x
      <4> QED BY <1>3, <3>3, <4>1
    <3>5. V[i] = step
      BY <1>2, <2>1
    <3>6. c1[i] = c1[i - 1] + NumIn(V[i], r)
      BY <1>4, <2>1, <3>2, <3>5 DEF k
    <3>7. o1[i] = o1[i - 1] + (IF SamplesIn(V[i], r) /\ (D => S <= c1[i - 1]) THEN 1 ELSE 0)
      BY <1>4, <2>1, <3>2, <3>5 DEF x
    <3> QED BY <3>2, <3>4, <3>5, <3>6, <3>7 DEF StepCounts
  <2>2. CASE i # n + 1
    <3>1. i \in 1 .. n /\ i - 1 \in 0 .. n /\ i \in 0 .. n
      BY <1>3, <2>2
    <3>2. V[i] = U[i] /\ c1[i] = c[i] /\ c1[i - 1] = c[i - 1] /\ o1[i] = o[i]
          /\ o1[i - 1] = o[i - 1]
      BY <1>2, <1>4, <3>1
    <3> QED BY <3>1, <3>2 DEF Counts, n
  <2> QED BY <2>1, <2>2
<1>6. Counts(V, r, N, S, D, c1, o1)
  <2>1. 0 \in 0 .. n
    BY <1>3
  <2> QED BY <1>2, <1>3, <1>4, <1>5, <2>1 DEF Counts
<1> QED BY <1>1, <1>4, <1>6 DEF n, k, x

\* Places in a sequence and in its tail.
LEMMA TailIs ==
  ASSUME NEW X, NEW s \in Seq(X), s # << >>
  PROVE  /\ Tail(s) \in Seq(X) /\ 1 \in DOMAIN s /\ Head(s) = s[1] /\ Head(s) \in X
         /\ \A j \in DOMAIN Tail(s) : j \in Nat /\ j + 1 \in DOMAIN s /\ Tail(s)[j] = s[j + 1]
         /\ \A j \in DOMAIN s :
              j \in Nat /\ (j = 1 \/ (j - 1 \in DOMAIN Tail(s) /\ Tail(s)[j - 1] = s[j]))
<1>1. PICK t : t = Tail(s)
  OBVIOUS
<1>2. /\ t \in Seq(X) /\ Len(s) \in Nat /\ Len(s) >= 1 /\ Len(t) = Len(s) - 1
      /\ \A j \in 1 .. Len(t) : t[j] = s[j + 1]
      /\ DOMAIN s = 1 .. Len(s) /\ DOMAIN t = 1 .. Len(t)
  BY <1>1
<1>3. \A j \in 1 .. Len(s) : j = 1 \/ j - 1 \in 1 .. Len(t)
  BY <1>2
<1>4. \A j \in 1 .. Len(s) : (j - 1) + 1 = j
  OBVIOUS
<1>5. \A j \in DOMAIN s : j \in Nat /\ (j = 1 \/ (j - 1 \in DOMAIN t /\ t[j - 1] = s[j]))
  BY <1>2, <1>3, <1>4
<1>6. \A j \in DOMAIN t : j \in Nat /\ j + 1 \in DOMAIN s /\ t[j] = s[j + 1]
  BY <1>2
<1> QED BY <1>1, <1>2, <1>5, <1>6

\* The first entry of the step in hand lands: nothing changes for the others.
LEMMA CountsOther ==
  ASSUME NEW B, NEW step \in Seq(EntryOf(B)), step # << >>, OneEach(step),
         NEW rest \in Seq(Seq(EntryOf(B))), NEW r, r # Head(step).request,
         NEW N, NEW S, NEW D, NEW c, NEW o, Counts(<<step>> \o rest, r, N, S, D, c, o)
  PROVE  Counts(<<Tail(step)>> \o rest, r, N, S, D, c, o)
<1>1. PICK U : U = <<step>> \o rest
  OBVIOUS
<1>2. PICK V : V = <<Tail(step)>> \o rest
  OBVIOUS
<1>3. PICK t : t = Tail(step)
  OBVIOUS
<1>4. t \in Seq(EntryOf(B)) /\ Head(step) = step[1]
  BY <1>3, TailIs
<1>5. Len(U) = Len(rest) + 1 /\ Len(V) = Len(rest) + 1 /\ Len(rest) \in Nat
      /\ U[1] = step /\ V[1] = t /\ \A i \in 2 .. (Len(rest) + 1) : V[i] = U[i]
  BY <1>1, <1>2, <1>3
<1>6. /\ \A j \in DOMAIN t : j + 1 \in DOMAIN step /\ t[j] = step[j + 1]
      /\ \A j \in DOMAIN step : step[j].request = r => j - 1 \in DOMAIN t /\ t[j - 1] = step[j]
  BY <1>3, <1>4, TailIs
<1>7. OneEach(t)
  <2> SUFFICES ASSUME NEW i \in DOMAIN t, NEW j \in DOMAIN t, t[i].request = t[j].request
               PROVE  i = j
    BY DEF OneEach
  <2>1. i + 1 = j + 1
    BY <1>6 DEF OneEach
  <2> QED BY <1>4, <2>1
<1>8. NumIn(t, r) = NumIn(step, r)
  <2>1. CASE \E j \in DOMAIN step : step[j].request = r
    <3>1. PICK j \in DOMAIN step : step[j].request = r
      BY <2>1
    <3>2. NumIn(step, r) = step[j].num
      BY <3>1, NumInIs
    <3>3. j - 1 \in DOMAIN t /\ t[j - 1] = step[j]
      BY <1>6, <3>1
    <3>4. NumIn(t, r) = t[j - 1].num
      BY <1>4, <1>7, <3>1, <3>3, NumInIs
    <3> QED BY <3>2, <3>3, <3>4
  <2>2. CASE ~ \E j \in DOMAIN step : step[j].request = r
    BY <1>6, <2>2 DEF NumIn
  <2> QED BY <2>1, <2>2
<1>9. SamplesIn(t, r) <=> SamplesIn(step, r)
  BY <1>6 DEF SamplesIn
<1>10. StepCounts(step, r, N, S, D, c[0], o[0], c[1], o[1])
         => StepCounts(t, r, N, S, D, c[0], o[0], c[1], o[1])
  BY <1>6, <1>8, <1>9 DEF StepCounts
<1>11. \A i \in 1 .. Len(V) : StepCounts(V[i], r, N, S, D, c[i - 1], o[i - 1], c[i], o[i])
  <2> SUFFICES ASSUME NEW i \in 1 .. Len(V)
               PROVE  StepCounts(V[i], r, N, S, D, c[i - 1], o[i - 1], c[i], o[i])
    OBVIOUS
  <2>1. StepCounts(U[i], r, N, S, D, c[i - 1], o[i - 1], c[i], o[i])
    BY <1>1, <1>5 DEF Counts
  <2>2. CASE i = 1
    <3>1. i - 1 = 0
      BY <2>2
    <3> QED BY <1>5, <1>10, <2>1, <2>2, <3>1
  <2>3. CASE i # 1
    <3>1. i \in 2 .. (Len(rest) + 1)
      BY <1>5, <2>3
    <3> QED BY <1>5, <2>1, <3>1
  <2> QED BY <2>2, <2>3
<1> QED BY <1>1, <1>2, <1>5, <1>11 DEF Counts

\* The first entry of the step in hand lands: its request has fewer tokens in
\* flight, and one output less to come if the entry is delivered.
Lands(step, rest, N, S, D, c, o) ==
  LET e == Head(step)
      n == Len(rest) + 1
      x == IF e.samples /\ ~ (S > 0 /\ D) THEN 1 ELSE 0
      S1 == IF S > 0 THEN S - e.num ELSE S
  IN /\ S1 \in Nat /\ S1 <= c[n] - e.num /\ c[n] - e.num \in Nat /\ o[n] - x \in Nat
     /\ x = 1 => e.position = N + 1
     /\ \E c1, o1 : /\ Counts(<<Tail(step)>> \o rest, e.request, N + x, S1, D, c1, o1)
                    /\ c1[n] = c[n] - e.num /\ o1[n] = o[n] - x

LEMMA CountsLanded ==
  ASSUME NEW B, NEW step \in Seq(EntryOf(B)), step # << >>, OneEach(step),
         NEW rest \in Seq(Seq(EntryOf(B))), \A i \in DOMAIN rest : OneEach(rest[i]),
         NEW N \in Nat, NEW S \in Nat, NEW D \in BOOLEAN, NEW c, NEW o,
         Counts(<<step>> \o rest, Head(step).request, N, S, D, c, o),
         S <= c[Len(rest) + 1]
  PROVE  Lands(step, rest, N, S, D, c, o)
<1> DEFINE e == Head(step)
           n == Len(rest) + 1
           r == e.request
           k == e.num
           x == IF e.samples /\ ~ (S > 0 /\ D) THEN 1 ELSE 0
           S1 == IF S > 0 THEN S - k ELSE S
           c1 == [i \in 0 .. n |-> IF i = 0 THEN 0 ELSE c[i] - k]
           o1 == [i \in 0 .. n |-> IF i = 0 THEN 0 ELSE o[i] - x]
<1>1. PICK U : U = <<step>> \o rest
  OBVIOUS
<1>2. PICK V : V = <<Tail(step)>> \o rest
  OBVIOUS
<1>3. PICK t : t = Tail(step)
  OBVIOUS
<1>4. /\ t \in Seq(EntryOf(B)) /\ 1 \in DOMAIN step /\ e = step[1]
      /\ \A j \in DOMAIN t : j \in Nat /\ j + 1 \in DOMAIN step /\ t[j] = step[j + 1]
  BY <1>3, TailIs
<1>5. Len(U) = n /\ Len(V) = n /\ n \in Nat /\ n >= 1
      /\ U[1] = step /\ V[1] = t /\ \A i \in 2 .. n : V[i] = U[i]
  BY <1>1, <1>2, <1>3
<1>5a. /\ U \in Seq(Seq(EntryOf(B))) /\ \A i \in DOMAIN U : OneEach(U[i])
       /\ Counts(U, r, N, S, D, c, o)
  <2>1. Counts(U, r, N, S, D, c, o)
    BY <1>1
  <2>2. U \in Seq(Seq(EntryOf(B)))
    BY <1>1
  <2>3. \A i \in 2 .. n : U[i] = rest[i - 1] /\ i - 1 \in DOMAIN rest
    BY <1>1
  <2>4. \A i \in DOMAIN U : i = 1 \/ i \in 2 .. n
    BY <1>5, <2>2
  <2> QED BY <1>5, <2>1, <2>2, <2>3, <2>4
<1>6. e \in EntryOf(B)
  BY <1>4
<1>7. k \in Nat /\ k >= 1 /\ e.samples \in BOOLEAN
  BY <1>6 DEF EntryOf
<1>8. \A j \in DOMAIN t : t[j].request # r
  <2>1. \A j \in DOMAIN step : step[j].request = step[1].request => j = 1
    BY <1>4 DEF OneEach
  <2>2. \A j \in Nat : j \in DOMAIN t => j + 1 # 1
    BY <1>4
  <2> QED BY <1>4, <2>1, <2>2
<1>9. NumIn(t, r) = 0 /\ ~ SamplesIn(t, r)
  BY <1>8 DEF NumIn, SamplesIn
<1>10. NumIn(step, r) = k /\ (SamplesIn(step, r) <=> e.samples)
  <2>1. NumIn(step, r) = k
    BY <1>4, NumInIs
  <2>2. \A j \in DOMAIN step : step[j].request = r => j = 1
    BY <1>4 DEF OneEach
  <2>3. SamplesIn(step, r) <=> e.samples
    BY <1>4, <2>2 DEF SamplesIn
  <2> QED BY <2>1, <2>3
<1>11. /\ c \in [0 .. n -> Nat] /\ o \in [0 .. n -> Nat] /\ c[0] = 0 /\ o[0] = 0
       /\ \A i \in 1 .. n : StepCounts(U[i], r, N, S, D, c[i - 1], o[i - 1], c[i], o[i])
  <2> HIDE DEF r, n
  <2> QED BY <1>5, <1>5a DEF Counts
<1>12. StepCounts(step, r, N, S, D, c[0], o[0], c[1], o[1])
  <2>1. 1 \in 1 .. n /\ 1 - 1 = 0
    BY <1>5
  <2> HIDE DEF r, n
  <2> QED BY <1>5, <1>11, <2>1
<1> HIDE DEF n, r, k, e
<1>13. c[1] = k /\ o[1] = x /\ (k <= S \/ S = 0) /\ (x = 1 => e.position = N + 1)
  <2>1. 1 \in 0 .. n /\ c[1] \in Nat /\ o[1] \in Nat
    BY <1>5, <1>11
  <2>2. (D => S <= 0) <=> ~ (S > 0 /\ D)
    OBVIOUS
  <2>3. c[1] = 0 + k /\ (c[1] <= S \/ S <= 0)
    BY <1>10, <1>11, <1>12 DEF StepCounts
  <2>4. o[1] = 0 + x
    BY <1>10, <1>11, <1>12, <2>2 DEF StepCounts
  <2>5. x = 1 => e.position = N + o[1]
    BY <1>4, <1>11, <1>12, <2>2 DEF StepCounts, r
  <2> QED BY <1>7, <2>1, <2>3, <2>4, <2>5
<1>14. x \in Nat /\ S1 \in Nat
  BY <1>7, <1>13
<1>15. \A i \in 1 .. n : k <= c[i] /\ x <= o[i] /\ c[i] \in Nat /\ o[i] \in Nat
  <2>1. \A i, j \in 0 .. n : i <= j => c[i] <= c[j] /\ o[i] <= o[j]
    <3>1. \A i, j \in 0 .. Len(U) : i <= j => c[i] <= c[j] /\ o[i] <= o[j]
      BY <1>5a, CountsRise
    <3> QED BY <1>5, <3>1
  <2>2. 1 \in 0 .. n /\ \A i \in 1 .. n : i \in 0 .. n /\ 1 <= i
    BY <1>5
  <2> QED BY <1>11, <1>13, <2>1, <2>2
<1> HIDE DEF x, S1
<1>16. /\ c1 \in [0 .. n -> Nat] /\ o1 \in [0 .. n -> Nat] /\ c1[0] = 0 /\ o1[0] = 0
       /\ \A i \in 1 .. n : c1[i] = c[i] - k /\ o1[i] = o[i] - x
  BY <1>5, <1>7, <1>14, <1>15
<1> HIDE DEF c1, o1
<1>17. ASSUME NEW i \in 1 .. n
       PROVE  StepCounts(V[i], r, N + x, S1, D, c1[i - 1], o1[i - 1], c1[i], o1[i])
  <2>1. CASE i = 1
    <3>1. i - 1 = 0 /\ c1[1] = 0 /\ o1[1] = 0
      BY <1>7, <1>13, <1>14, <1>16, <2>1
    <3>2. 0 <= S1 \/ S1 <= 0
      BY <1>14
    <3>3. StepCounts(t, r, N + x, S1, D, 0, 0, 0, 0)
      BY <1>8, <1>9, <3>2 DEF StepCounts
    <3> QED BY <1>5, <1>16, <2>1, <3>1, <3>3
  <2>2. CASE i # 1
    <3>1. i \in 2 .. n /\ i - 1 \in 1 .. n
      BY <1>5, <2>2
    <3>2. V[i] = U[i] /\ StepCounts(U[i], r, N, S, D, c[i - 1], o[i - 1], c[i], o[i])
      BY <1>5, <1>11, <3>1
    <3>3. NumIn(U[i], r) \in Nat
      <4>1. i \in DOMAIN U
        BY <1>5, <1>5a
      <4>2. U[i] \in Seq(EntryOf(B)) /\ OneEach(U[i])
        BY <1>5a, <4>1
      <4> QED BY <4>2, NumInIs
    <3>4. StepCounts(U[i], r, N + x, S1, D, c[i - 1] - k, o[i - 1] - x, c[i] - k, o[i] - x)
      <4>1. /\ c[i - 1] \in Nat /\ o[i - 1] \in Nat /\ c[i] \in Nat /\ o[i] \in Nat
            /\ k <= c[i - 1]
        BY <1>15, <3>1
      <4>2. k \in Nat /\ x \in Nat /\ (k <= S \/ S = 0)
        BY <1>7, <1>13, <1>14
      <4>3. PICK c0 \in Nat, o0 \in Nat, c2 \in Nat, o2 \in Nat :
              c0 = c[i - 1] /\ o0 = o[i - 1] /\ c2 = c[i] /\ o2 = o[i]
        BY <4>1
      <4>4. k <= c0 /\ StepCounts(U[i], r, N, S, D, c0, o0, c2, o2)
        BY <3>2, <4>1, <4>3
      <4>5. S <= c0 <=> S1 <= c0 - k
        BY <4>2, <4>4 DEF S1
      <4>6. c2 - k = (c0 - k) + NumIn(U[i], r) /\ (c2 <= S \/ S <= c0) /\ c0 <= c2
        BY <3>3, <4>2, <4>4 DEF StepCounts
      <4>7. c2 - k <= S1 \/ S1 <= c0 - k
        BY <4>2, <4>4, <4>5, <4>6 DEF S1
      <4>8. o2 - x = (o0 - x) + (IF SamplesIn(U[i], r) /\ (D => S1 <= c0 - k) THEN 1 ELSE 0)
        BY <4>2, <4>4, <4>5 DEF StepCounts
      <4>9. N + o2 = (N + x) + (o2 - x)
        BY <4>2
      <4>10. \A j \in DOMAIN U[i] :
               U[i][j].request = r /\ U[i][j].samples /\ (D => S1 <= c0 - k) =>
                 U[i][j].position = (N + x) + (o2 - x)
        BY <4>4, <4>5, <4>9 DEF StepCounts
      <4>11. StepCounts(U[i], r, N + x, S1, D, c0 - k, o0 - x, c2 - k, o2 - x)
        BY <4>6, <4>7, <4>8, <4>10 DEF StepCounts
      <4> QED BY <4>3, <4>11
    <3> QED BY <1>16, <3>1, <3>2, <3>4
  <2> QED BY <2>1, <2>2
<1>18. Counts(V, r, N + x, S1, D, c1, o1)
  BY <1>5, <1>16, <1>17 DEF Counts
<1>19. n \in 1 .. n
  BY <1>5
<1>20. S1 <= c[n] - k /\ c[n] - k \in Nat /\ o[n] - x \in Nat
  <2>1. S <= c[n]
    BY DEF n
  <2> QED BY <1>7, <1>14, <1>15, <1>19, <2>1, SMTT(30) DEF S1
<1>21. c1[n] = c[n] - k /\ o1[n] = o[n] - x
  BY <1>16, <1>19
<1> QED BY <1>2, <1>13, <1>14, <1>18, <1>20, <1>21 DEF Lands, e, r, n, k, x, S1

\* A step without entries left is done.
LEMMA CountsDone ==
  ASSUME NEW X, NEW rest \in Seq(X), NEW r, NEW N, NEW S, NEW D, NEW c, NEW o,
         Counts(<< << >> >> \o rest, r, N, S, D, c, o)
  PROVE  \E c1, o1 : /\ Counts(rest, r, N, S, D, c1, o1)
                     /\ c1[Len(rest)] = c[Len(rest) + 1] /\ o1[Len(rest)] = o[Len(rest) + 1]
<1> DEFINE n == Len(rest)
           c1 == [i \in 0 .. n |-> c[i + 1]]
           o1 == [i \in 0 .. n |-> o[i + 1]]
<1>1. PICK U : U = << << >> >> \o rest
  OBVIOUS
<1>2. n \in Nat /\ Len(U) = n + 1 /\ U[1] = << >> /\ \A i \in 1 .. n : U[i + 1] = rest[i]
  BY <1>1
<1>3. /\ c \in [0 .. (n + 1) -> Nat] /\ o \in [0 .. (n + 1) -> Nat] /\ c[0] = 0 /\ o[0] = 0
      /\ \A i \in 1 .. (n + 1) :
           StepCounts(U[i], r, N, S, D, c[i - 1], o[i - 1], c[i], o[i])
  BY <1>1, <1>2 DEF Counts
<1> HIDE DEF n
<1>4. c[1] = 0 /\ o[1] = 0
  <2>1. 1 \in 1 .. (n + 1) /\ 1 - 1 = 0
    BY <1>2
  <2>2. StepCounts(<< >>, r, N, S, D, 0, 0, c[1], o[1])
    BY <1>2, <1>3, <2>1
  <2>3. NumIn(<< >>, r) = 0 /\ ~ SamplesIn(<< >>, r)
    BY DEF NumIn, SamplesIn
  <2> QED BY <2>2, <2>3 DEF StepCounts
<1>5. /\ c1 \in [0 .. n -> Nat] /\ o1 \in [0 .. n -> Nat]
      /\ \A i \in 0 .. n : c1[i] = c[i + 1] /\ o1[i] = o[i + 1]
  BY <1>2, <1>3
<1> HIDE DEF c1, o1
<1>6. ASSUME NEW i \in 1 .. n
      PROVE  StepCounts(rest[i], r, N, S, D, c1[i - 1], o1[i - 1], c1[i], o1[i])
  <2>1. i + 1 \in 1 .. (n + 1) /\ (i + 1) - 1 = i /\ i \in 0 .. n /\ i - 1 \in 0 .. n
        /\ (i - 1) + 1 = i
    BY <1>2
  <2>2. c1[i] = c[i + 1] /\ o1[i] = o[i + 1] /\ c1[i - 1] = c[i] /\ o1[i - 1] = o[i]
    BY <1>5, <2>1
  <2>3. StepCounts(U[i + 1], r, N, S, D, c[i], o[i], c[i + 1], o[i + 1])
    BY <1>3, <2>1
  <2> QED BY <1>2, <2>2, <2>3
<1>7. Counts(rest, r, N, S, D, c1, o1)
  <2>1. c1[0] = 0 /\ o1[0] = 0
    BY <1>2, <1>4, <1>5
  <2> QED BY <1>5, <1>6, <2>1 DEF Counts, n
<1>8. c1[n] = c[n + 1] /\ o1[n] = o[n + 1]
  BY <1>2, <1>5
<1> QED BY <1>7, <1>8 DEF n

\* A request that is preempted: all its tokens in flight are stale.
LEMMA CountsPreempted ==
  ASSUME NEW B, NEW U \in Seq(Seq(EntryOf(B))), \A i \in DOMAIN U : OneEach(U[i]),
         NEW r, NEW N \in Nat, NEW S \in Nat, NEW D \in BOOLEAN, NEW c, NEW o,
         Counts(U, r, N, S, D, c, o), NEW drop \in BOOLEAN
  PROVE  \E o1 : Counts(U, r, N, c[Len(U)], drop \/ (D /\ S > 0), c, o1)
<1> DEFINE n == Len(U)
           F == c[n]
           D1 == drop \/ (D /\ S > 0)
<1>1. /\ n \in Nat /\ c \in [0 .. n -> Nat] /\ o \in [0 .. n -> Nat] /\ c[0] = 0 /\ o[0] = 0
      /\ \A i \in 1 .. n : StepCounts(U[i], r, N, S, D, c[i - 1], o[i - 1], c[i], o[i])
      /\ n \in 0 .. n /\ F \in Nat
  BY SMTT(30) DEF Counts
<1>2. \A i \in 0 .. n : c[i] <= F
  <2>1. \A j, k \in 0 .. n : j <= k => c[j] <= c[k]
    BY CountsRise
  <2> QED BY <1>1, <2>1
<1>3. CASE ~ D1
  <2>1. ~ drop /\ (D => S <= 0) /\ D1 = FALSE
    BY <1>3
  <2>2. ASSUME NEW i \in 1 .. n
        PROVE  StepCounts(U[i], r, N, F, FALSE, c[i - 1], o[i - 1], c[i], o[i])
    <3>1. StepCounts(U[i], r, N, S, D, c[i - 1], o[i - 1], c[i], o[i])
      BY <1>1
    <3>2. i - 1 \in 0 .. n /\ i \in 0 .. n
      BY <1>1
    <3>3. c[i - 1] \in Nat /\ c[i] <= F
      BY <1>1, <1>2, <3>2
    <3>4. D => S <= c[i - 1]
      BY <2>1, <3>3
    <3> HIDE DEF F, n
    <3> QED BY <3>1, <3>3, <3>4 DEF StepCounts
  <2>3. Counts(U, r, N, F, FALSE, c, o)
    <3> HIDE DEF F
    <3> QED BY <1>1, <2>2 DEF Counts
  <2>4. Counts(U, r, N, F, D1, c, o)
    BY <2>1, <2>3
  <2> QED BY <2>4
<1>4. CASE D1
  <2> DEFINE z == [i \in 0 .. n |-> 0]
  <2>1. z \in [0 .. n -> Nat] /\ z[0] = 0 /\ \A i \in 0 .. n : z[i] = 0
    BY <1>1
  <2> HIDE DEF z
  <2>2. ASSUME NEW i \in 1 .. n
        PROVE  StepCounts(U[i], r, N, F, TRUE, c[i - 1], z[i - 1], c[i], z[i])
    <3>1. i - 1 \in 0 .. n /\ i \in 0 .. n /\ U[i] \in Seq(EntryOf(B)) /\ OneEach(U[i])
      BY <1>1
    <3>2. c[i - 1] \in Nat /\ c[i] <= F /\ c[i] \in Nat /\ z[i] = 0 /\ z[i - 1] = 0
      BY <1>1, <1>2, <2>1, <3>1
    <3>3. /\ NumIn(U[i], r) \in Nat
          /\ SamplesIn(U[i], r) => NumIn(U[i], r) > 0
          /\ c[i] = c[i - 1] + NumIn(U[i], r)
      <4>1. StepCounts(U[i], r, N, S, D, c[i - 1], o[i - 1], c[i], o[i])
        BY <1>1
      <4>2. NumIn(U[i], r) \in Nat /\ (SamplesIn(U[i], r) => NumIn(U[i], r) > 0)
        BY <3>1, NumInIs
      <4> QED BY <4>1, <4>2 DEF StepCounts
    <3>4. ~ (SamplesIn(U[i], r) /\ F <= c[i - 1])
      BY <1>1, <3>2, <3>3
    <3>5. ~ \E j \in DOMAIN U[i] : U[i][j].request = r /\ U[i][j].samples /\ F <= c[i - 1]
      BY <3>4 DEF SamplesIn
    <3> HIDE DEF F, n
    <3> QED BY <3>2, <3>3, <3>4, <3>5 DEF StepCounts
  <2>3. Counts(U, r, N, F, TRUE, c, z)
    <3> HIDE DEF F
    <3> QED BY <1>1, <2>1, <2>2 DEF Counts
  <2>4. D1 = TRUE
    BY <1>4
  <2> QED BY <2>3, <2>4
<1> QED BY <1>3, <1>4

\* A request without entries.
LEMMA CountsNone ==
  ASSUME NEW X, NEW U \in Seq(X), NEW r, NEW N, NEW D,
         \A i \in DOMAIN U : \A j \in DOMAIN U[i] : U[i][j].request # r
  PROVE  \E c, o : Counts(U, r, N, 0, D, c, o) /\ c[Len(U)] = 0 /\ o[Len(U)] = 0
<1> DEFINE z == [i \in 0 .. Len(U) |-> 0]
<1>1. z \in [0 .. Len(U) -> Nat] /\ \A i \in 0 .. Len(U) : z[i] = 0
  OBVIOUS
<1>2. Len(U) \in Nat
  OBVIOUS
<1> HIDE DEF z
<1>3. ASSUME NEW i \in 1 .. Len(U)
      PROVE  StepCounts(U[i], r, N, 0, D, z[i - 1], z[i - 1], z[i], z[i])
  <2>1. NumIn(U[i], r) = 0 /\ ~ SamplesIn(U[i], r)
    BY DEF NumIn, SamplesIn
  <2>2. z[i - 1] = 0 /\ z[i] = 0
    BY <1>1, <1>2
  <2> QED BY <2>1, <2>2 DEF StepCounts
<1>4. Counts(U, r, N, 0, D, z, z)
  BY <1>1, <1>2, <1>3 DEF Counts
<1> QED BY <1>1, <1>2, <1>4

\* Sums is what it is meant to be.
LEMMA SumsAre ==
  ASSUME NEW s, Len(s) \in Nat, NEW c, DOMAIN c = 0 .. Len(s), c = [i \in DOMAIN c |-> c[i]],
         c[0] = 0, \A i \in 1 .. Len(s) : c[i] = c[i - 1] + s[i]
  PROVE  Sums(s) = c
<1> DEFINE Next1(f, i) == IF i = 0 THEN 0 ELSE f[i - 1] + s[i]
           F == CHOOSE f : f = [i \in 0 .. Len(s) |-> Next1(f, i)]
<1>1. Sums(s) = F
  BY DEF Sums
<1>2. c = [i \in 0 .. Len(s) |-> Next1(c, i)]
  <2>1. \A i \in 0 .. Len(s) : c[i] = Next1(c, i)
    <3> SUFFICES ASSUME NEW i \in 0 .. Len(s) PROVE c[i] = Next1(c, i)
      OBVIOUS
    <3>1. i = 0 \/ i \in 1 .. Len(s)
      OBVIOUS
    <3> QED BY <3>1
  <2> HIDE DEF Next1
  <2> QED BY <2>1
<1>3. F = [i \in 0 .. Len(s) |-> Next1(F, i)]
  <2> HIDE DEF Next1
  <2> QED BY <1>2
<1>4. F = c
  <2> SUFFICES ASSUME F # c PROVE FALSE
    OBVIOUS
  <2> DEFINE Diff == {i \in 0 .. Len(s) : F[i] # c[i]}
  <2>1. Diff # {} /\ Diff \in SUBSET Nat
    <3> HIDE DEF Next1, F
    <3> QED BY <1>2, <1>3
  <2>2. PICK i \in Diff : \A j \in Diff : i <= j
    <3> HIDE DEF Diff
    <3> QED BY <2>1, LeastNat
  <2>3. i \in 0 .. Len(s) /\ F[i] = Next1(F, i) /\ c[i] = Next1(c, i) /\ F[i] # c[i]
    <3>1. i \in 0 .. Len(s) /\ F[i] # c[i]
      BY <2>2
    <3> HIDE DEF Next1, F, Diff
    <3> QED BY <1>2, <1>3, <3>1
  <2>4. CASE i = 0
    <3> HIDE DEF F
    <3> QED BY <2>3, <2>4
  <2>5. CASE i # 0
    <3>1. i - 1 \in 0 .. Len(s) /\ i - 1 \notin Diff
      <4>1. i - 1 \in 0 .. Len(s) /\ ~ (i <= i - 1)
        BY <2>3, <2>5
      <4> HIDE DEF Diff
      <4> QED BY <2>2, <4>1
    <3>2. F[i - 1] = c[i - 1]
      BY <3>1
    <3> HIDE DEF F
    <3> QED BY <2>3, <2>5, <3>2
  <2> QED BY <2>4, <2>5
<1> QED BY <1>1, <1>4

\* The tokens in flight that InFlightAccounted counts.
LEMMA CountsSum ==
  ASSUME NEW X, Unprocessed \in Seq(X), NEW r, NEW N, NEW S, NEW D, NEW c, NEW o,
         Counts(Unprocessed, r, N, S, D, c, o)
  PROVE  InFlight(r)[Len(Unprocessed)] = c[Len(Unprocessed)]
<1>1. PICK U : U = Unprocessed
  OBVIOUS
<1>2. PICK s : s = [i \in DOMAIN U |-> NumIn(U[i], r)]
  OBVIOUS
<1>3. U \in Seq(X) /\ Len(U) \in Nat /\ DOMAIN U = 1 .. Len(U)
  BY <1>1
<1>4. Len(s) = Len(U) /\ \A i \in 1 .. Len(U) : s[i] = NumIn(U[i], r)
  BY <1>2, <1>3
<1>5. /\ c \in [0 .. Len(U) -> Nat] /\ c[0] = 0
      /\ \A i \in 1 .. Len(U) : c[i] = c[i - 1] + NumIn(U[i], r)
  BY <1>1 DEF Counts, StepCounts
<1>6. Sums(s) = c
  <2>1. DOMAIN c = 0 .. Len(s) /\ c = [i \in DOMAIN c |-> c[i]] /\ Len(s) \in Nat
    BY <1>3, <1>4, <1>5
  <2>2. \A i \in 1 .. Len(s) : c[i] = c[i - 1] + s[i]
    BY <1>4, <1>5
  <2> QED BY <1>5, <2>1, <2>2, SumsAre
<1> QED BY <1>1, <1>2, <1>6 DEF InFlight

-----------------------------------------------------------------------------
(* The tokens.                                                              *)

Numbers(q) ==
  /\ q.num_tokens \in Nat /\ q.num_tokens >= 1 /\ q.num_computed_tokens \in Nat
  /\ q.num_in_flight_tokens \in Nat /\ q.num_output_placeholders \in Nat
  /\ q.num_stale_output_tokens \in Nat /\ q.drop_stale_output \in BOOLEAN
  /\ q.decode_wait \in 0 .. pp_size

\* How far a request q is that has n outputs to come: a running one is waited
\* for by its placeholders (AsyncScheduler) or has computed all its tokens
\* (Scheduler), and what is in flight of one that waits is stale.
Progress(q, n) ==
  /\ q.status = "RUNNING" =>
       /\ q.num_stale_output_tokens > 0 => q.drop_stale_output
       /\ async_scheduling =>
            /\ n = q.num_output_placeholders
            /\ q.num_computed_tokens + 1 <= q.num_tokens + q.num_output_placeholders
            /\ q.num_output_placeholders > 0 =>
                 q.num_computed_tokens + 1 = q.num_tokens + q.num_output_placeholders
       /\ ~ async_scheduling =>
            /\ q.num_output_placeholders = 0 /\ q.num_computed_tokens <= q.num_tokens
            /\ n = IF q.num_computed_tokens = q.num_tokens THEN 1 ELSE 0
  /\ q.status \in Waitable =>
       /\ q.num_output_placeholders = 0 /\ q.num_stale_output_tokens = q.num_in_flight_tokens
       /\ q.num_computed_tokens <= q.num_tokens
       /\ q.status # "WAITING_FOR_REMOTE_KVS" => q.num_computed_tokens < q.num_tokens
       /\ q.status = "WAITING_FOR_REMOTE_KVS" \/ q.num_computed_tokens > 0 =>
            (q.num_stale_output_tokens > 0 => q.drop_stale_output)

\* The counters of request r, which are q, agree with the steps U.
Accounted(U, r, q) ==
  /\ q.num_tokens < MaxLen(r)
  /\ \E c, o :
       /\ Counts(U, r, q.num_tokens, q.num_stale_output_tokens, q.drop_stale_output, c, o)
       /\ q.num_in_flight_tokens = c[Len(U)]
       /\ q.num_stale_output_tokens <= q.num_in_flight_tokens
       /\ Progress(q, o[Len(U)])

\* A step has one entry for each of its requests.
GoodStep(step) ==
  OneEach(step) /\ \A j \in DOMAIN step : req[step[j].request].status # "ABSENT"

StepInv ==
  /\ \E B : in_flight \in Seq(Seq(EntryOf(B))) /\ todo \in Seq(EntryOf(B))
  /\ \A i \in DOMAIN in_flight : GoodStep(in_flight[i])
  /\ GoodStep(todo)
  /\ Len(in_flight) <= batch_queue_size
  /\ pc \in {"drain", "update"} => in_flight # << >>

\* A request q that runs has n tokens for the step.
Takes(q, n) ==
  q.status = "RUNNING" /\ q.num_computed_tokens + n <= q.num_tokens + q.num_output_placeholders

\* The requests scheduled so far are behind the cursor in running.
LoopInv ==
  /\ loop.budget \in Nat /\ loop.num_new \in Nat
  /\ loop.scheduled \in Seq(Reqs \X (Nat \ {0}))
  /\ pc \in {"running", "allocate", "waiting", "issue"} =>
       /\ Len(in_flight) < batch_queue_size
       /\ \A i \in DOMAIN loop.scheduled :
            Takes(req[loop.scheduled[i][1]], loop.scheduled[i][2])
       /\ \A i, j \in DOMAIN loop.scheduled :
            loop.scheduled[i][1] = loop.scheduled[j][1] => i = j
  /\ pc \in {"running", "allocate"} =>
       \A i \in DOMAIN loop.scheduled : \E j \in DOMAIN running :
         j < loop.index /\ running[j] = loop.scheduled[i][1]
  /\ pc = "allocate" =>
       /\ loop.index \in DOMAIN running /\ loop.request = running[loop.index]
       /\ loop.num_new >= 1 /\ loop.num_new <= loop.budget
       /\ Takes(req[loop.request], loop.num_new)

\* A load that failed leaves tokens to compute.
LoadInv ==
  \A r \in Reqs :
    /\ load[r].first \in Nat /\ load[r].invalid \in Nat /\ load[r].failed \in BOOLEAN
    /\ Loading(r) =>
         /\ load[r].failed => req[r].num_computed_tokens < req[r].num_tokens
         /\ load[r].state = "arrived" /\ pc # "update" /\ load[r].invalid > 0 =>
              ValidTokens(r) < req[r].num_computed_tokens

NumbersInv == \A r \in Reqs : Numbers(req[r])
AccountedInv == \A r \in Known : Accounted(Unprocessed, r, req[r])

TokenInv == NumbersInv /\ StepInv /\ LoopInv /\ LoadInv /\ AccountedInv

LEMMA NewNumbers ==
  ASSUME NEW r \in Reqs
  PROVE  Numbers(NewRequest(r)) /\ NewRequest(r).num_tokens < MaxLen(r)
<1>1. PICK n \in Nat : n = num_prompt_tokens(r) /\ n >= 1
  BY ConstantFacts
<1>2. 0 \in 0 .. pp_size /\ n < n + max_tokens
  BY ConstantFacts
<1> QED BY <1>1, <1>2 DEF Numbers, NewRequest, MaxLen

LEMMA TokenInit == Init => TokenInv
<1> SUFFICES ASSUME Init PROVE TokenInv
  OBVIOUS
<1>1. NumbersInv
  <2> SUFFICES ASSUME NEW r \in Reqs PROVE Numbers(req[r])
    BY DEF NumbersInv
  <2>1. req[r] = [NewRequest(r) EXCEPT !.status = "ABSENT"]
    BY DEF Init
  <2>2. Numbers(NewRequest(r))
    BY NewNumbers
  <2>3. /\ req[r].num_tokens = NewRequest(r).num_tokens
        /\ req[r].num_computed_tokens = NewRequest(r).num_computed_tokens
        /\ req[r].num_in_flight_tokens = NewRequest(r).num_in_flight_tokens
        /\ req[r].num_output_placeholders = NewRequest(r).num_output_placeholders
        /\ req[r].num_stale_output_tokens = NewRequest(r).num_stale_output_tokens
        /\ req[r].drop_stale_output = NewRequest(r).drop_stale_output
        /\ req[r].decode_wait = NewRequest(r).decode_wait
    BY <2>1 DEF NewRequest
  <2> QED BY <2>2, <2>3 DEF Numbers
<1>2. StepInv
  <2>1. in_flight = << >> /\ todo = << >> /\ pc = "idle"
    BY DEF Init
  <2>2. << >> \in Seq(Seq(EntryOf({}))) /\ << >> \in Seq(EntryOf({}))
    OBVIOUS
  <2>3. Len(in_flight) <= batch_queue_size
    BY <2>1, ConstantFacts DEF batch_queue_size
  <2> QED BY <2>1, <2>2, <2>3 DEF StepInv, GoodStep, OneEach
<1>3. LoopInv
  BY DEF Init, LoopInv, NoLoop
<1>4. LoadInv
  BY DEF Init, LoadInv, NoLoad, Loading, NewRequest
<1>5. AccountedInv
  BY DEF Init, AccountedInv, Known, NewRequest
<1> QED BY <1>1, <1>2, <1>3, <1>4, <1>5 DEF TokenInv

\* The steps that are not processed are steps.
LEMMA UnprocessedAre ==
  ASSUME StepInv
  PROVE  \E B : /\ Unprocessed \in Seq(Seq(EntryOf(B)))
                /\ \A i \in DOMAIN Unprocessed : GoodStep(Unprocessed[i])
<1>1. PICK B : in_flight \in Seq(Seq(EntryOf(B))) /\ todo \in Seq(EntryOf(B))
  BY DEF StepInv
<1>2. CASE pc \notin {"drain", "update"}
  <2>1. Unprocessed = in_flight
    BY <1>2 DEF Unprocessed
  <2> QED BY <1>1, <2>1 DEF StepInv
<1>3. CASE pc \in {"drain", "update"}
  <2>1. in_flight # << >> /\ Unprocessed = <<todo>> \o Tail(in_flight)
    BY <1>3 DEF StepInv, Unprocessed
  <2>2. PICK t : t = Tail(in_flight)
    OBVIOUS
  <2>3. t \in Seq(Seq(EntryOf(B))) /\ \A j \in DOMAIN t : GoodStep(t[j])
    <3>1. /\ t \in Seq(Seq(EntryOf(B)))
          /\ \A j \in DOMAIN t : j + 1 \in DOMAIN in_flight /\ t[j] = in_flight[j + 1]
      BY <1>1, <2>1, <2>2, TailIs
    <3> QED BY <3>1 DEF StepInv
  <2>4. PICK U : U = <<todo>> \o t
    OBVIOUS
  <2>5. /\ U \in Seq(Seq(EntryOf(B))) /\ U[1] = todo
        /\ \A i \in DOMAIN U : i = 1 \/ (i - 1 \in DOMAIN t /\ U[i] = t[i - 1])
    BY <1>1, <2>3, <2>4
  <2>6. \A i \in DOMAIN U : GoodStep(U[i])
    BY <2>3, <2>5 DEF StepInv
  <2> QED BY <2>1, <2>2, <2>4, <2>5, <2>6
<1> QED BY <1>2, <1>3

\* A step of the engine that leaves the steps in flight alone.
LEMMA SameSteps ==
  ASSUME StepInv, UNCHANGED <<in_flight, todo>>,
         pc' \in {"drain", "update"} <=> pc \in {"drain", "update"},
         \A r \in Reqs : req[r].status # "ABSENT" => req'[r].status # "ABSENT"
  PROVE  StepInv' /\ Unprocessed' = Unprocessed
<1>1. Unprocessed' = Unprocessed
  BY DEF Unprocessed
<1>2. PICK B : in_flight \in Seq(Seq(EntryOf(B))) /\ todo \in Seq(EntryOf(B))
  BY DEF StepInv
<1>3. \A step \in Seq(EntryOf(B)) : GoodStep(step) => GoodStep(step)'
  <2> SUFFICES ASSUME NEW step \in Seq(EntryOf(B)), GoodStep(step)
               PROVE  OneEach(step) /\ \A j \in DOMAIN step : req'[step[j].request].status # "ABSENT"
    BY DEF GoodStep, OneEach
  <2>1. \A j \in DOMAIN step : step[j] \in EntryOf(B)
    OBVIOUS
  <2>2. \A j \in DOMAIN step : step[j].request \in Reqs
    BY <2>1 DEF EntryOf
  <2> QED BY <2>2 DEF GoodStep
<1>4. (\A i \in DOMAIN in_flight : GoodStep(in_flight[i]))' /\ GoodStep(todo)'
  <2>1. \A i \in DOMAIN in_flight : in_flight[i] \in Seq(EntryOf(B)) /\ GoodStep(in_flight[i])
    BY <1>2 DEF StepInv
  <2>2. \A i \in DOMAIN in_flight : GoodStep(in_flight[i])'
    BY <1>3, <2>1 DEF GoodStep, OneEach
  <2>3. GoodStep(todo)'
    BY <1>2, <1>3 DEF StepInv, GoodStep, OneEach
  <2> QED BY <2>2, <2>3
<1> QED BY <1>1, <1>2, <1>4 DEF StepInv, batch_queue_size

\* The counters that TokenInv is about.
SameCounters(q, q1) ==
  /\ q1.status = q.status /\ q1.num_tokens = q.num_tokens
  /\ q1.num_computed_tokens = q.num_computed_tokens
  /\ q1.num_in_flight_tokens = q.num_in_flight_tokens
  /\ q1.num_output_placeholders = q.num_output_placeholders
  /\ q1.num_stale_output_tokens = q.num_stale_output_tokens
  /\ q1.drop_stale_output = q.drop_stale_output

LEMMA SameAccount ==
  ASSUME NEW U, NEW r, NEW q, NEW q1, Accounted(U, r, q), q1.num_tokens = q.num_tokens,
         q1.num_in_flight_tokens = q.num_in_flight_tokens,
         q1.num_stale_output_tokens = q.num_stale_output_tokens,
         q1.drop_stale_output = q.drop_stale_output,
         \A n : Progress(q, n) => Progress(q1, n)
  PROVE  Accounted(U, r, q1)
BY Zenon DEF Accounted

LEMMA SameTokens ==
  ASSUME TokenInv, UNCHANGED <<in_flight, todo>>,
         pc' \in {"drain", "update"} <=> pc \in {"drain", "update"},
         \A r \in Reqs : SameCounters(req[r], req'[r]) /\ req'[r].decode_wait \in 0 .. pp_size,
         LoopInv', LoadInv'
  PROVE  TokenInv'
<1>1. StepInv' /\ Unprocessed' = Unprocessed
  BY SameSteps DEF TokenInv, SameCounters
<1>2. NumbersInv'
  BY DEF TokenInv, NumbersInv, Numbers, SameCounters
<1>3. AccountedInv'
  <2> SUFFICES ASSUME NEW r \in Known' PROVE Accounted(Unprocessed, r, req[r])'
    BY DEF AccountedInv
  <2>1. r \in Known /\ r \in Reqs
    BY DEF Known, SameCounters
  <2>2. Accounted(Unprocessed, r, req[r])
    BY <2>1 DEF TokenInv, AccountedInv
  <2>3. PICK q, q1 : q = req[r] /\ q1 = req'[r]
    OBVIOUS
  <2>4. SameCounters(q, q1)
    BY <2>1, <2>3
  <2>5. \A n : Progress(q, n) => Progress(q1, n)
    BY <2>4 DEF SameCounters, Progress
  <2>6. Accounted(Unprocessed, r, q1)
    BY <2>2, <2>3, <2>4, <2>5, SameAccount DEF SameCounters
  <2>7. \A U : Accounted(U, r, q1) => Accounted(U, r, q1)'
    BY DEF Accounted, Counts, StepCounts, Progress, NumIn, SamplesIn, MaxLen, num_prompt_tokens
  <2> QED BY <1>1, <2>3, <2>6, <2>7
<1> QED BY <1>1, <1>2, <1>3 DEF TokenInv

\* One request changes.
LEMMA OneRequest ==
  ASSUME QueueInv, TokenInv, UNCHANGED <<in_flight, todo>>,
         pc' \in {"drain", "update"} <=> pc \in {"drain", "update"},
         NEW v \in Known, NEW q1, req' = [req EXCEPT ![v] = q1], Numbers(q1),
         q1.status # "ABSENT", q1.status # "FINISHED" => Accounted(Unprocessed, v, q1),
         LoopInv', LoadInv'
  PROVE  TokenInv'
<1>0. v \in Reqs /\ DOMAIN req = Reqs
  BY DEF Known, QueueInv, Fields
<1>1. req'[v] = q1 /\ \A r \in Reqs : r # v => req'[r] = req[r]
  BY <1>0
<1>2. StepInv' /\ Unprocessed' = Unprocessed
  BY <1>1, SameSteps DEF TokenInv
<1>3. NumbersInv'
  BY <1>1 DEF TokenInv, NumbersInv
<1>4. AccountedInv'
  <2> SUFFICES ASSUME NEW r \in Known' PROVE Accounted(Unprocessed, r, req[r])'
    BY DEF AccountedInv
  <2>1. r \in Reqs
    BY DEF Known
  <2>2. CASE r = v
    BY <1>1, <1>2, <2>2 DEF Known
  <2>3. CASE r # v
    <3>1. r \in Known /\ req'[r] = req[r]
      BY <1>1, <2>1, <2>3 DEF Known
    <3>2. Accounted(Unprocessed, r, req[r])
      BY <3>1 DEF TokenInv, AccountedInv
    <3> QED BY <1>2, <3>1, <3>2
  <2> QED BY <2>2, <2>3
<1> QED BY <1>2, <1>3, <1>4 DEF TokenInv

\* The requests in running run, and are different.
LEMMA RunningAre ==
  ASSUME QueueInv
  PROVE  /\ running \in Seq(Reqs)
         /\ \A i \in DOMAIN running : running[i] \in Reqs /\ req[running[i]].status = "RUNNING"
         /\ \A i, j \in DOMAIN running : running[i] = running[j] => i = j
<1>1. running \in Seq(Reqs) /\ \A r \in Reqs : Placed(r)
  BY DEF QueueInv, Queues
<1>2. ASSUME NEW i \in DOMAIN running
      PROVE  running[i] \in Reqs /\ req[running[i]].status = "RUNNING"
  <2>1. running[i] \in Reqs /\ running[i] \in ToSet(running)
    BY <1>1 DEF ToSet
  <2>2. Count(running, running[i]) # 0
    BY <1>1, <2>1, CountNat
  <2> QED BY <1>1, <2>1, <2>2 DEF Placed
<1>3. ASSUME NEW i \in DOMAIN running, NEW j \in DOMAIN running, running[i] = running[j], i # j
      PROVE  FALSE
  <2> DEFINE P == {k \in DOMAIN running : running[k] = running[i]}
  <2>1. IsFiniteSet(P) /\ Cardinality(P) \in Nat /\ Cardinality(P) <= 1
    <3>1. IsFiniteSet(P) /\ Count(running, running[i]) \in Nat
      BY <1>1, CountNat
    <3>2. Count(running, running[i]) <= 1
      BY <1>1, <1>2 DEF Placed
    <3> QED BY <3>1, <3>2 DEF Count
  <2>2. {i, j} \subseteq P
    BY <1>3
  <2>3. Cardinality({i, j}) <= Cardinality(P)
    <3> HIDE DEF P
    <3> QED BY <2>1, <2>2, FS_Subset
  <2>4. Cardinality({i, j}) = 2
    <3>1. IsFiniteSet({i}) /\ Cardinality({i}) = 1
      BY FS_Singleton
    <3>2. {i, j} = {i} \cup {j} /\ j \notin {i}
      BY <1>3
    <3>3. Cardinality({i} \cup {j}) = Cardinality({i}) + 1
      BY <3>1, <3>2, FS_AddElement
    <3> QED BY <3>1, <3>2, <3>3
  <2> QED BY <2>1, <2>3, <2>4
<1> QED BY <1>1, <1>2, <1>3

\* A running request has computed no more tokens than it has.
LEMMA RunningWants ==
  ASSUME TokenInv, NEW r \in Reqs, req[r].status = "RUNNING"
  PROVE  /\ req[r].num_tokens \in Nat /\ req[r].num_output_placeholders \in Nat
         /\ req[r].num_computed_tokens \in Nat
         /\ req[r].num_computed_tokens <= req[r].num_tokens + req[r].num_output_placeholders
<1>1. r \in Known /\ Numbers(req[r])
  BY DEF Known, TokenInv, NumbersInv
<1>2. Accounted(Unprocessed, r, req[r])
  BY <1>1 DEF TokenInv, AccountedInv
<1>3. \E n : Progress(req[r], n)
  BY <1>2 DEF Accounted
<1> QED BY <1>1, <1>3, ConstantFacts DEF Progress, Numbers

LEMMA AppendIs ==
  ASSUME NEW X, NEW s \in Seq(X), NEW e \in X
  PROVE  /\ Append(s, e) \in Seq(X) /\ Len(Append(s, e)) = Len(s) + 1 /\ Len(s) \in Nat
         /\ Append(s, e)[Len(s) + 1] = e /\ \A i \in 1 .. Len(s) : Append(s, e)[i] = s[i]
OBVIOUS

\* Another request is scheduled.
LEMMA ScheduleAnother ==
  ASSUME NEW s0 \in Seq(Reqs \X (Nat \ {0})), NEW r \in Reqs, NEW n \in Nat, n >= 1, NEW rq,
         Takes(rq[r], n), \A i \in DOMAIN s0 : Takes(rq[s0[i][1]], s0[i][2]) /\ s0[i][1] # r,
         \A i, j \in DOMAIN s0 : s0[i][1] = s0[j][1] => i = j,
         NEW s, s = Append(s0, <<r, n>>)
  PROVE  /\ s \in Seq(Reqs \X (Nat \ {0}))
         /\ \A i \in DOMAIN s : Takes(rq[s[i][1]], s[i][2])
         /\ \A i, j \in DOMAIN s : s[i][1] = s[j][1] => i = j
         /\ \A i \in DOMAIN s : s[i][1] = r \/ (i \in DOMAIN s0 /\ s[i][1] = s0[i][1])
<1>1. PICK X : X = Reqs \X (Nat \ {0})
  OBVIOUS
<1>2. PICK e : e = <<r, n>>
  OBVIOUS
<1>3. e \in X /\ s0 \in Seq(X) /\ s = Append(s0, e) /\ e[1] = r /\ e[2] = n
  BY <1>1, <1>2
<1>4. /\ s \in Seq(X)
      /\ \A i \in DOMAIN s : \/ s[i] = e /\ i = Len(s0) + 1
                             \/ i \in DOMAIN s0 /\ s[i] = s0[i]
  <2>1. /\ s \in Seq(X) /\ Len(s) = Len(s0) + 1 /\ s[Len(s0) + 1] = e /\ Len(s0) \in Nat
        /\ \A i \in 1 .. Len(s0) : s[i] = s0[i]
    BY <1>3, AppendIs
  <2>2. DOMAIN s = 1 .. (Len(s0) + 1) /\ DOMAIN s0 = 1 .. Len(s0)
    BY <1>3, <2>1
  <2>3. \A i \in 1 .. (Len(s0) + 1) : i = Len(s0) + 1 \/ i \in 1 .. Len(s0)
    BY <2>1
  <2> QED BY <2>1, <2>2, <2>3
<1>5. \A i \in DOMAIN s : Takes(rq[s[i][1]], s[i][2])
  <2> SUFFICES ASSUME NEW i \in DOMAIN s PROVE Takes(rq[s[i][1]], s[i][2])
    OBVIOUS
  <2>1. CASE s[i] = e
    <3>1. s[i][1] = r /\ s[i][2] = n
      BY <1>3, <2>1
    <3> QED BY <3>1
  <2>2. CASE i \in DOMAIN s0 /\ s[i] = s0[i]
    BY <2>2
  <2> QED BY <1>4, <2>1, <2>2
<1>6. \A i \in DOMAIN s : \/ s[i][1] = r /\ i = Len(s0) + 1
                          \/ i \in DOMAIN s0 /\ s[i][1] = s0[i][1]
  <2>1. \A i \in DOMAIN s : s[i] = e => s[i][1] = r
    BY <1>3
  <2> QED BY <1>4, <2>1
<1>7. \A i, j \in DOMAIN s : s[i][1] = s[j][1] => i = j
  <2>1. \A i \in DOMAIN s0 : s0[i][1] # r
    OBVIOUS
  <2> QED BY <1>6, <2>1
<1> QED BY <1>1, <1>4, <1>5, <1>6, <1>7

LEMMA TokenScheduleSteps ==
  ASSUME QueueInv, TokenInv,
         ScheduleBegin \/ RunningSelect \/ RunningDone \/ RunningAllocate \/ WaitingSkip
           \/ WaitingDone
  PROVE  TokenInv'
<1>0. /\ DOMAIN loop = LoopFields /\ DOMAIN req = Reqs /\ LoopInv /\ LoadInv
      /\ \A r \in Reqs : DOMAIN req[r] = RequestFields
      /\ \A r \in Reqs : SameCounters(req[r], req[r]) /\ req[r].decode_wait \in 0 .. pp_size
  BY DEF QueueInv, Fields, TokenInv, NumbersInv, Numbers, SameCounters
<1>1. CASE ScheduleBegin
  <2>1. /\ pc = "idle" /\ pc' = "running" /\ Len(in_flight) < batch_queue_size
        /\ loop' = [NoLoop EXCEPT !.index = 1, !.budget = max_num_scheduled_tokens]
        /\ req' = [r \in Reqs |-> [req[r] EXCEPT !.decode_wait = AtLeast0(@ - 1)]]
        /\ UNCHANGED <<in_flight, todo, load>>
    BY <1>1 DEF ScheduleBegin
  <2>2. \A r \in Reqs : SameCounters(req[r], req'[r]) /\ req'[r].decode_wait \in 0 .. pp_size
    <3> SUFFICES ASSUME NEW r \in Reqs
                 PROVE  SameCounters(req[r], req'[r]) /\ req'[r].decode_wait \in 0 .. pp_size
      OBVIOUS
    <3>1. req'[r] = [req[r] EXCEPT !.decode_wait = AtLeast0(@ - 1)]
      BY <2>1
    <3>2. req'[r].decode_wait = AtLeast0(req[r].decode_wait - 1) /\ SameCounters(req[r], req'[r])
      BY <1>0, <3>1 DEF RequestFields, SameCounters
    <3> QED BY <1>0, <3>2, ConstantFacts DEF AtLeast0
  <2>3. LoopInv'
    <3>1. loop'.scheduled = << >> /\ loop'.budget = max_num_scheduled_tokens /\ loop'.num_new = 0
      BY <2>1 DEF NoLoop
    <3>2. << >> \in Seq(Reqs \X (Nat \ {0}))
      OBVIOUS
    <3>3. \A i \in DOMAIN loop'.scheduled : FALSE
      BY <3>1
    <3>4. Len(in_flight') < batch_queue_size /\ pc' = "running"
      BY <2>1
    <3>5. loop'.budget \in Nat /\ loop'.num_new \in Nat /\ loop'.scheduled \in Seq(Reqs \X (Nat \ {0}))
      BY <3>1, <3>2, ConstantFacts
    <3> QED BY <3>3, <3>4, <3>5 DEF LoopInv, batch_queue_size
  <2>4. LoadInv'
    <3>1. load' = load /\ pc # "update"
      BY <2>1
    <3>2. \A r \in Reqs : /\ req'[r].status = req[r].status
                          /\ req'[r].num_tokens = req[r].num_tokens
                          /\ req'[r].num_computed_tokens = req[r].num_computed_tokens
      BY <2>2 DEF SameCounters
    <3> QED BY <1>0, <3>1, <3>2 DEF LoadInv, Loading, ValidTokens
  <2> QED BY <2>1, <2>2, <2>3, <2>4, SameTokens
<1>2. CASE RunningSelect
  <2>1. PICK r : r = running[loop.index]
    OBVIOUS
  <2>2. /\ pc = "running" /\ RunningLeft /\ UNCHANGED <<in_flight, todo, req, load, running>>
        /\ IF ReachesMaxTokens(r) \/ req[r].decode_wait > 0 \/ NumNewTokens(r) = 0
           THEN loop' = [loop EXCEPT !.index = @ + 1] /\ UNCHANGED pc
           ELSE /\ loop' = [loop EXCEPT !.request = r, !.num_new = NumNewTokens(r)]
                /\ pc' = "allocate"
    BY <1>2, <2>1 DEF RunningSelect
  <2>3. loop.index \in DOMAIN running /\ loop.index \in Nat /\ loop.budget >= 1
    BY <1>0, <2>2, RunningAre DEF RunningLeft, QueueInv, Cursor, LoopInv
  <2>4. r \in Reqs /\ req[r].status = "RUNNING"
    BY <2>1, <2>3, RunningAre
  <2>5. LoopInv'
    <3>1. CASE loop' = [loop EXCEPT !.index = @ + 1] /\ UNCHANGED pc
      <4>1. /\ loop'.budget = loop.budget /\ loop'.num_new = loop.num_new
            /\ loop'.scheduled = loop.scheduled /\ loop'.index = loop.index + 1 /\ pc' = "running"
        BY <1>0, <2>2, <3>1 DEF LoopFields
      <4>2. \A j \in DOMAIN running : j < loop.index => j < loop.index + 1
        <5>1. \A j \in DOMAIN running : j \in Nat
          BY RunningAre
        <5> QED BY <2>3, <5>1
      <4> QED BY <1>0, <2>2, <4>1, <4>2 DEF LoopInv, Takes, batch_queue_size
    <3>2. CASE ~ (ReachesMaxTokens(r) \/ req[r].decode_wait > 0 \/ NumNewTokens(r) = 0)
      <4>1. /\ loop'.budget = loop.budget /\ loop'.num_new = NumNewTokens(r)
            /\ loop'.scheduled = loop.scheduled /\ loop'.index = loop.index /\ pc' = "allocate"
            /\ loop'.request = r
        BY <1>0, <2>2, <3>2 DEF LoopFields
      <4>2. PICK w \in Nat : w = req[r].num_tokens + req[r].num_output_placeholders
                                  - req[r].num_computed_tokens
        BY <2>4, RunningWants
      <4>3. NumNewTokens(r) = Chunk(w)
        BY <4>2 DEF NumNewTokens
      <4>4. w # 0
        <5>1. w = 0 => Chunk(w) = 0
          BY <1>0, <2>3, ConstantFacts DEF Chunk, Min2, LoopInv
        <5> QED BY <3>2, <4>3, <5>1
      <4>5. /\ NumNewTokens(r) \in Nat /\ NumNewTokens(r) >= 1 /\ NumNewTokens(r) <= w
            /\ NumNewTokens(r) <= loop.budget
        <5>1. w >= 1 /\ loop.budget \in Nat
          BY <1>0, <4>4 DEF LoopInv
        <5> QED BY <2>3, <4>3, <5>1, ChunkIs
      <4>6. Takes(req[r], NumNewTokens(r))
        BY <2>4, <4>2, <4>5, RunningWants DEF Takes
      <4>7. Len(in_flight') < batch_queue_size
        BY <1>0, <2>2 DEF LoopInv
      <4>8. \A i \in DOMAIN loop.scheduled :
              Takes(req'[loop.scheduled[i][1]], loop.scheduled[i][2])
        BY <1>0, <2>2 DEF LoopInv
      <4>9. /\ \A i, j \in DOMAIN loop.scheduled :
                 loop.scheduled[i][1] = loop.scheduled[j][1] => i = j
            /\ \A i \in DOMAIN loop.scheduled : \E j \in DOMAIN running :
                 j < loop.index /\ running[j] = loop.scheduled[i][1]
        BY <1>0, <2>2 DEF LoopInv
      <4>10. loop'.scheduled \in Seq(Reqs \X (Nat \ {0})) /\ loop'.budget \in Nat
        BY <1>0, <4>1 DEF LoopInv
      <4> QED BY <2>1, <2>2, <2>3, <4>1, <4>5, <4>6, <4>7, <4>8, <4>9, <4>10
              DEF LoopInv, batch_queue_size
    <3> QED BY <2>2, <3>1, <3>2
  <2>6. LoadInv'
    BY <1>0, <2>2 DEF LoadInv, Loading, ValidTokens
  <2>7. pc' \in {"running", "allocate"}
    BY <2>2
  <2> QED BY <1>0, <2>2, <2>5, <2>6, <2>7, SameTokens
<1>3. CASE RunningDone
  <2>1. /\ pc = "running" /\ pc' \in {"issue", "waiting"}
        /\ UNCHANGED <<in_flight, todo, req, load, running, loop>>
    BY <1>3 DEF RunningDone
  <2>2. LoopInv' /\ LoadInv'
    BY <1>0, <2>1 DEF LoopInv, LoadInv, Loading, ValidTokens, Takes, batch_queue_size
  <2> QED BY <1>0, <2>1, <2>2, SameTokens
<1>4. CASE RunningAllocate
  <2>1. PICK r, n : r = loop.request /\ n = loop.num_new
    OBVIOUS
  <2>2. /\ pc = "allocate" /\ pc' = "running"
        /\ loop' = [loop EXCEPT !.index = @ + 1, !.budget = @ - n,
                                !.scheduled = Append(@, <<r, n>>)]
        /\ UNCHANGED <<in_flight, todo, req, load, running>>
    BY <1>4, <2>1 DEF RunningAllocate
  <2>3. /\ loop.index \in DOMAIN running /\ r = running[loop.index] /\ n \in Nat /\ n >= 1
        /\ n <= loop.budget /\ Takes(req[r], n) /\ loop.budget \in Nat
        /\ loop.scheduled \in Seq(Reqs \X (Nat \ {0}))
    BY <1>0, <2>1, <2>2 DEF LoopInv
  <2>4. r \in Reqs /\ \A j \in DOMAIN running : j \in Nat /\ (running[j] = r => j = loop.index)
    BY <2>3, RunningAre
  <2>5. PICK s : s = Append(loop.scheduled, <<r, n>>)
    OBVIOUS
  <2>6. loop'.index = loop.index + 1 /\ loop'.budget = loop.budget - n /\ loop'.scheduled = s
        /\ loop'.num_new = loop.num_new
    BY <1>0, <2>2, <2>5 DEF LoopFields
  <2>8. \A i \in DOMAIN loop.scheduled : \E j \in DOMAIN running :
          j < loop.index /\ running[j] = loop.scheduled[i][1]
    BY <1>0, <2>2 DEF LoopInv
  <2>9. \A i \in DOMAIN loop.scheduled : loop.scheduled[i][1] # r
    BY <2>3, <2>4, <2>8
  <2>10. /\ s \in Seq(Reqs \X (Nat \ {0}))
         /\ \A i \in DOMAIN s : Takes(req[s[i][1]], s[i][2])
         /\ \A i, j \in DOMAIN s : s[i][1] = s[j][1] => i = j
         /\ \A i \in DOMAIN s :
              s[i][1] = r \/ (i \in DOMAIN loop.scheduled /\ s[i][1] = loop.scheduled[i][1])
    <3>1. PICK s0 : s0 = loop.scheduled
      OBVIOUS
    <3>2. /\ \A i \in DOMAIN s0 : Takes(req[s0[i][1]], s0[i][2]) /\ s0[i][1] # r
          /\ \A i, j \in DOMAIN s0 : s0[i][1] = s0[j][1] => i = j
      BY <1>0, <2>2, <2>9, <3>1 DEF LoopInv
    <3>3. s0 \in Seq(Reqs \X (Nat \ {0})) /\ n \in Nat /\ n >= 1 /\ Takes(req[r], n)
          /\ r \in Reqs /\ s = Append(s0, <<r, n>>)
      BY <2>3, <2>4, <2>5, <3>1
    <3>4. /\ s \in Seq(Reqs \X (Nat \ {0}))
          /\ \A i \in DOMAIN s : Takes(req[s[i][1]], s[i][2])
          /\ \A i, j \in DOMAIN s : s[i][1] = s[j][1] => i = j
          /\ \A i \in DOMAIN s : s[i][1] = r \/ (i \in DOMAIN s0 /\ s[i][1] = s0[i][1])
      BY <3>2, <3>3, ScheduleAnother
    <3> QED BY <3>1, <3>4
  <2>11. \A i \in DOMAIN s : \E j \in DOMAIN running : j < loop.index + 1 /\ running[j] = s[i][1]
    <3> SUFFICES ASSUME NEW i \in DOMAIN s
                 PROVE  \E j \in DOMAIN running : j < loop.index + 1 /\ running[j] = s[i][1]
      OBVIOUS
    <3>1. CASE s[i][1] = r
      BY <2>3, <2>4, <3>1
    <3>2. CASE i \in DOMAIN loop.scheduled /\ s[i][1] = loop.scheduled[i][1]
      <4>1. PICK j \in DOMAIN running : j < loop.index /\ running[j] = loop.scheduled[i][1]
        BY <2>8, <3>2
      <4> QED BY <2>3, <2>4, <3>2, <4>1
    <3> QED BY <2>10, <3>1, <3>2
  <2>13. LoopInv'
    <3>1. Len(in_flight') < batch_queue_size /\ \A i \in DOMAIN s : Takes(req'[s[i][1]], s[i][2])
      BY <1>0, <2>2, <2>10 DEF LoopInv
    <3>2. loop'.budget \in Nat /\ loop'.num_new \in Nat
      BY <1>0, <2>3, <2>6 DEF LoopInv
    <3>3. /\ loop'.scheduled \in Seq(Reqs \X (Nat \ {0}))
          /\ \A i \in DOMAIN loop'.scheduled :
               Takes(req'[loop'.scheduled[i][1]], loop'.scheduled[i][2])
          /\ \A i, j \in DOMAIN loop'.scheduled :
               loop'.scheduled[i][1] = loop'.scheduled[j][1] => i = j
      BY <2>6, <2>10, <3>1
    <3>4. \A i \in DOMAIN loop'.scheduled : \E j \in DOMAIN running' :
            j < loop'.index /\ running'[j] = loop'.scheduled[i][1]
      BY <2>2, <2>6, <2>11
    <3> QED BY <2>2, <3>1, <3>2, <3>3, <3>4 DEF LoopInv, batch_queue_size
  <2>14. LoadInv'
    BY <1>0, <2>2 DEF LoadInv, Loading, ValidTokens
  <2> QED BY <1>0, <2>2, <2>13, <2>14, SameTokens
<1>5. CASE WaitingSkip
  <2>1. /\ pc = "waiting" /\ pc' = pc /\ UNCHANGED <<in_flight, todo, req, load, running>>
        /\ loop' = [loop EXCEPT !.skipped = <<NextWaiting>> \o @]
    BY <1>5 DEF WaitingSkip
  <2>2. loop'.budget = loop.budget /\ loop'.num_new = loop.num_new
        /\ loop'.scheduled = loop.scheduled
    BY <1>0, <2>1 DEF LoopFields
  <2>3. LoopInv' /\ LoadInv'
    BY <1>0, <2>1, <2>2 DEF LoopInv, LoadInv, Loading, ValidTokens, Takes, batch_queue_size
  <2> QED BY <1>0, <2>1, <2>3, SameTokens
<1>6. CASE WaitingDone
  <2>1. /\ pc = "waiting" /\ pc' = "issue"
        /\ UNCHANGED <<in_flight, todo, req, load, running, loop>>
    BY <1>6 DEF WaitingDone
  <2>2. LoopInv' /\ LoadInv'
    BY <1>0, <2>1 DEF LoopInv, LoadInv, Loading, ValidTokens, Takes, batch_queue_size
  <2> QED BY <1>0, <2>1, <2>2, SameTokens
<1> QED BY <1>1, <1>2, <1>3, <1>4, <1>5, <1>6

-----------------------------------------------------------------------------
(* Steps outside schedule().                                                *)

LoopStates == {"running", "allocate", "waiting", "issue"}

\* Outside schedule() its variables do not matter.
LEMMA LoopIdle ==
  ASSUME LoopInv, loop' = loop, pc' \notin LoopStates
  PROVE  LoopInv'
BY DEF LoopInv, LoopStates

\* A step that leaves the requests and the steps in flight alone.
LEMMA TokenCalmSteps ==
  ASSUME QueueInv, TokenInv,
         \/ \E reset_running \in BOOLEAN : ResetBegin(reset_running)
         \/ ResetEnd \/ ResetRaised \/ DrainOne
         \/ \E r \in Reqs : LoadArrives(r) \/ UpdateLoadFinished(r)
  PROVE  TokenInv'
<1>0. /\ DOMAIN load = Reqs /\ \A r \in Reqs : DOMAIN load[r] = LoadFields
      /\ LoopInv /\ LoadInv /\ NumbersInv
      /\ \A r \in Reqs : SameCounters(req[r], req[r]) /\ req[r].decode_wait \in 0 .. pp_size
  BY DEF QueueInv, Fields, TokenInv, NumbersInv, Numbers, SameCounters
<1>1. ASSUME UNCHANGED <<in_flight, todo, req, load, loop>>,
             pc' \notin LoopStates, pc \in {"drain", "update"} <=> pc' \in {"drain", "update"},
             pc' # "update" => pc # "update"
      PROVE  TokenInv'
  <2>1. LoopInv' /\ LoadInv'
    BY <1>0, <1>1, LoopIdle DEF LoadInv, Loading, ValidTokens
  <2> QED BY <1>0, <1>1, <2>1, SameTokens
<1>2. CASE \E reset_running \in BOOLEAN : ResetBegin(reset_running)
  <2>1. /\ pc = "idle" /\ pc' \in {"reset_running", "reset"}
        /\ UNCHANGED <<in_flight, todo, req, load, loop>>
    BY <1>2 DEF ResetBegin, BetweenSteps
  <2> QED BY <1>1, <2>1 DEF LoopStates
<1>3. CASE ResetEnd
  <2>1. /\ pc \in {"reset_running", "reset"} /\ pc' \in {"reset_failed", "idle"}
        /\ UNCHANGED <<in_flight, todo, req, load, loop>>
    BY <1>3 DEF ResetEnd
  <2> QED BY <1>1, <2>1 DEF LoopStates
<1>4. CASE ResetRaised
  <2>1. pc = "reset_failed" /\ pc' = "idle" /\ UNCHANGED <<in_flight, todo, req, load, loop>>
    BY <1>4 DEF ResetRaised
  <2> QED BY <1>1, <2>1 DEF LoopStates
<1>5. CASE DrainOne
  <2>1. pc = "drain" /\ pc' = "drain" /\ UNCHANGED <<in_flight, todo, req, load, loop>>
    BY <1>5 DEF DrainOne
  <2> QED BY <1>1, <2>1 DEF LoopStates
<1>6. ASSUME NEW r \in Reqs, LoadArrives(r)
      PROVE  TokenInv'
  <2>1. PICK e : e = req[r].num_computed_tokens
    OBVIOUS
  <2>2. PICK i \in {0} \cup (((load[r].first \div block_size) + 1) .. cdiv(e, block_size)) :
          load' = [load EXCEPT ![r].state = "arrived", ![r].invalid = i]
    BY <1>6, <2>1 DEF LoadArrives
  <2>3. pc = "idle" /\ pc' = pc /\ UNCHANGED <<in_flight, todo, req, loop>>
    BY <1>6 DEF LoadArrives
  <2>4. e \in Nat /\ load[r].first \in Nat /\ block_size \in Nat /\ block_size >= 1
    BY <1>0, <2>1, ConstantFacts DEF NumbersInv, Numbers, LoadInv
  <2>5. i \in Nat /\ (i > 0 => (i - 1) * block_size < e)
    <3>1. load[r].first \div block_size \in Nat
      BY <2>4, DivTimes
    <3>2. PICK k : k = cdiv(e, block_size)
      OBVIOUS
    <3>3. k \in Nat /\ k * block_size < e + block_size
      BY <2>4, <3>2, CdivIs
    <3>4. i = 0 \/ (i \in Nat /\ i >= 1 /\ i <= k)
      BY <2>2, <3>1, <3>2, <3>3
    <3>5. CASE i >= 1 /\ i \in Nat /\ i <= k
      <4>1. i * block_size <= k * block_size
        BY <2>4, <3>3, <3>5, TimesMonotone
      <4>2. (i - 1) * block_size = i * block_size - block_size
        BY <2>4, <3>5
      <4>3. i * block_size \in Int /\ k * block_size \in Int
        BY <2>4, <3>3, <3>5
      <4> QED BY <2>4, <3>3, <3>5, <4>1, <4>2, <4>3
    <3> QED BY <3>4, <3>5
  <2>6. /\ load'[r].first = load[r].first /\ load'[r].failed = load[r].failed
        /\ load'[r].invalid = i
        /\ \A q \in Reqs : q # r => load'[q] = load[q]
    BY <1>0, <2>2 DEF LoadFields
  <2>7. LoadInv'
    <3> SUFFICES ASSUME NEW q \in Reqs
                 PROVE  /\ load'[q].first \in Nat /\ load'[q].invalid \in Nat
                        /\ load'[q].failed \in BOOLEAN
                        /\ Loading(q)' =>
                             /\ load'[q].failed => req'[q].num_computed_tokens < req'[q].num_tokens
                             /\ load'[q].state = "arrived" /\ pc' # "update" /\ load'[q].invalid > 0 =>
                                  ValidTokens(q)' < req'[q].num_computed_tokens
      BY DEF LoadInv
    <3>1. CASE q = r
      BY <1>0, <2>1, <2>3, <2>5, <2>6, <3>1 DEF LoadInv, Loading, ValidTokens
    <3>2. CASE q # r
      BY <1>0, <2>3, <2>6, <3>2 DEF LoadInv, Loading, ValidTokens
    <3> QED BY <3>1, <3>2
  <2>8. LoopInv'
    BY <1>0, <2>3, LoopIdle DEF LoopStates
  <2> QED BY <1>0, <2>3, <2>7, <2>8, SameTokens
<1>7. ASSUME NEW r \in Reqs, UpdateLoadFinished(r)
      PROVE  TokenInv'
  <2>1. /\ pc = "update" /\ pc' = pc /\ UNCHANGED <<in_flight, todo, req, loop>>
        /\ \/ load' = [load EXCEPT ![r].state = "finished"]
           \/ load' = [load EXCEPT ![r] = NoLoad]
    BY <1>7 DEF UpdateLoadFinished
  <2>2. LoadInv'
    <3> SUFFICES ASSUME NEW q \in Reqs
                 PROVE  /\ load'[q].first \in Nat /\ load'[q].invalid \in Nat
                        /\ load'[q].failed \in BOOLEAN
                        /\ Loading(q) =>
                             (load'[q].failed => req[q].num_computed_tokens < req[q].num_tokens)
      BY <2>1 DEF LoadInv, Loading
    <3>1. \/ load'[q] = load[q]
          \/ load'[q] = [load[q] EXCEPT !.state = "finished"]
          \/ load'[q] = NoLoad
      <4>1. CASE load' = [load EXCEPT ![r].state = "finished"]
        BY <1>0, <4>1
      <4>2. CASE load' = [load EXCEPT ![r] = NoLoad]
        BY <1>0, <4>2
      <4> QED BY <2>1, <4>1, <4>2
    <3>2. \/ /\ load'[q].first = load[q].first /\ load'[q].invalid = load[q].invalid
             /\ load'[q].failed = load[q].failed
          \/ load'[q].first = 0 /\ load'[q].invalid = 0 /\ load'[q].failed = FALSE
      BY <1>0, <3>1 DEF NoLoad, LoadFields
    <3>3. CASE /\ load'[q].first = load[q].first /\ load'[q].invalid = load[q].invalid
               /\ load'[q].failed = load[q].failed
      BY <1>0, <3>3 DEF LoadInv
    <3>4. CASE load'[q].first = 0 /\ load'[q].invalid = 0 /\ load'[q].failed = FALSE
      <4>1. load'[q].first \in Nat /\ load'[q].invalid \in Nat
        BY <3>4
      <4>2. load'[q].failed \in BOOLEAN /\ ~ load'[q].failed
        BY <3>4, Zenon
      <4> QED BY <4>1, <4>2
    <3> QED BY <3>2, <3>3, <3>4
  <2>3. LoopInv'
    BY <1>0, <2>1, LoopIdle DEF LoopStates
  <2> QED BY <1>0, <2>1, <2>2, <2>3, SameTokens
<1> QED BY <1>2, <1>3, <1>4, <1>5, <1>6, <1>7

\* A load that failed is taken back.
LEMMA TokenDrainDone ==
  ASSUME QueueInv, TokenInv, DrainDone
  PROVE  TokenInv'
<1>0. /\ DOMAIN load = Reqs /\ \A r \in Reqs : DOMAIN load[r] = LoadFields
      /\ DOMAIN req = Reqs /\ \A r \in Reqs : DOMAIN req[r] = RequestFields
      /\ LoopInv /\ LoadInv /\ NumbersInv /\ StepInv /\ AccountedInv
  BY DEF QueueInv, Fields, TokenInv
<1>1. /\ pc = "drain" /\ pc' = "update" /\ UNCHANGED <<in_flight, todo, loop>>
      /\ req' = [r \in Reqs |-> IF Invalid(r)
                                THEN [req[r] EXCEPT !.num_computed_tokens = ValidTokens(r)]
                                ELSE req[r]]
      /\ load' = [r \in Reqs |-> [load[r] EXCEPT
                    !.failed = @ \/ (Invalid(r) /\ config.kv_load = "recompute")]]
  BY DEF DrainDone
<1>2. ASSUME NEW r \in Reqs
      PROVE  /\ req'[r].status = req[r].status /\ req'[r].num_tokens = req[r].num_tokens
             /\ req'[r].num_in_flight_tokens = req[r].num_in_flight_tokens
             /\ req'[r].num_output_placeholders = req[r].num_output_placeholders
             /\ req'[r].num_stale_output_tokens = req[r].num_stale_output_tokens
             /\ req'[r].drop_stale_output = req[r].drop_stale_output
             /\ req'[r].decode_wait = req[r].decode_wait
             /\ req'[r].num_computed_tokens = IF Invalid(r) THEN ValidTokens(r)
                                              ELSE req[r].num_computed_tokens
  <2>1. req'[r] = IF Invalid(r) THEN [req[r] EXCEPT !.num_computed_tokens = ValidTokens(r)]
                  ELSE req[r]
    BY <1>1
  <2> QED BY <1>0, <2>1 DEF RequestFields
<1>3. ASSUME NEW r \in Reqs, Invalid(r)
      PROVE  /\ ValidTokens(r) \in Nat /\ ValidTokens(r) < req[r].num_computed_tokens
             /\ Loading(r)
  <2>1. Loading(r) /\ load[r].state = "arrived" /\ load[r].invalid > 0
    BY <1>3 DEF Invalid
  <2>2. ValidTokens(r) < req[r].num_computed_tokens /\ load[r].invalid - 1 \in Nat
    BY <1>0, <1>1, <2>1 DEF LoadInv
  <2> QED BY <2>1, <2>2, ConstantFacts DEF ValidTokens
<1>4. NumbersInv'
  BY <1>0, <1>2, <1>3 DEF NumbersInv, Numbers
<1>5. StepInv' /\ Unprocessed' = Unprocessed
  BY <1>0, <1>1, <1>2, SameSteps
<1>6. LoopInv'
  BY <1>0, <1>1, LoopIdle DEF LoopStates
<1>7. ASSUME NEW r \in Reqs, Loading(r)
      PROVE  req[r].num_computed_tokens <= req[r].num_tokens
  <2>1. r \in Known /\ req[r].status \in Waitable
    BY <1>7 DEF Known, Loading, Waitable
  <2>2. \E n : Progress(req[r], n)
    BY <1>0, <2>1 DEF AccountedInv, Accounted
  <2> QED BY <2>1, <2>2 DEF Progress
<1>8. LoadInv'
  <2> SUFFICES ASSUME NEW r \in Reqs
               PROVE  /\ load'[r].first \in Nat /\ load'[r].invalid \in Nat
                      /\ load'[r].failed \in BOOLEAN
                      /\ Loading(r) =>
                           (load'[r].failed => req'[r].num_computed_tokens < req'[r].num_tokens)
    BY <1>1, <1>2 DEF LoadInv, Loading
  <2>1. load'[r] = [load[r] EXCEPT !.failed = @ \/ (Invalid(r) /\ config.kv_load = "recompute")]
    BY <1>1
  <2>2. /\ load'[r].first = load[r].first /\ load'[r].invalid = load[r].invalid
        /\ load'[r].failed = (load[r].failed \/ (Invalid(r) /\ config.kv_load = "recompute"))
    BY <1>0, <2>1 DEF LoadFields
  <2>3. Numbers(req[r])
    BY <1>0 DEF NumbersInv
  <2>4. Loading(r) => (load'[r].failed => req'[r].num_computed_tokens < req'[r].num_tokens)
    <3>1. CASE Invalid(r) /\ Loading(r)
      BY <1>2, <1>3, <1>7, <2>3, <3>1 DEF Numbers
    <3>2. CASE ~ Invalid(r) /\ Loading(r)
      BY <1>0, <1>2, <2>2, <3>2 DEF LoadInv
    <3> QED BY <3>1, <3>2
  <2> QED BY <1>0, <2>2, <2>4 DEF LoadInv
<1>9. AccountedInv'
  <2> SUFFICES ASSUME NEW r \in Known' PROVE Accounted(Unprocessed, r, req[r])'
    BY DEF AccountedInv
  <2>1. r \in Known /\ r \in Reqs
    BY <1>2 DEF Known
  <2>2. PICK q, q1 : q = req[r] /\ q1 = req'[r]
    OBVIOUS
  <2>3. Accounted(Unprocessed, r, q) /\ Numbers(q)
    BY <1>0, <2>1, <2>2 DEF AccountedInv, NumbersInv
  <2>4. \A n : Progress(q, n) => Progress(q1, n)
    <3>1. CASE Invalid(r)
      <4>1. q.status = "WAITING_FOR_REMOTE_KVS" /\ q1.status = q.status
            /\ q1.num_computed_tokens < q.num_computed_tokens /\ q1.num_computed_tokens \in Nat
        BY <1>2, <1>3, <2>1, <2>2, <3>1 DEF Loading
      <4>2. /\ q1.num_tokens = q.num_tokens /\ q1.num_in_flight_tokens = q.num_in_flight_tokens
            /\ q1.num_output_placeholders = q.num_output_placeholders
            /\ q1.num_stale_output_tokens = q.num_stale_output_tokens
            /\ q1.drop_stale_output = q.drop_stale_output
        BY <1>2, <2>1, <2>2
      <4> QED BY <2>3, <4>1, <4>2 DEF Progress, Numbers
    <3>2. CASE ~ Invalid(r)
      <4>1. q1 = q
        BY <1>1, <2>1, <2>2, <3>2
      <4> QED BY <4>1
    <3> QED BY <3>1, <3>2
  <2>5. Accounted(Unprocessed, r, q1)
    <3>1. /\ q1.num_tokens = q.num_tokens /\ q1.num_in_flight_tokens = q.num_in_flight_tokens
          /\ q1.num_stale_output_tokens = q.num_stale_output_tokens
          /\ q1.drop_stale_output = q.drop_stale_output
      BY <1>2, <2>1, <2>2
    <3> QED BY <2>3, <2>4, <3>1, SameAccount
  <2>6. \A U : Accounted(U, r, q1) => Accounted(U, r, q1)'
    BY DEF Accounted, Counts, StepCounts, Progress, NumIn, SamplesIn, MaxLen, num_prompt_tokens
  <2> QED BY <1>5, <2>2, <2>5, <2>6
<1> QED BY <1>4, <1>5, <1>6, <1>8, <1>9 DEF TokenInv

\* update_from_output begins with the oldest step.
LEMMA TokenUpdateBegin ==
  ASSUME QueueInv, TokenInv, UpdateBegin
  PROVE  TokenInv'
<1>0. /\ DOMAIN req = Reqs /\ \A r \in Reqs : DOMAIN req[r] = RequestFields
      /\ LoopInv /\ LoadInv /\ NumbersInv /\ StepInv /\ AccountedInv
  BY DEF QueueInv, Fields, TokenInv
<1>1. /\ pc = "idle" /\ pc' = "drain" /\ in_flight # << >> /\ todo' = Head(in_flight)
      /\ UNCHANGED <<in_flight, loop, load>>
      /\ \/ req' = req
         \/ req' = [r \in Reqs |-> [req[r] EXCEPT !.last_sched_seq = AtLeast0(@ - 1)]]
  BY DEF UpdateBegin, StepProcessed
<1>2. \A r \in Reqs : SameCounters(req[r], req'[r]) /\ req'[r].decode_wait = req[r].decode_wait
  <2>1. CASE req' = req
    BY <2>1 DEF SameCounters
  <2>2. CASE req' = [r \in Reqs |-> [req[r] EXCEPT !.last_sched_seq = AtLeast0(@ - 1)]]
    BY <1>0, <2>2 DEF SameCounters, RequestFields
  <2> QED BY <1>1, <2>1, <2>2
<1>3. PICK B : in_flight \in Seq(Seq(EntryOf(B)))
  BY <1>0 DEF StepInv
<1>4. todo' \in Seq(EntryOf(B)) /\ 1 \in DOMAIN in_flight /\ todo' = in_flight[1]
  BY <1>1, <1>3, TailIs
<1>5. Unprocessed = in_flight /\ Unprocessed' = in_flight
  <2>1. PICK h, t : h = Head(in_flight) /\ t = Tail(in_flight)
    OBVIOUS
  <2>2. in_flight = <<h>> \o t
    <3>1. t \in Seq(Seq(EntryOf(B))) /\ h \in Seq(EntryOf(B)) /\ Len(t) + 1 = Len(in_flight)
          /\ h = in_flight[1] /\ \A i \in 1 .. Len(t) : t[i] = in_flight[i + 1]
      BY <1>1, <1>3, <2>1
    <3>2. PICK U : U = <<h>> \o t
      OBVIOUS
    <3>3. U \in Seq(Seq(EntryOf(B))) /\ Len(U) = Len(in_flight) /\ U[1] = h
          /\ \A i \in 1 .. Len(U) : i = 1 \/ (i - 1 \in 1 .. Len(t) /\ U[i] = t[i - 1])
      BY <3>1, <3>2
    <3>4. ASSUME NEW i \in 1 .. Len(U) PROVE U[i] = in_flight[i]
      <4>1. CASE i = 1
        BY <3>1, <3>3, <4>1
      <4>2. CASE i # 1
        <5>1. i - 1 \in 1 .. Len(t) /\ U[i] = t[i - 1] /\ (i - 1) + 1 = i
          BY <3>1, <3>3, <4>2
        <5>2. t[i - 1] = in_flight[(i - 1) + 1]
          BY <3>1, <5>1
        <5> QED BY <5>1, <5>2
      <4> QED BY <4>1, <4>2
    <3>5. PICK X : X = Seq(EntryOf(B))
      OBVIOUS
    <3>6. in_flight \in Seq(X) /\ U \in Seq(X)
      BY <1>3, <3>3, <3>5
    <3>7. U = in_flight
      BY <3>3, <3>4, <3>6, SeqEqual
    <3> QED BY <3>2, <3>7
  <2> QED BY <1>1, <2>1, <2>2 DEF Unprocessed
<1>6. \A step \in Seq(EntryOf(B)) : GoodStep(step) => GoodStep(step)'
  <2> SUFFICES ASSUME NEW step \in Seq(EntryOf(B)), GoodStep(step)
               PROVE  OneEach(step) /\ \A j \in DOMAIN step : req'[step[j].request].status # "ABSENT"
    BY DEF GoodStep, OneEach
  <2>1. \A j \in DOMAIN step : step[j] \in EntryOf(B)
    OBVIOUS
  <2>2. \A j \in DOMAIN step : step[j].request \in Reqs
    BY <2>1 DEF EntryOf
  <2> QED BY <1>2, <2>2 DEF GoodStep, SameCounters
<1>7. StepInv'
  <2>1. \A i \in DOMAIN in_flight : GoodStep(in_flight[i])'
    <3>1. \A i \in DOMAIN in_flight : in_flight[i] \in Seq(EntryOf(B)) /\ GoodStep(in_flight[i])
      BY <1>0, <1>3 DEF StepInv
    <3> QED BY <1>1, <1>6, <3>1 DEF GoodStep, OneEach
  <2>2. GoodStep(todo)'
    BY <1>1, <1>4, <2>1 DEF GoodStep, OneEach
  <2> QED BY <1>0, <1>1, <1>3, <1>4, <2>1, <2>2 DEF StepInv, batch_queue_size
<1>8. NumbersInv'
  BY <1>0, <1>2 DEF NumbersInv, Numbers, SameCounters
<1>9. LoopInv' /\ LoadInv'
  <2>1. LoopInv'
    BY <1>0, <1>1, LoopIdle DEF LoopStates
  <2>2. LoadInv'
    BY <1>0, <1>1, <1>2 DEF LoadInv, Loading, SameCounters, ValidTokens
  <2> QED BY <2>1, <2>2
<1>10. AccountedInv'
  <2> SUFFICES ASSUME NEW r \in Known' PROVE Accounted(Unprocessed', r, req'[r])
    BY DEF AccountedInv
  <2>1. r \in Known /\ r \in Reqs
    BY <1>2 DEF Known, SameCounters
  <2>2. PICK q, q1 : q = req[r] /\ q1 = req'[r]
    OBVIOUS
  <2>3. SameCounters(q, q1) /\ Accounted(in_flight, r, q)
    BY <1>0, <1>2, <1>5, <2>1, <2>2 DEF AccountedInv
  <2>4. \A n : Progress(q, n) => Progress(q1, n)
    BY <2>3 DEF SameCounters, Progress
  <2>5. Accounted(in_flight, r, q1)
    BY <2>3, <2>4, SameAccount DEF SameCounters
  <2> QED BY <1>5, <2>2, <2>5
<1> QED BY <1>7, <1>8, <1>9, <1>10 DEF TokenInv

\* The oldest step is processed.
LEMMA TokenUpdateDone ==
  ASSUME QueueInv, TokenInv, UpdateDone
  PROVE  TokenInv'
<1>0. /\ DOMAIN load = Reqs /\ \A r \in Reqs : DOMAIN load[r] = LoadFields
      /\ LoopInv /\ LoadInv /\ NumbersInv /\ StepInv /\ AccountedInv
  BY DEF QueueInv, Fields, TokenInv
<1>1. /\ pc = "update" /\ pc' = "idle" /\ todo = << >> /\ in_flight' = Tail(in_flight)
      /\ \A r \in Reqs : load[r].state # "arrived"
      /\ load' = [r \in Reqs |-> [load[r] EXCEPT !.steps = AtLeast0(@ - 1)]]
      /\ UNCHANGED <<req, todo, loop>>
  BY DEF UpdateDone
<1>2. PICK B : in_flight \in Seq(Seq(EntryOf(B))) /\ todo \in Seq(EntryOf(B))
  BY <1>0 DEF StepInv
<1>3. PICK t : t = Tail(in_flight)
  OBVIOUS
<1>4. /\ in_flight # << >> /\ t \in Seq(Seq(EntryOf(B)))
      /\ \A j \in DOMAIN t : j + 1 \in DOMAIN in_flight /\ t[j] = in_flight[j + 1]
  BY <1>0, <1>1, <1>2, <1>3, TailIs DEF StepInv
<1>5. Unprocessed = << << >> >> \o t /\ Unprocessed' = t
  BY <1>1, <1>3 DEF Unprocessed
<1>6. Len(t) \in Nat /\ Len(in_flight) \in Nat /\ Len(t) <= Len(in_flight)
  BY <1>2, <1>3, <1>4
<1>7. StepInv'
  <2>1. \A i \in DOMAIN t : GoodStep(t[i])'
    BY <1>0, <1>1, <1>4 DEF StepInv, GoodStep, OneEach
  <2>2. GoodStep(todo)' /\ todo' \in Seq(EntryOf(B))
    BY <1>0, <1>1, <1>2 DEF StepInv, GoodStep, OneEach
  <2>3. Len(t) <= batch_queue_size
    BY <1>0, <1>6, ConstantFacts DEF StepInv, batch_queue_size
  <2> QED BY <1>1, <1>3, <1>4, <2>1, <2>2, <2>3 DEF StepInv, batch_queue_size
<1>8. NumbersInv' /\ LoopInv'
  BY <1>0, <1>1, LoopIdle DEF NumbersInv, Numbers, LoopStates
<1>9. LoadInv'
  <2>1. \A r \in Reqs : /\ load'[r].first = load[r].first /\ load'[r].invalid = load[r].invalid
                        /\ load'[r].failed = load[r].failed /\ load'[r].state # "arrived"
    BY <1>0, <1>1 DEF LoadFields
  <2> QED BY <1>0, <1>1, <2>1 DEF LoadInv, Loading, ValidTokens
<1>10. AccountedInv'
  <2> SUFFICES ASSUME NEW r \in Known' PROVE Accounted(t, r, req[r])
    BY <1>1, <1>5 DEF AccountedInv
  <2>1. r \in Known /\ r \in Reqs
    BY <1>1 DEF Known
  <2>2. PICK q, U : q = req[r] /\ U = << << >> >> \o t
    OBVIOUS
  <2>3. Accounted(U, r, q) /\ Len(U) = Len(t) + 1
    BY <1>0, <1>4, <1>5, <2>1, <2>2 DEF AccountedInv
  <2>4. PICK c, o :
          /\ Counts(U, r, q.num_tokens, q.num_stale_output_tokens, q.drop_stale_output, c, o)
          /\ q.num_in_flight_tokens = c[Len(U)]
          /\ q.num_stale_output_tokens <= q.num_in_flight_tokens
          /\ Progress(q, o[Len(U)])
    BY <2>3 DEF Accounted
  <2>5. PICK c1, o1 :
          /\ Counts(t, r, q.num_tokens, q.num_stale_output_tokens, q.drop_stale_output, c1, o1)
          /\ c1[Len(t)] = c[Len(t) + 1] /\ o1[Len(t)] = o[Len(t) + 1]
    BY <1>4, <2>2, <2>4, CountsDone
  <2>6. q.num_in_flight_tokens = c1[Len(t)] /\ Progress(q, o1[Len(t)]) /\ q.num_tokens < MaxLen(r)
    BY <2>3, <2>4, <2>5 DEF Accounted
  <2>7. Accounted(t, r, q)
    BY <2>4, <2>5, <2>6 DEF Accounted
  <2> QED BY <2>2, <2>7
<1> QED BY <1>7, <1>8, <1>9, <1>10 DEF TokenInv

\* A request is added.
LEMMA TokenAdd ==
  ASSUME QueueInv, TokenInv, NEW r \in Reqs, add_request(r)
  PROVE  TokenInv'
<1>0. /\ DOMAIN req = Reqs /\ LoopInv /\ LoadInv /\ NumbersInv /\ StepInv /\ AccountedInv
  BY DEF QueueInv, Fields, TokenInv
<1>1. /\ pc = "idle" /\ pc' = pc /\ req[r].status = "ABSENT"
      /\ req' = [req EXCEPT ![r] = NewRequest(r)] /\ UNCHANGED <<in_flight, todo, loop, load>>
  BY DEF add_request, BetweenSteps
<1>2. PICK q1 : q1 = NewRequest(r)
  OBVIOUS
<1>3. req'[r] = q1 /\ \A q \in Reqs : q # r => req'[q] = req[q]
  BY <1>0, <1>1, <1>2
<1>4. /\ q1.status = "WAITING" /\ q1.num_computed_tokens = 0 /\ q1.num_in_flight_tokens = 0
      /\ q1.num_output_placeholders = 0 /\ q1.num_stale_output_tokens = 0
      /\ q1.drop_stale_output = FALSE
  BY <1>2 DEF NewRequest
<1>5. Numbers(q1) /\ q1.num_tokens < MaxLen(r)
  BY <1>2, NewNumbers
<1>6. StepInv' /\ Unprocessed' = Unprocessed
  <2>1. \A q \in Reqs : req[q].status # "ABSENT" => req'[q].status # "ABSENT"
    BY <1>1, <1>3
  <2> QED BY <1>0, <1>1, <2>1, SameSteps
<1>7. NumbersInv'
  BY <1>0, <1>3, <1>5 DEF NumbersInv
<1>8. LoopInv' /\ LoadInv'
  <2>1. LoopInv'
    BY <1>0, <1>1, LoopIdle DEF LoopStates
  <2>2. \A q \in Reqs : Loading(q)' => Loading(q) /\ req'[q] = req[q]
    BY <1>3, <1>4 DEF Loading
  <2>3. LoadInv'
    BY <1>0, <1>1, <2>2 DEF LoadInv, ValidTokens
  <2> QED BY <2>1, <2>3
<1>9. Accounted(Unprocessed, r, q1)
  <2>1. PICK B : /\ Unprocessed \in Seq(Seq(EntryOf(B)))
                 /\ \A i \in DOMAIN Unprocessed : GoodStep(Unprocessed[i])
    BY <1>0, UnprocessedAre
  <2>2. PICK U : U = Unprocessed
    OBVIOUS
  <2>3. \A i \in DOMAIN U : \A j \in DOMAIN U[i] : U[i][j].request # r
    BY <1>1, <2>1, <2>2 DEF GoodStep
  <2>4. PICK c, o : /\ Counts(U, r, q1.num_tokens, 0, q1.drop_stale_output, c, o)
                    /\ c[Len(U)] = 0 /\ o[Len(U)] = 0
    BY <2>1, <2>2, <2>3, CountsNone
  <2>5. Progress(q1, o[Len(U)])
    BY <1>4, <1>5 DEF Progress, Numbers
  <2>6. /\ Counts(U, r, q1.num_tokens, q1.num_stale_output_tokens, q1.drop_stale_output, c, o)
        /\ q1.num_in_flight_tokens = c[Len(U)]
        /\ q1.num_stale_output_tokens <= q1.num_in_flight_tokens
    BY <1>4, <2>4
  <2>7. Accounted(U, r, q1)
    BY <1>5, <2>5, <2>6, Zenon DEF Accounted
  <2> QED BY <2>2, <2>7
<1>10. AccountedInv'
  <2> SUFFICES ASSUME NEW q \in Known' PROVE Accounted(Unprocessed, q, req'[q])
    BY <1>6 DEF AccountedInv
  <2>1. CASE q = r
    BY <1>3, <1>9, <2>1
  <2>2. CASE q # r
    BY <1>0, <1>3, <2>2 DEF Known, AccountedInv
  <2> QED BY <2>1, <2>2
<1> QED BY <1>6, <1>7, <1>8, <1>10 DEF TokenInv

\* A request is finished.
LEMMA TokenFinish ==
  ASSUME QueueInv, TokenInv, NEW r \in Known, FinishRequest(r), pc \in {"idle", "update"},
         UNCHANGED <<pc, in_flight, todo, loop>>
  PROVE  TokenInv'
<1>0. /\ DOMAIN req = Reqs /\ \A q \in Reqs : DOMAIN req[q] = RequestFields
      /\ DOMAIN load = Reqs /\ \A q \in Reqs : DOMAIN load[q] = LoadFields
      /\ LoopInv /\ LoadInv /\ NumbersInv
  BY DEF QueueInv, Fields, TokenInv
<1>1. /\ req' = [req EXCEPT ![r].status = "FINISHED", ![r].prefilling = FALSE]
      /\ load' = [load EXCEPT ![r] = IF @.state = "finished" THEN NoLoad
                                     ELSE [@ EXCEPT !.failed = FALSE]]
  BY DEF FinishRequest
<1>2. r \in Reqs
  BY DEF Known
<1>3. PICK q1 : q1 = [req[r] EXCEPT !.status = "FINISHED", !.prefilling = FALSE]
  OBVIOUS
<1>4. req' = [req EXCEPT ![r] = q1]
  BY <1>0, <1>1, <1>2, <1>3
<1>5. /\ q1.status = "FINISHED" /\ q1.num_tokens = req[r].num_tokens
      /\ q1.num_computed_tokens = req[r].num_computed_tokens
      /\ q1.num_in_flight_tokens = req[r].num_in_flight_tokens
      /\ q1.num_output_placeholders = req[r].num_output_placeholders
      /\ q1.num_stale_output_tokens = req[r].num_stale_output_tokens
      /\ q1.drop_stale_output = req[r].drop_stale_output
      /\ q1.decode_wait = req[r].decode_wait
  BY <1>0, <1>2, <1>3 DEF RequestFields
<1>6. Numbers(q1)
  BY <1>0, <1>2, <1>5 DEF NumbersInv, Numbers
<1>7. LoopInv'
  BY <1>0, LoopIdle DEF LoopStates
<1>8. LoadInv'
  <2>1. \A q \in Reqs : q # r => load'[q] = load[q] /\ req'[q] = req[q]
    BY <1>0, <1>1, <1>4
  <2>2. ~ Loading(r)'
    BY <1>0, <1>2, <1>4, <1>5 DEF Loading
  <2>3. load'[r].first \in Nat /\ load'[r].invalid \in Nat /\ load'[r].failed \in BOOLEAN
    <3>1. load'[r] = IF load[r].state = "finished" THEN NoLoad ELSE [load[r] EXCEPT !.failed = FALSE]
      BY <1>0, <1>1, <1>2
    <3>2. load'[r].failed = FALSE
      BY <1>0, <1>2, <3>1 DEF LoadFields, NoLoad
    <3>3. load'[r].first \in {0, load[r].first} /\ load'[r].invalid \in {0, load[r].invalid}
      BY <1>0, <1>2, <3>1 DEF LoadFields, NoLoad
    <3>4. load'[r].failed \in BOOLEAN
      BY <3>2, Zenon
    <3>5. load[r].first \in Nat /\ load[r].invalid \in Nat
      BY <1>0, <1>2 DEF LoadInv
    <3> QED BY <3>3, <3>4, <3>5
  <2> SUFFICES ASSUME NEW q \in Reqs
               PROVE  /\ load'[q].first \in Nat /\ load'[q].invalid \in Nat
                      /\ load'[q].failed \in BOOLEAN
                      /\ Loading(q)' =>
                           /\ load'[q].failed => req'[q].num_computed_tokens < req'[q].num_tokens
                           /\ load'[q].state = "arrived" /\ pc' # "update" /\ load'[q].invalid > 0 =>
                                ValidTokens(q)' < req'[q].num_computed_tokens
    BY DEF LoadInv
  <2>4. CASE q = r
    BY <2>2, <2>3, <2>4
  <2>5. CASE q # r
    BY <1>0, <2>1, <2>5 DEF LoadInv, Loading, ValidTokens
  <2> QED BY <2>4, <2>5
<1>9. q1.status # "ABSENT" /\ q1.status = "FINISHED"
  BY <1>5
<1> QED BY <1>4, <1>6, <1>7, <1>8, <1>9, OneRequest

-----------------------------------------------------------------------------
(* The entries of a step are processed.                                     *)

\* The steps after the first entry of the step in hand.
AfterFirst == <<Tail(todo)>> \o Tail(in_flight)

\* Entry e of request r, whose fields are q, leaves the steps U, with s stale
\* tokens and x outputs less.
Leaves(U, r, e, q, x, s) ==
  /\ e.num \in Nat /\ e.num >= 1 /\ s \in Nat /\ s <= q.num_in_flight_tokens - e.num
  /\ q.num_in_flight_tokens - e.num \in Nat
  /\ x = 1 => e.position = q.num_tokens + 1
  /\ \E n \in Nat :
       /\ Progress(q, n) /\ n - x \in Nat
       /\ \E c, o :
            /\ Counts(U, r, q.num_tokens + x, s, q.drop_stale_output, c, o)
            /\ c[Len(U)] = q.num_in_flight_tokens - e.num
            /\ o[Len(U)] = n - x

LEMMA LandedCounts ==
  ASSUME QueueInv, TokenInv, pc = "update", todo # << >>, NEW e, e = Head(todo),
         e.request \in Known, NEW q, q = req[e.request],
         NEW x, x = IF Delivers(e) THEN 1 ELSE 0,
         NEW s, s = IF q.num_stale_output_tokens > 0 THEN q.num_stale_output_tokens - e.num
                    ELSE q.num_stale_output_tokens
  PROVE  Leaves(AfterFirst, e.request, e, q, x, s)
<1>1. StepInv /\ Numbers(q) /\ Accounted(Unprocessed, e.request, q) /\ e.request \in Reqs
  BY DEF TokenInv, NumbersInv, AccountedInv, Known
<1>2. PICK B : in_flight \in Seq(Seq(EntryOf(B))) /\ todo \in Seq(EntryOf(B))
  BY <1>1 DEF StepInv
<1>3. PICK rest : rest = Tail(in_flight)
  OBVIOUS
<1>4. /\ rest \in Seq(Seq(EntryOf(B))) /\ \A i \in DOMAIN rest : OneEach(rest[i])
      /\ Len(rest) \in Nat
  <2>1. in_flight # << >>
    BY <1>1 DEF StepInv
  <2>2. /\ rest \in Seq(Seq(EntryOf(B)))
        /\ \A j \in DOMAIN rest : j + 1 \in DOMAIN in_flight /\ rest[j] = in_flight[j + 1]
    BY <1>2, <1>3, <2>1, TailIs
  <2> QED BY <1>1, <2>2 DEF StepInv, GoodStep
<1>5. OneEach(todo)
  BY <1>1 DEF StepInv, GoodStep
<1>6. e.num \in Nat /\ e.num >= 1 /\ e.samples \in BOOLEAN
  <2>1. e \in EntryOf(B)
    BY <1>2, TailIs
  <2> QED BY <2>1 DEF EntryOf
<1>7. PICK U : U = <<todo>> \o rest
  OBVIOUS
<1>8. Unprocessed = U /\ Len(U) = Len(rest) + 1
  BY <1>2, <1>3, <1>4, <1>7 DEF Unprocessed
<1>9. PICK c0, o0 :
        /\ Counts(U, e.request, q.num_tokens, q.num_stale_output_tokens, q.drop_stale_output, c0, o0)
        /\ q.num_in_flight_tokens = c0[Len(U)]
        /\ q.num_stale_output_tokens <= q.num_in_flight_tokens
        /\ Progress(q, o0[Len(U)])
  BY <1>1, <1>8 DEF Accounted
<1>10. PICK N, S, D, nn : /\ N = q.num_tokens /\ S = q.num_stale_output_tokens
                          /\ D = q.drop_stale_output /\ nn = Len(rest) + 1
  OBVIOUS
<1>11. N \in Nat /\ S \in Nat /\ D \in BOOLEAN
  BY <1>1, <1>10 DEF Numbers
<1>12. x = IF e.samples /\ ~ (S > 0 /\ D) THEN 1 ELSE 0
  BY <1>10 DEF Delivers, IsStale
<1>13. s = IF S > 0 THEN S - e.num ELSE S
  BY <1>10
<1>14. Counts(<<todo>> \o rest, Head(todo).request, N, S, D, c0, o0) /\ S <= c0[Len(rest) + 1]
  BY <1>7, <1>8, <1>9, <1>10
<1>15. /\ s \in Nat /\ s <= c0[nn] - e.num /\ c0[nn] - e.num \in Nat /\ o0[nn] - x \in Nat
       /\ x = 1 => e.position = N + 1
       /\ \E c1, o1 : /\ Counts(<<Tail(todo)>> \o rest, e.request, N + x, s, D, c1, o1)
                      /\ c1[nn] = c0[nn] - e.num /\ o1[nn] = o0[nn] - x
  <2>0. PICK T : T = todo
    OBVIOUS
  <2>1. /\ T \in Seq(EntryOf(B)) /\ T # << >> /\ OneEach(T)
        /\ rest \in Seq(Seq(EntryOf(B))) /\ \A i \in DOMAIN rest : OneEach(rest[i])
        /\ N \in Nat /\ S \in Nat /\ D \in BOOLEAN
        /\ Counts(<<T>> \o rest, Head(T).request, N, S, D, c0, o0) /\ S <= c0[Len(rest) + 1]
    BY <1>2, <1>4, <1>5, <1>11, <1>14, <2>0
  <2>2. Lands(T, rest, N, S, D, c0, o0)
    BY <2>1, CountsLanded, Zenon
  <2> QED BY <1>10, <1>12, <1>13, <2>0, <2>2 DEF Lands
<1>16. PICK c1, o1 : /\ Counts(<<Tail(todo)>> \o rest, e.request, N + x, s, D, c1, o1)
                     /\ c1[nn] = c0[nn] - e.num /\ o1[nn] = o0[nn] - x
  BY <1>15
<1>17. AfterFirst = <<Tail(todo)>> \o rest /\ Len(AfterFirst) = nn
  <2>1. Tail(todo) \in Seq(EntryOf(B))
    BY <1>2, TailIs
  <2> QED BY <1>3, <1>4, <1>10, <2>1 DEF AfterFirst
<1>18. o0[nn] \in Nat
  <2>1. o0 \in [0 .. Len(U) -> Nat] /\ nn \in 0 .. Len(U)
    BY <1>4, <1>8, <1>9, <1>10 DEF Counts
  <2> QED BY <2>1
<1>19. \E c, o : /\ Counts(AfterFirst, e.request, q.num_tokens + x, s, q.drop_stale_output, c, o)
                 /\ c[Len(AfterFirst)] = q.num_in_flight_tokens - e.num
                 /\ o[Len(AfterFirst)] = o0[nn] - x
  BY <1>8, <1>9, <1>10, <1>16, <1>17
<1>20. Progress(q, o0[nn]) /\ o0[nn] - x \in Nat
  BY <1>8, <1>9, <1>10, <1>15
<1>21. /\ s <= q.num_in_flight_tokens - e.num /\ q.num_in_flight_tokens - e.num \in Nat
       /\ x = 1 => e.position = q.num_tokens + 1
  BY <1>8, <1>9, <1>10, <1>15
<1> QED BY <1>6, <1>15, <1>18, <1>19, <1>20, <1>21 DEF Leaves

\* An entry is processed and its request changes, if it is known.
LEMMA LandOne ==
  ASSUME QueueInv, TokenInv, pc = "update", pc' = pc, todo # << >>, todo' = Tail(todo),
         UNCHANGED <<in_flight, loop, load>>, NEW r, r = Head(todo).request, NEW q1,
         r \in Known => /\ req' = [req EXCEPT ![r] = q1]
                        /\ Numbers(q1) /\ q1.status \in {req[r].status, "FINISHED"}
                        /\ q1.status # "FINISHED" => Accounted(AfterFirst, r, q1)
                        /\ q1.num_tokens >= req[r].num_tokens
                        /\ q1.num_computed_tokens = req[r].num_computed_tokens,
         r \notin Known => req' = req
  PROVE  TokenInv'
<1>0. /\ DOMAIN req = Reqs /\ LoopInv /\ LoadInv /\ NumbersInv /\ StepInv /\ AccountedInv
  BY DEF QueueInv, Fields, TokenInv
<1>1. /\ \A q \in Reqs : q # r => req'[q] = req[q]
      /\ r \in Known => r \in Reqs /\ req'[r] = q1
      /\ r \notin Known => req' = req
  BY <1>0 DEF Known
<1>2. PICK B : in_flight \in Seq(Seq(EntryOf(B))) /\ todo \in Seq(EntryOf(B))
  BY <1>0 DEF StepInv
<1>3. in_flight # << >>
  BY <1>0 DEF StepInv
<1>4. PICK t : t = Tail(todo)
  OBVIOUS
<1>5. /\ t \in Seq(EntryOf(B)) /\ Head(todo) = todo[1] /\ 1 \in DOMAIN todo
      /\ \A j \in DOMAIN t : j \in Nat /\ j + 1 \in DOMAIN todo /\ t[j] = todo[j + 1]
  BY <1>2, <1>4, TailIs
<1>6. \A q \in Reqs : req[q].status # "ABSENT" => req'[q].status # "ABSENT"
  BY <1>1 DEF Known
<1>7. StepInv'
  <2>1. \A step \in Seq(EntryOf(B)) : GoodStep(step) => GoodStep(step)'
    <3> SUFFICES ASSUME NEW step \in Seq(EntryOf(B)), GoodStep(step)
                 PROVE  OneEach(step) /\ \A j \in DOMAIN step : req'[step[j].request].status # "ABSENT"
      BY DEF GoodStep, OneEach
    <3>1. \A j \in DOMAIN step : step[j] \in EntryOf(B)
      OBVIOUS
    <3>2. \A j \in DOMAIN step : step[j].request \in Reqs
      BY <3>1 DEF EntryOf
    <3> QED BY <1>6, <3>2 DEF GoodStep
  <2>2. \A i \in DOMAIN in_flight : GoodStep(in_flight[i])'
    <3>1. \A i \in DOMAIN in_flight : in_flight[i] \in Seq(EntryOf(B)) /\ GoodStep(in_flight[i])
      BY <1>0, <1>2 DEF StepInv
    <3> QED BY <2>1, <3>1 DEF GoodStep, OneEach
  <2>3. GoodStep(t)
    <3>1. OneEach(todo) /\ \A j \in DOMAIN todo : req[todo[j].request].status # "ABSENT"
      BY <1>0 DEF StepInv, GoodStep
    <3>2. \A j \in DOMAIN t : req[t[j].request].status # "ABSENT"
      BY <1>5, <3>1
    <3>3. OneEach(t)
      <4> SUFFICES ASSUME NEW i \in DOMAIN t, NEW j \in DOMAIN t, t[i].request = t[j].request
                   PROVE  i = j
        BY DEF OneEach
      <4>1. i + 1 = j + 1 /\ i \in Nat /\ j \in Nat
        BY <1>5, <3>1 DEF OneEach
      <4> QED BY <4>1
    <3> QED BY <3>2, <3>3 DEF GoodStep
  <2>4. GoodStep(todo)' /\ todo' \in Seq(EntryOf(B))
    BY <1>4, <1>5, <2>1, <2>3 DEF GoodStep, OneEach
  <2>5. \E B1 : (in_flight \in Seq(Seq(EntryOf(B1))) /\ todo \in Seq(EntryOf(B1)))'
    BY <1>2, <2>4 DEF EntryOf
  <2> QED BY <1>0, <1>3, <2>2, <2>4, <2>5 DEF StepInv, batch_queue_size
<1>8. NumbersInv'
  BY <1>0, <1>1 DEF NumbersInv
<1>9. LoopInv'
  BY <1>0, LoopIdle DEF LoopStates
<1>10. LoadInv'
  <2>1. ASSUME NEW q \in Reqs, Loading(q)'
        PROVE  /\ Loading(q) /\ req'[q].num_computed_tokens = req[q].num_computed_tokens
               /\ req'[q].num_tokens >= req[q].num_tokens
    <3>1. CASE req'[q] = req[q]
      BY <1>0, <2>1, <3>1 DEF Loading, NumbersInv, Numbers
    <3>2. CASE q = r /\ r \in Known
      BY <1>1, <2>1, <3>2 DEF Loading
    <3> QED BY <1>1, <3>1, <3>2
  <2>2. \A q \in Reqs : Numbers(req[q]) /\ Numbers(req'[q])
    BY <1>0, <1>8 DEF NumbersInv, Numbers
  <2> SUFFICES ASSUME NEW q \in Reqs
               PROVE  /\ load[q].first \in Nat /\ load[q].invalid \in Nat
                      /\ load[q].failed \in BOOLEAN
                      /\ Loading(q)' =>
                           (load[q].failed => req'[q].num_computed_tokens < req'[q].num_tokens)
    BY DEF LoadInv
  <2>3. ASSUME Loading(q)', load[q].failed
        PROVE  req'[q].num_computed_tokens < req'[q].num_tokens
    <3>1. req[q].num_computed_tokens < req[q].num_tokens
      BY <1>0, <2>1, <2>3 DEF LoadInv
    <3> QED BY <2>1, <2>2, <2>3, <3>1 DEF Numbers
  <2> QED BY <1>0, <2>3 DEF LoadInv
<1>11. Unprocessed = <<todo>> \o Tail(in_flight) /\ Unprocessed' = AfterFirst
  BY DEF Unprocessed, AfterFirst
<1>12. AccountedInv'
  <2> SUFFICES ASSUME NEW q \in Known' PROVE Accounted(AfterFirst, q, req'[q])
    BY <1>11 DEF AccountedInv
  <2>1. q \in Reqs /\ q \in Known
    BY <1>1 DEF Known
  <2>2. CASE q = r
    BY <1>1, <2>1, <2>2 DEF Known
  <2>3. CASE q # r
    <3>1. PICK z, rest : z = req[q] /\ rest = Tail(in_flight)
      OBVIOUS
    <3>2. Accounted(<<todo>> \o rest, q, z)
      BY <1>0, <1>11, <2>1, <3>1 DEF AccountedInv
    <3>3. PICK c, o :
            /\ Counts(<<todo>> \o rest, q, z.num_tokens, z.num_stale_output_tokens,
                      z.drop_stale_output, c, o)
            /\ z.num_in_flight_tokens = c[Len(<<todo>> \o rest)]
            /\ z.num_stale_output_tokens <= z.num_in_flight_tokens
            /\ Progress(z, o[Len(<<todo>> \o rest)])
      BY <3>2 DEF Accounted
    <3>4. rest \in Seq(Seq(EntryOf(B))) /\ OneEach(todo)
      BY <1>0, <1>2, <1>3, <3>1, TailIs DEF StepInv, GoodStep
    <3>5. Counts(<<t>> \o rest, q, z.num_tokens, z.num_stale_output_tokens,
                 z.drop_stale_output, c, o)
      BY <1>2, <1>4, <2>3, <3>3, <3>4, CountsOther
    <3>6. Len(<<todo>> \o rest) = Len(<<t>> \o rest) /\ AfterFirst = <<t>> \o rest
      BY <1>2, <1>4, <1>5, <3>1, <3>4 DEF AfterFirst
    <3>7. z.num_tokens < MaxLen(q)
      BY <3>2 DEF Accounted
    <3>8. PICK V : V = <<t>> \o rest
      OBVIOUS
    <3>9. Accounted(V, q, z)
      <4>1. /\ Counts(V, q, z.num_tokens, z.num_stale_output_tokens, z.drop_stale_output, c, o)
            /\ z.num_in_flight_tokens = c[Len(V)] /\ Progress(z, o[Len(V)])
        BY <3>3, <3>5, <3>6, <3>8
      <4> QED BY <3>3, <3>7, <4>1, Zenon DEF Accounted
    <3> QED BY <1>1, <2>1, <2>3, <3>1, <3>6, <3>8, <3>9
  <2> QED BY <2>2, <2>3
<1> QED BY <1>7, <1>8, <1>9, <1>10, <1>12 DEF TokenInv

\* The fields of Landed and WithOutput.
LEMMA LandedFields ==
  ASSUME NEW e, e.request \in Reqs, DOMAIN req[e.request] = RequestFields
  PROVE  LET q == req[e.request]
         IN /\ \A q1 \in {Landed(e), WithOutput(e)} :
                 /\ DOMAIN q1 = RequestFields
                 /\ q1.status = q.status /\ q1.num_computed_tokens = q.num_computed_tokens
                 /\ q1.num_in_flight_tokens = q.num_in_flight_tokens - e.num
                 /\ q1.drop_stale_output = q.drop_stale_output /\ q1.decode_wait = q.decode_wait
                 /\ q1.num_stale_output_tokens =
                      IF q.num_stale_output_tokens > 0 THEN q.num_stale_output_tokens - e.num
                      ELSE q.num_stale_output_tokens
            /\ Landed(e).num_tokens = q.num_tokens
            /\ Landed(e).num_output_placeholders = q.num_output_placeholders
            /\ WithOutput(e).num_tokens = q.num_tokens + 1
            /\ WithOutput(e).num_output_placeholders =
                 IF async_scheduling /\ ~ (q.num_stale_output_tokens > 0)
                 THEN q.num_output_placeholders - 1 ELSE q.num_output_placeholders
<1>1. PICK q : q = req[e.request]
  OBVIOUS
<1>2. PICK l : l = Landed(e)
  OBVIOUS
<1>3. /\ DOMAIN l = RequestFields
      /\ l.status = q.status /\ l.num_computed_tokens = q.num_computed_tokens
      /\ l.num_in_flight_tokens = q.num_in_flight_tokens - e.num
      /\ l.drop_stale_output = q.drop_stale_output /\ l.decode_wait = q.decode_wait
      /\ l.num_stale_output_tokens =
           IF q.num_stale_output_tokens > 0 THEN q.num_stale_output_tokens - e.num
           ELSE q.num_stale_output_tokens
      /\ l.num_tokens = q.num_tokens /\ l.num_output_placeholders = q.num_output_placeholders
  BY <1>1, <1>2 DEF Landed, RequestFields
<1>4. PICK w : w = WithOutput(e)
  OBVIOUS
<1>5. w = [l EXCEPT !.num_tokens = @ + 1,
                    !.num_output_placeholders =
                      IF async_scheduling /\ ~ (q.num_stale_output_tokens > 0) THEN @ - 1 ELSE @]
  BY <1>1, <1>2, <1>4 DEF WithOutput, IsStale
<1>6. /\ DOMAIN w = RequestFields
      /\ w.status = l.status /\ w.num_computed_tokens = l.num_computed_tokens
      /\ w.num_in_flight_tokens = l.num_in_flight_tokens
      /\ w.drop_stale_output = l.drop_stale_output /\ w.decode_wait = l.decode_wait
      /\ w.num_stale_output_tokens = l.num_stale_output_tokens
      /\ w.num_tokens = l.num_tokens + 1
      /\ w.num_output_placeholders =
           IF async_scheduling /\ ~ (q.num_stale_output_tokens > 0)
           THEN l.num_output_placeholders - 1 ELSE l.num_output_placeholders
  BY <1>3, <1>5 DEF RequestFields
<1> QED BY <1>1, <1>2, <1>3, <1>4, <1>6

\* What landing leaves, when the request is known.
LEMMA LandedAccounted ==
  ASSUME QueueInv, TokenInv, pc = "update", todo # << >>, NEW e, e = Head(todo),
         e.request \in Known
  PROVE  /\ ~ Delivers(e) => /\ Numbers(Landed(e))
                             /\ Accounted(AfterFirst, e.request, Landed(e))
         /\ Delivers(e) => /\ Numbers(WithOutput(e))
                           /\ ~ HitsMaxTokens(e) =>
                                Accounted(AfterFirst, e.request, WithOutput(e))
<1>1. PICK r, q : r = e.request /\ q = req[r]
  OBVIOUS
<1>2. PICK x : x = IF Delivers(e) THEN 1 ELSE 0
  OBVIOUS
<1>3. PICK s : s = IF q.num_stale_output_tokens > 0 THEN q.num_stale_output_tokens - e.num
                   ELSE q.num_stale_output_tokens
  OBVIOUS
<1>4. PICK U : U = AfterFirst
  OBVIOUS
<1>5. Leaves(U, r, e, q, x, s)
  <2>1. LET rr == e.request IN Leaves(AfterFirst, rr, e, req[rr], x, s)
    BY <1>1, <1>2, <1>3, LandedCounts
  <2> QED BY <1>1, <1>4, <2>1
<1>5a. /\ e.num \in Nat /\ e.num >= 1 /\ s \in Nat /\ s <= q.num_in_flight_tokens - e.num
       /\ q.num_in_flight_tokens - e.num \in Nat
  BY <1>5 DEF Leaves
<1>6. PICK n \in Nat :
        /\ Progress(q, n) /\ n - x \in Nat
        /\ \E c, o :
             /\ Counts(U, r, q.num_tokens + x, s, q.drop_stale_output, c, o)
             /\ c[Len(U)] = q.num_in_flight_tokens - e.num
             /\ o[Len(U)] = n - x
  BY <1>5 DEF Leaves
<1>7. /\ Numbers(q) /\ r \in Reqs /\ DOMAIN q = RequestFields
      /\ q.status \in Waitable \cup {"RUNNING"} /\ q.num_tokens < MaxLen(r)
      /\ q.num_stale_output_tokens <= q.num_in_flight_tokens
  <2>1. r \in Known /\ r \in Reqs /\ Numbers(q) /\ DOMAIN q = RequestFields
    BY <1>1 DEF Known, TokenInv, NumbersInv, QueueInv, Fields
  <2>2. Accounted(Unprocessed, r, q)
    BY <1>1, <2>1 DEF TokenInv, AccountedInv
  <2>3. q.status \in Waitable \cup {"ABSENT", "RUNNING", "FINISHED"}
    BY <1>1, <2>1 DEF QueueInv, Statuses
  <2>4. q.status \notin {"ABSENT", "FINISHED"}
    BY <1>1, <2>1 DEF Known
  <2>5. q.num_tokens < MaxLen(r) /\ q.num_stale_output_tokens <= q.num_in_flight_tokens
    BY <2>2, Zenon DEF Accounted
  <2> QED BY <2>1, <2>3, <2>4, <2>5
<1>8. MaxLen(r) \in Nat /\ max_tokens \in Nat /\ num_prompt_tokens(r) \in Nat
      /\ MaxLen(r) = num_prompt_tokens(r) + max_tokens /\ async_scheduling \in BOOLEAN
  BY <1>7, ConstantFacts DEF MaxLen
<1>9. PICK l, w : l = Landed(e) /\ w = WithOutput(e)
  OBVIOUS
<1>10. /\ \A q1 \in {l, w} :
            /\ q1.status = q.status /\ q1.num_computed_tokens = q.num_computed_tokens
            /\ q1.num_in_flight_tokens = q.num_in_flight_tokens - e.num
            /\ q1.drop_stale_output = q.drop_stale_output /\ q1.decode_wait = q.decode_wait
            /\ q1.num_stale_output_tokens = s
       /\ l.num_tokens = q.num_tokens
       /\ l.num_output_placeholders = q.num_output_placeholders
       /\ w.num_tokens = q.num_tokens + 1
       /\ w.num_output_placeholders =
            IF async_scheduling /\ ~ (q.num_stale_output_tokens > 0)
            THEN q.num_output_placeholders - 1 ELSE q.num_output_placeholders
  BY <1>1, <1>3, <1>7, <1>9, LandedFields
\* What is in flight of a request that waits is stale.
<1>11. q.status \in Waitable =>
         /\ q.num_stale_output_tokens > 0 /\ s = q.num_in_flight_tokens - e.num
  BY <1>3, <1>5a, <1>6, <1>7 DEF Progress, Numbers
<1>12. s > 0 => q.num_stale_output_tokens > 0
  BY <1>3, <1>5a, <1>7 DEF Numbers
<1>13. ASSUME ~ Delivers(e)
       PROVE  Numbers(l) /\ Accounted(U, r, l)
  <2>1. Numbers(l)
    BY <1>5a, <1>7, <1>10 DEF Numbers
  <2>2. x = 0 /\ q.num_tokens + x = l.num_tokens /\ n - x = n
    BY <1>2, <1>6, <1>7, <1>10, <1>13 DEF Numbers
  <2>3. Progress(l, n)
    <3>1. /\ l.status = q.status /\ l.num_computed_tokens = q.num_computed_tokens
          /\ l.num_in_flight_tokens = q.num_in_flight_tokens - e.num
          /\ l.drop_stale_output = q.drop_stale_output
          /\ l.num_stale_output_tokens = s
      BY <1>10
    <3>2. CASE q.status = "RUNNING"
      BY <1>6, <1>10, <1>12, <3>1, <3>2 DEF Progress, Waitable
    <3>3. CASE q.status \in Waitable
      BY <1>6, <1>10, <1>11, <1>12, <3>1, <3>3 DEF Progress, Waitable
    <3> QED BY <1>7, <3>2, <3>3
  <2>4. PICK c, o : /\ Counts(U, r, l.num_tokens, l.num_stale_output_tokens, l.drop_stale_output, c, o)
                    /\ c[Len(U)] = l.num_in_flight_tokens /\ o[Len(U)] = n
    BY <1>6, <1>10, <2>2
  <2>5. l.num_tokens < MaxLen(r) /\ l.num_stale_output_tokens <= l.num_in_flight_tokens
    BY <1>5a, <1>7, <1>10
  <2>6. Accounted(U, r, l)
    BY <2>3, <2>4, <2>5 DEF Accounted
  <2> QED BY <2>1, <2>6
<1>14. ASSUME Delivers(e)
       PROVE  Numbers(w) /\ (~ HitsMaxTokens(e) => Accounted(U, r, w))
  <2>1. ~ (q.num_stale_output_tokens > 0 /\ q.drop_stale_output) /\ x = 1 /\ n >= 1
    BY <1>1, <1>2, <1>6, <1>14 DEF Delivers, IsStale
  <2>2. q.status = "RUNNING" => q.num_stale_output_tokens = 0 /\ s = 0
    BY <1>3, <1>6, <1>7, <2>1 DEF Progress, Numbers
  <2>3. q.status = "RUNNING" /\ async_scheduling => q.num_output_placeholders >= 1
    BY <1>6, <2>1 DEF Progress
  <2>4. w.num_output_placeholders \in Nat
    BY <1>7, <1>10, <1>11, <2>2, <2>3 DEF Numbers
  <2>5. Numbers(w)
    <3>1. /\ w.num_computed_tokens = q.num_computed_tokens
          /\ w.num_in_flight_tokens = q.num_in_flight_tokens - e.num
          /\ w.drop_stale_output = q.drop_stale_output
          /\ w.num_stale_output_tokens = s /\ w.num_tokens = q.num_tokens + 1
          /\ w.decode_wait = q.decode_wait
      BY <1>10
    <3> QED BY <1>5a, <1>7, <2>4, <3>1, SMTT(30) DEF Numbers
  <2>6. Progress(w, n - 1)
    <3>1. /\ w.status = q.status /\ w.num_computed_tokens = q.num_computed_tokens
          /\ w.num_in_flight_tokens = q.num_in_flight_tokens - e.num
          /\ w.drop_stale_output = q.drop_stale_output
          /\ w.num_stale_output_tokens = s /\ w.num_tokens = q.num_tokens + 1
      BY <1>10
    <3>2. CASE q.status = "RUNNING" /\ async_scheduling
      <4>1. w.num_output_placeholders = q.num_output_placeholders - 1
        BY <1>10, <2>2, <3>2
      <4>2. /\ n = q.num_output_placeholders
            /\ q.num_computed_tokens + 1 = q.num_tokens + q.num_output_placeholders
        BY <1>6, <2>3, <3>2 DEF Progress
      <4>3. /\ q.num_tokens \in Nat /\ q.num_computed_tokens \in Nat
            /\ q.num_output_placeholders \in Nat
        BY <1>7 DEF Numbers
      <4> QED BY <2>2, <3>1, <3>2, <4>1, <4>2, <4>3 DEF Progress, Waitable
    <3>3. CASE q.status = "RUNNING" /\ ~ async_scheduling
      <4>1. w.num_output_placeholders = q.num_output_placeholders
        BY <1>10, <3>3
      <4>2. /\ n = 1 /\ q.num_computed_tokens = q.num_tokens
            /\ q.num_output_placeholders = 0
        BY <1>6, <2>1, <3>3 DEF Progress
      <4>3. q.num_tokens \in Nat
        BY <1>7 DEF Numbers
      <4> QED BY <2>2, <3>1, <3>3, <4>1, <4>2, <4>3 DEF Progress, Waitable
    <3>4. CASE q.status \in Waitable
      <4>1. w.num_output_placeholders = q.num_output_placeholders
        BY <1>10, <1>11, <3>4
      <4>2. /\ q.num_output_placeholders = 0 /\ q.num_computed_tokens <= q.num_tokens
            /\ ~ (q.status = "WAITING_FOR_REMOTE_KVS" \/ q.num_computed_tokens > 0)
        BY <1>6, <1>11, <2>1, <3>4 DEF Progress
      <4>3. q.num_tokens \in Nat /\ q.num_computed_tokens \in Nat
        BY <1>7 DEF Numbers
      <4> QED BY <1>11, <3>1, <3>4, <4>1, <4>2, <4>3 DEF Progress, Waitable
    <3> QED BY <1>7, <1>8, <3>2, <3>3, <3>4
  <2>7. PICK c, o : /\ Counts(U, r, w.num_tokens, w.num_stale_output_tokens, w.drop_stale_output, c, o)
                    /\ c[Len(U)] = w.num_in_flight_tokens /\ o[Len(U)] = n - 1
    BY <1>6, <1>10, <2>1
  <2>8. ~ HitsMaxTokens(e) => w.num_tokens < MaxLen(r)
    BY <1>1, <1>7, <1>8, <1>9, <1>10 DEF HitsMaxTokens, Numbers
  <2>9. w.num_stale_output_tokens <= w.num_in_flight_tokens
    BY <1>5a, <1>10
  <2>10. w.num_tokens < MaxLen(r) => Accounted(U, r, w)
    BY <2>6, <2>7, <2>9 DEF Accounted
  <2> QED BY <2>5, <2>8, <2>10
<1> QED BY <1>1, <1>4, <1>9, <1>13, <1>14

LEMMA TokenLandSteps ==
  ASSUME QueueInv, TokenInv, UpdateNoOutput \/ UpdateDeliver \/ UpdateStop
  PROVE  TokenInv'
<1>1. PICK e, r : e = Head(todo) /\ r = e.request
  OBVIOUS
<1>2. /\ pc = "update" /\ pc' = pc /\ todo # << >> /\ todo' = Tail(todo)
      /\ UNCHANGED <<in_flight, loop, load>>
  BY DEF UpdateNoOutput, UpdateDeliver, UpdateStop
<1>3. \A q \in Reqs : DOMAIN req[q] = RequestFields /\ Numbers(req[q])
  BY DEF QueueInv, Fields, TokenInv, NumbersInv
<1>4. r \in Known => r \in Reqs /\ req[r].status # "FINISHED"
  BY DEF Known
<1>5. CASE UpdateNoOutput
  <2>1. ~ Delivers(e) /\ req' = IF r \in Known THEN [req EXCEPT ![r] = Landed(e)] ELSE req
    BY <1>1, <1>5 DEF UpdateNoOutput
  <2>2. PICK q1 : q1 = Landed(e)
    OBVIOUS
  <2>3. ASSUME r \in Known
        PROVE  /\ req' = [req EXCEPT ![r] = q1]
               /\ Numbers(q1) /\ q1.status \in {req[r].status, "FINISHED"}
               /\ q1.status # "FINISHED" => Accounted(AfterFirst, r, q1)
               /\ q1.num_tokens >= req[r].num_tokens
               /\ q1.num_computed_tokens = req[r].num_computed_tokens
    <3>1. Numbers(q1) /\ Accounted(AfterFirst, r, q1)
      BY <1>1, <1>2, <2>1, <2>2, <2>3, LandedAccounted
    <3>2. /\ q1.status = req[r].status /\ q1.num_computed_tokens = req[r].num_computed_tokens
          /\ q1.num_tokens = req[r].num_tokens
      BY <1>1, <1>3, <1>4, <2>2, <2>3, LandedFields
    <3>3. q1.num_tokens >= req[r].num_tokens
      BY <3>1, <3>2 DEF Numbers
    <3> QED BY <2>1, <2>2, <2>3, <3>1, <3>2, <3>3
  <2>4. r \notin Known => req' = req
    BY <2>1
  <2> QED BY <1>1, <1>2, <2>3, <2>4, LandOne
<1>6. CASE UpdateDeliver \/ UpdateStop
  <2>1. Delivers(e) /\ r \in Known
    BY <1>1, <1>6 DEF UpdateDeliver, UpdateStop, Delivers
  <2>2. PICK w : w = WithOutput(e)
    OBVIOUS
  <2>3. Numbers(w) /\ (~ HitsMaxTokens(e) => Accounted(AfterFirst, r, w))
    BY <1>1, <1>2, <2>1, <2>2, LandedAccounted
  <2>4. /\ w.status = req[r].status /\ w.num_computed_tokens = req[r].num_computed_tokens
        /\ w.num_tokens = req[r].num_tokens + 1 /\ DOMAIN w = RequestFields
    BY <1>1, <1>3, <1>4, <2>1, <2>2, LandedFields
  <2>5. w.num_tokens >= req[r].num_tokens
    BY <1>3, <1>4, <2>1, <2>4 DEF Numbers
  <2>6. CASE UpdateDeliver
    <3>1. ~ HitsMaxTokens(e) /\ req' = [req EXCEPT ![r] = w]
      BY <1>1, <2>2, <2>6 DEF UpdateDeliver
    <3> QED BY <1>1, <1>2, <2>1, <2>3, <2>4, <2>5, <3>1, LandOne
  <2>7. CASE UpdateStop
    <3>1. PICK q1 : q1 = [w EXCEPT !.status = "FINISHED", !.prefilling = FALSE]
      OBVIOUS
    <3>2. req' = [req EXCEPT ![r] = q1]
      BY <1>1, <2>2, <2>7, <3>1 DEF UpdateStop
    <3>3. /\ q1.status = "FINISHED" /\ q1.num_tokens = w.num_tokens
          /\ q1.num_computed_tokens = w.num_computed_tokens
          /\ q1.num_in_flight_tokens = w.num_in_flight_tokens
          /\ q1.num_output_placeholders = w.num_output_placeholders
          /\ q1.num_stale_output_tokens = w.num_stale_output_tokens
          /\ q1.drop_stale_output = w.drop_stale_output /\ q1.decode_wait = w.decode_wait
      BY <2>4, <3>1 DEF RequestFields
    <3>4. Numbers(q1)
      BY <2>3, <3>3 DEF Numbers
    <3> QED BY <1>1, <1>2, <2>1, <2>4, <2>5, <3>2, <3>3, <3>4, LandOne
  <2> QED BY <1>6, <2>6, <2>7
<1> QED BY <1>5, <1>6

-----------------------------------------------------------------------------
(* Preemption.                                                              *)

LEMMA CatIs ==
  ASSUME NEW X, NEW s \in Seq(X), NEW t \in Seq(X)
  PROVE  /\ s \o t \in Seq(X) /\ Len(s \o t) = Len(s) + Len(t)
         /\ \A i \in 1 .. Len(s) : (s \o t)[i] = s[i]
         /\ \A i \in 1 .. Len(s \o t) : i > Len(s) => (s \o t)[i] = t[i - Len(s)]
OBVIOUS

\* Where the others are, after the one occurrence of an element is taken out.
LEMMA WithoutPlaces ==
  ASSUME NEW S, NEW s \in Seq(S), NEW k \in 1 .. Len(s),
         \A i \in 1 .. Len(s) : s[i] = s[k] => i = k
  PROVE  LET t == Without(s, s[k])
         IN /\ t \in Seq(S) /\ Len(t) = Len(s) - 1
            /\ \A i \in 1 .. (Len(s) - 1) : t[i] = IF i < k THEN s[i] ELSE s[i + 1]
<1> DEFINE I == {i \in 1 .. Len(s) : s[i] = s[k]}
<1>0. Len(s) \in Nat /\ k \in Nat /\ k >= 1 /\ k <= Len(s)
  OBVIOUS
<1>1. I = {k}
  OBVIOUS
<1>2. Min(I) = k
  <2> HIDE DEF I
  <2> QED BY <1>0, <1>1 DEF Min
<1>3. SelectInSeq(s, LAMBDA v : v = s[k]) = k
  <2>1. I # {}
    <3> HIDE DEF I
    <3> QED BY <1>1
  <2>2. SelectInSeq(s, LAMBDA v : v = s[k]) = Min(I)
    BY <2>1 DEF SelectInSeq
  <2> QED BY <1>2, <2>2
<1>4. Without(s, s[k]) = RemoveAt(s, k)
  BY <1>3 DEF Without, RemoveFirst
<1>5. PICK pre, post : pre = SubSeq(s, 1, k - 1) /\ post = SubSeq(s, k + 1, Len(s))
  OBVIOUS
<1>6. /\ pre \in Seq(S) /\ Len(pre) = k - 1 /\ \A i \in 1 .. (k - 1) : pre[i] = s[i]
  BY <1>0, <1>5
<1>7. /\ post \in Seq(S) /\ Len(post) = Len(s) - k
      /\ \A i \in 1 .. (Len(s) - k) : post[i] = s[k + i]
  BY <1>0, <1>5
<1>8. PICK t : t = pre \o post
  OBVIOUS
<1>9. /\ t \in Seq(S) /\ Len(t) = Len(pre) + Len(post)
      /\ \A i \in 1 .. Len(pre) : t[i] = pre[i]
      /\ \A i \in 1 .. Len(t) : i > Len(pre) => t[i] = post[i - Len(pre)]
  <2>1. pre \in Seq(S) /\ post \in Seq(S)
    BY <1>6, <1>7
  <2>2. /\ pre \o post \in Seq(S) /\ Len(pre \o post) = Len(pre) + Len(post)
        /\ \A i \in 1 .. Len(pre) : (pre \o post)[i] = pre[i]
        /\ \A i \in 1 .. Len(pre \o post) :
             i > Len(pre) => (pre \o post)[i] = post[i - Len(pre)]
    BY <2>1, CatIs, Zenon
  <2> QED BY <1>8, <2>2, Zenon
<1>10. ASSUME NEW i \in 1 .. (Len(s) - 1)
       PROVE  t[i] = IF i < k THEN s[i] ELSE s[i + 1]
  <2>1. CASE i < k
    <3>1. i \in 1 .. (k - 1)
      BY <1>0, <2>1
    <3> QED BY <1>6, <1>9, <2>1, <3>1
  <2>2. CASE ~ (i < k)
    <3>1. i \in 1 .. Len(t) /\ i > Len(pre) /\ i - (k - 1) \in 1 .. (Len(s) - k)
          /\ k + (i - (k - 1)) = i + 1
      BY <1>0, <1>6, <1>7, <1>9, <2>2
    <3>2. t[i] = post[i - (k - 1)]
      BY <1>6, <1>9, <3>1
    <3>3. post[i - (k - 1)] = s[k + (i - (k - 1))]
      BY <1>7, <3>1
    <3> QED BY <2>2, <3>1, <3>2, <3>3
  <2> QED BY <2>1, <2>2
<1>11. Without(s, s[k]) = t /\ Len(t) = Len(s) - 1
  <2>1. Without(s, s[k]) = t
    BY <1>4, <1>5, <1>8 DEF RemoveAt
  <2>2. Len(t) = (k - 1) + (Len(s) - k)
    BY <1>6, <1>7, <1>9
  <2> QED BY <1>0, <2>1, <2>2
<1> QED BY <1>9, <1>10, <1>11

\* A running request that is preempted.
LEMMA PreemptedAccounted ==
  ASSUME QueueInv, TokenInv, NEW v \in Reqs, req[v].status = "RUNNING", NEW drop \in BOOLEAN
  PROVE  /\ Preempted(v, drop).status = "PREEMPTED" /\ Numbers(Preempted(v, drop))
         /\ Accounted(Unprocessed, v, Preempted(v, drop))
<1>1. PICK q, q1, U : q = req[v] /\ q1 = Preempted(v, drop) /\ U = Unprocessed
  OBVIOUS
<1>2. DOMAIN q = RequestFields /\ Numbers(q) /\ v \in Known
  BY <1>1 DEF QueueInv, Fields, TokenInv, NumbersInv, Known
<1>3. /\ q1.status = "PREEMPTED" /\ q1.num_tokens = q.num_tokens /\ q1.num_computed_tokens = 0
      /\ q1.num_in_flight_tokens = q.num_in_flight_tokens
      /\ q1.num_output_placeholders = 0
      /\ q1.num_stale_output_tokens = q.num_in_flight_tokens
      /\ q1.drop_stale_output = (drop \/ (q.drop_stale_output /\ q.num_stale_output_tokens > 0))
      /\ q1.decode_wait = q.decode_wait
  BY <1>1, <1>2 DEF Preempted, RequestFields
<1>4. q1.drop_stale_output \in BOOLEAN
  BY <1>3, Zenon
<1>5. Numbers(q1)
  BY <1>2, <1>3, <1>4 DEF Numbers
<1>6. Accounted(U, v, q)
  BY <1>1, <1>2 DEF TokenInv, AccountedInv
<1>7. PICK N, S, D : N = q.num_tokens /\ S = q.num_stale_output_tokens /\ D = q.drop_stale_output
  OBVIOUS
<1>8. PICK c, o : /\ Counts(U, v, N, S, D, c, o) /\ q.num_in_flight_tokens = c[Len(U)]
  BY <1>6, <1>7 DEF Accounted
<1>9. PICK B : U \in Seq(Seq(EntryOf(B))) /\ \A i \in DOMAIN U : OneEach(U[i])
  BY <1>1, UnprocessedAre DEF TokenInv, GoodStep
<1>10. N \in Nat /\ S \in Nat /\ D \in BOOLEAN
  BY <1>2, <1>7 DEF Numbers
<1>11. PICK o1 : Counts(U, v, N, c[Len(U)], drop \/ (D /\ S > 0), c, o1)
  BY <1>8, <1>9, <1>10, CountsPreempted
<1>12. Counts(U, v, q1.num_tokens, q1.num_stale_output_tokens, q1.drop_stale_output, c, o1)
  BY <1>3, <1>7, <1>8, <1>11
<1>13. Progress(q1, o1[Len(U)])
  BY <1>3, <1>5 DEF Progress, Numbers
<1>14. q1.num_tokens < MaxLen(v)
  BY <1>3, <1>6 DEF Accounted
<1>15. q1.num_in_flight_tokens = c[Len(U)] /\ q1.num_stale_output_tokens <= q1.num_in_flight_tokens
  BY <1>2, <1>3, <1>8 DEF Numbers
<1>16. Accounted(U, v, q1)
  BY <1>12, <1>13, <1>14, <1>15 DEF Accounted
<1> QED BY <1>1, <1>3, <1>5, <1>16

\* The requests that load stay as they are.
LEMMA LoadsKept ==
  ASSUME LoadInv, load' = load, pc' # "update" => pc # "update",
         \A q \in Reqs : Loading(q)' => Loading(q) /\ req'[q] = req[q]
  PROVE  LoadInv'
BY DEF LoadInv, ValidTokens

LEMMA TokenResetPreempt ==
  ASSUME QueueInv, TokenInv, ResetPreempt
  PROVE  TokenInv'
<1>0. LoopInv /\ LoadInv /\ DOMAIN req = Reqs
  BY DEF TokenInv, QueueInv, Fields
<1>1. PICK v : v = Last(running)
  OBVIOUS
<1>2. /\ pc = "reset_running" /\ pc' = pc /\ running # << >>
      /\ req' = [req EXCEPT ![v] = Preempted(v, TRUE)]
      /\ UNCHANGED <<in_flight, todo, loop, load>>
  BY <1>1 DEF ResetPreempt, PreemptRequest
<1>3. v \in Reqs /\ req[v].status = "RUNNING"
  <2>1. running \in Seq(Reqs)
    BY RunningAre
  <2>2. Len(running) \in DOMAIN running /\ v = running[Len(running)]
    BY <1>1, <1>2, <2>1 DEF Last
  <2> QED BY <2>2, RunningAre
<1>4. PICK q1 : q1 = Preempted(v, TRUE)
  OBVIOUS
<1>5. q1.status = "PREEMPTED" /\ Numbers(q1) /\ Accounted(Unprocessed, v, q1)
  BY <1>3, <1>4, PreemptedAccounted
<1>6. LoopInv'
  BY <1>0, <1>2, LoopIdle DEF LoopStates
<1>7. \A q \in Reqs : Loading(q)' => Loading(q) /\ req'[q] = req[q]
  BY <1>0, <1>2, <1>3, <1>4, <1>5 DEF Loading
<1>8. LoadInv'
  BY <1>0, <1>2, <1>7, LoadsKept
<1>9. v \in Known
  BY <1>3 DEF Known
<1> QED BY <1>2, <1>4, <1>5, <1>6, <1>8, <1>9, OneRequest

\* A running request gives way to another one, or to none.
LEMMA TokenRunningPreempt ==
  ASSUME QueueInv, TokenInv, RunningPreempt
  PROVE  TokenInv'
<1>0. LoopInv /\ LoadInv /\ DOMAIN req = Reqs /\ DOMAIN loop = LoopFields
  BY DEF TokenInv, QueueInv, Fields
<1>1. PICK v, s, kept, dropped :
        /\ v = Victim /\ s = loop.scheduled
        /\ kept = {e \in ToSet(s) : e[1] # v} /\ dropped = ToSet(s) \ kept
  OBVIOUS
<1>2. /\ pc = "allocate" /\ pc' = IF v = loop.request THEN "issue" ELSE "allocate"
      /\ running' = Without(running, v)
      /\ req' = [req EXCEPT ![v] = Preempted(v, requires_kv_delivery)]
      /\ loop' = [loop EXCEPT
              !.preempted = TRUE, !.index = IndexAfter(v), !.scheduled = Filter(@, kept),
              !.budget = IF dropped = {} THEN @ ELSE @ + (CHOOSE e \in dropped : TRUE)[2]]
      /\ UNCHANGED <<in_flight, todo, load>>
  BY <1>1 DEF RunningPreempt, PreemptRequest
<1>3. PICK k \in DOMAIN running : running[k] = v
  <2>1. running \in Seq(Reqs) /\ loop.request \in ToSet(running)
    BY <1>2, RunningAre DEF QueueInv, Cursor
  <2>2. running # << >>
    BY <2>1 DEF ToSet
  <2>3. v \in ToSet(running)
    BY <1>1, <2>1, <2>2, VictimIn
  <2> QED BY <2>3 DEF ToSet
<1>4. v \in Reqs /\ req[v].status = "RUNNING"
  BY <1>3, RunningAre
<1>5. PICK q1 : q1 = Preempted(v, requires_kv_delivery)
  OBVIOUS
<1>6. q1.status = "PREEMPTED" /\ Numbers(q1) /\ Accounted(Unprocessed, v, q1)
  BY <1>4, <1>5, PreemptedAccounted, SchedulerAssumption
<1>7. PICK f : f = Filter(s, kept)
  OBVIOUS
<1>8. PICK b : b = IF dropped = {} THEN loop.budget
                   ELSE loop.budget + (CHOOSE e \in dropped : TRUE)[2]
  OBVIOUS
<1>9. /\ loop'.scheduled = f /\ loop'.budget = b /\ loop'.index = IndexAfter(v)
      /\ loop'.num_new = loop.num_new /\ loop'.request = loop.request
  BY <1>0, <1>1, <1>2, <1>7, <1>8 DEF LoopFields
<1>10. s \in Seq(Reqs \X (Nat \ {0})) /\ loop.budget \in Nat /\ loop.num_new \in Nat
  BY <1>0, <1>1 DEF LoopInv
<1>11. b \in Nat /\ b >= loop.budget
  <2>1. ASSUME dropped # {}
        PROVE  (CHOOSE e \in dropped : TRUE)[2] \in Nat
    <3>1. PICK e : e = CHOOSE x \in dropped : TRUE
      OBVIOUS
    <3>2. e \in dropped
      BY <2>1, <3>1
    <3>3. e \in Reqs \X (Nat \ {0})
      BY <1>1, <1>10, <3>2 DEF ToSet
    <3> QED BY <3>1, <3>3
  <2> QED BY <1>8, <1>10, <2>1
<1>12. PICK g : Picks(f, g, s, Len(s), kept) /\ f \in Seq(Reqs \X (Nat \ {0}))
  BY <1>7, <1>10, FilterPicks
<1>13. \A i \in DOMAIN f : g[i] \in DOMAIN s /\ f[i] = s[g[i]] /\ f[i][1] # v
  <2>1. DOMAIN f = 1 .. Len(f) /\ DOMAIN s = 1 .. Len(s)
    BY <1>10, <1>12
  <2>2. \A i \in DOMAIN f : g[i] \in DOMAIN s /\ f[i] = s[g[i]] /\ f[i] \in kept
    BY <1>12, <2>1 DEF Picks
  <2> QED BY <1>1, <2>2
<1>14. \A i, j \in DOMAIN f : g[i] = g[j] => i = j
  BY <1>12 DEF Picks
<1>15. req'[v] = q1 /\ \A q \in Reqs : q # v => req'[q] = req[q]
  BY <1>0, <1>2, <1>4, <1>5
<1>16. \A i \in DOMAIN f : Takes(req'[f[i][1]], f[i][2])
  <2> SUFFICES ASSUME NEW i \in DOMAIN f PROVE Takes(req'[f[i][1]], f[i][2])
    OBVIOUS
  <2>1. f[i] \in Reqs \X (Nat \ {0}) /\ g[i] \in DOMAIN s /\ f[i] = s[g[i]] /\ f[i][1] # v
    BY <1>12, <1>13
  <2>2. Takes(req[s[g[i]][1]], s[g[i]][2])
    BY <1>0, <1>1, <1>2, <2>1 DEF LoopInv
  <2>3. req'[f[i][1]] = req[f[i][1]]
    BY <1>15, <2>1
  <2> QED BY <2>1, <2>2, <2>3
<1>17. \A i, j \in DOMAIN f : f[i][1] = f[j][1] => i = j
  <2>1. \A i, j \in DOMAIN s : s[i][1] = s[j][1] => i = j
    BY <1>0, <1>1, <1>2 DEF LoopInv
  <2> QED BY <1>13, <1>14, <2>1
<1>18. ASSUME v # loop.request
       PROVE  /\ loop'.index \in DOMAIN running' /\ loop.request = running'[loop'.index]
              /\ \A i \in DOMAIN f : \E j \in DOMAIN running' :
                   j < loop'.index /\ running'[j] = f[i][1]
  <2>1. PICK x, n, t : x = loop.index /\ n = Len(running) /\ t = running'
    OBVIOUS
  <2>2. /\ DOMAIN running = 1 .. n /\ n \in Nat /\ x \in 1 .. n /\ running[x] = loop.request
        /\ k \in 1 .. n /\ x # k
    BY <1>0, <1>2, <1>3, <1>18, <2>1, RunningAre DEF LoopInv
  <2>3. /\ t \in Seq(Reqs) /\ Len(t) = n - 1
        /\ \A i \in 1 .. (n - 1) : t[i] = IF i < k THEN running[i] ELSE running[i + 1]
    <3>1. \A i \in 1 .. Len(running) : running[i] = running[k] => i = k
      BY <1>3, <2>1, <2>2, RunningAre
    <3>2. running \in Seq(Reqs) /\ k \in 1 .. Len(running)
      BY <2>1, <2>2, RunningAre
    <3> QED BY <1>2, <1>3, <2>1, <3>1, <3>2, WithoutPlaces
  <2>4. DOMAIN t = 1 .. (n - 1)
    BY <2>2, <2>3
  <2>5. \A i \in 1 .. n : running[i] = v => i = k
    BY <1>3, <2>2, RunningAre
  <2>6. IndexAfter(v) = IF k < x THEN x - 1 ELSE x
    <3>1. (\E i \in 1 .. (x - 1) : running[i] = v) <=> k < x
      <4>1. k < x => k \in 1 .. (x - 1) /\ running[k] = v
        BY <1>3, <2>2
      <4>2. \A i \in 1 .. (x - 1) : i \in 1 .. n /\ i < x
        BY <2>2
      <4> QED BY <2>5, <4>1, <4>2
    <3> QED BY <2>1, <3>1 DEF IndexAfter
  <2>7. PICK y : y = IndexAfter(v)
    OBVIOUS
  <2>8. y \in 1 .. (n - 1) /\ t[y] = running[x]
    <3>1. CASE k < x
      <4>1. y = x - 1 /\ x - 1 \in 1 .. (n - 1) /\ ~ (x - 1 < k) /\ (x - 1) + 1 = x
        BY <2>2, <2>6, <2>7, <3>1
      <4> QED BY <2>3, <4>1
    <3>2. CASE ~ (k < x)
      <4>1. y = x /\ x \in 1 .. (n - 1) /\ x < k
        BY <2>2, <2>6, <2>7, <3>2
      <4> QED BY <2>3, <4>1
    <3> QED BY <3>1, <3>2
  <2>9. ASSUME NEW i \in DOMAIN f
        PROVE  \E j \in DOMAIN t : j < y /\ t[j] = f[i][1]
    <3>1. g[i] \in DOMAIN s /\ f[i] = s[g[i]] /\ f[i][1] # v
      BY <1>13
    <3>2. PICK j \in DOMAIN running : j < x /\ running[j] = f[i][1]
      BY <1>0, <1>1, <1>2, <2>1, <3>1 DEF LoopInv
    <3>3. j \in 1 .. n /\ j # k
      BY <1>3, <2>2, <3>1, <3>2
    <3>4. CASE j < k
      <4>1. j \in 1 .. (n - 1) /\ j < y
        BY <2>2, <2>6, <2>7, <3>2, <3>3, <3>4
      <4>2. t[j] = running[j]
        BY <2>3, <3>4, <4>1
      <4> QED BY <2>4, <3>2, <4>1, <4>2
    <3>5. CASE ~ (j < k)
      <4>1. j - 1 \in 1 .. (n - 1) /\ j - 1 < y /\ ~ (j - 1 < k) /\ (j - 1) + 1 = j
        BY <2>2, <2>6, <2>7, <3>2, <3>3, <3>5
      <4>2. t[j - 1] = running[j]
        BY <2>3, <4>1
      <4> QED BY <2>4, <3>2, <4>1, <4>2
    <3> QED BY <3>4, <3>5
  <2>10. loop'.index = y /\ running' = t
    BY <1>9, <2>1, <2>7
  <2> QED BY <2>2, <2>4, <2>8, <2>9, <2>10
<1>19. LoopInv'
  <2>1. /\ loop'.scheduled \in Seq(Reqs \X (Nat \ {0})) /\ loop'.budget \in Nat
        /\ loop'.num_new \in Nat /\ Len(in_flight') < batch_queue_size
        /\ \A i \in DOMAIN loop'.scheduled :
             Takes(req'[loop'.scheduled[i][1]], loop'.scheduled[i][2])
        /\ \A i, j \in DOMAIN loop'.scheduled :
             loop'.scheduled[i][1] = loop'.scheduled[j][1] => i = j
    <3>1. Len(in_flight') < batch_queue_size
      BY <1>0, <1>2 DEF LoopInv
    <3> QED BY <1>9, <1>10, <1>11, <1>12, <1>16, <1>17, <3>1
  <2>2. CASE v = loop.request
    <3>1. pc' = "issue"
      BY <1>2, <2>2
    <3> QED BY <2>1, <3>1 DEF LoopInv, batch_queue_size
  <2>3. CASE v # loop.request
    <3>1. pc' = "allocate"
      BY <1>2, <2>3
    <3>2. /\ loop'.index \in DOMAIN running' /\ loop'.request = running'[loop'.index]
          /\ \A i \in DOMAIN loop'.scheduled : \E j \in DOMAIN running' :
               j < loop'.index /\ running'[j] = loop'.scheduled[i][1]
      BY <1>9, <1>18, <2>3
    <3>3. loop'.num_new >= 1 /\ loop'.num_new <= loop'.budget
      BY <1>0, <1>2, <1>9, <1>10, <1>11 DEF LoopInv
    <3>4. Takes(req'[loop'.request], loop'.num_new)
      <4>1. loop.request \in Reqs /\ Takes(req[loop.request], loop.num_new)
        BY <1>0, <1>2, RunningAre DEF LoopInv
      <4>2. req'[loop.request] = req[loop.request]
        BY <1>15, <2>3, <4>1
      <4> QED BY <1>9, <4>1, <4>2
    <3> QED BY <2>1, <3>1, <3>2, <3>3, <3>4 DEF LoopInv, batch_queue_size
  <2> QED BY <2>2, <2>3
<1>20. \A q \in Reqs : Loading(q)' => Loading(q) /\ req'[q] = req[q]
  BY <1>6, <1>15 DEF Loading
<1>21. LoadInv' /\ pc' \in {"issue", "allocate"}
  <2>1. pc' \in {"issue", "allocate"}
    BY <1>2
  <2>2. LoadInv'
    BY <1>0, <1>2, <1>20, <2>1, LoadsKept
  <2> QED BY <2>1, <2>2
<1>22. v \in Known
  BY <1>4 DEF Known
<1> QED BY <1>2, <1>5, <1>6, <1>19, <1>21, <1>22, OneRequest

-----------------------------------------------------------------------------
(* The waiting requests.                                                    *)

\* The requests that run stay as they are.
LEMMA LoopKept ==
  ASSUME LoopInv, pc = "waiting", pc' = pc, in_flight' = in_flight,
         loop'.budget = loop.budget, loop'.num_new = loop.num_new,
         loop'.scheduled = loop.scheduled,
         \A q \in Reqs : req[q].status = "RUNNING" => req'[q] = req[q]
  PROVE  LoopInv'
<1>1. PICK s : s = loop.scheduled
  OBVIOUS
<1>2. /\ s \in Seq(Reqs \X (Nat \ {0})) /\ Len(in_flight) < batch_queue_size
      /\ \A i \in DOMAIN s : Takes(req[s[i][1]], s[i][2])
      /\ \A i, j \in DOMAIN s : s[i][1] = s[j][1] => i = j
  BY <1>1 DEF LoopInv
<1>3. \A i \in DOMAIN s : Takes(req'[s[i][1]], s[i][2])
  <2> SUFFICES ASSUME NEW i \in DOMAIN s PROVE Takes(req'[s[i][1]], s[i][2])
    OBVIOUS
  <2>1. s[i] \in Reqs \X (Nat \ {0})
    BY <1>2
  <2>2. s[i][1] \in Reqs /\ req[s[i][1]].status = "RUNNING"
    BY <1>2, <2>1 DEF Takes
  <2> QED BY <1>2, <2>2
<1>4. /\ loop'.scheduled \in Seq(Reqs \X (Nat \ {0})) /\ Len(in_flight') < batch_queue_size
      /\ \A i \in DOMAIN loop'.scheduled :
           Takes(req'[loop'.scheduled[i][1]], loop'.scheduled[i][2])
      /\ \A i, j \in DOMAIN loop'.scheduled :
           loop'.scheduled[i][1] = loop'.scheduled[j][1] => i = j
  BY <1>1, <1>2, <1>3
<1>5. loop'.budget \in Nat /\ loop'.num_new \in Nat
  BY DEF LoopInv
<1> QED BY <1>4, <1>5 DEF LoopInv, batch_queue_size

\* What is known of the next waiting request.
LEMMA NextIs ==
  ASSUME QueueInv, TokenInv, pc = "waiting", CanAdmit, NEW r, r = NextWaiting
  PROVE  /\ r \in Reqs /\ r \in Known /\ req[r].status \in Waitable /\ Numbers(req[r])
         /\ DOMAIN req[r] = RequestFields /\ Accounted(Unprocessed, r, req[r])
         /\ req[r].num_output_placeholders = 0
         /\ req[r].num_stale_output_tokens = req[r].num_in_flight_tokens
         /\ req[r].num_computed_tokens <= req[r].num_tokens
         /\ ~ Loading(r) => req[r].num_computed_tokens < req[r].num_tokens
<1>1. r \in Reqs /\ req[r].status \in Waitable
  BY NextWaits
<1>2. r \in Known /\ Numbers(req[r]) /\ DOMAIN req[r] = RequestFields
  BY <1>1 DEF Known, Waitable, TokenInv, NumbersInv, QueueInv, Fields
<1>3. Accounted(Unprocessed, r, req[r])
  BY <1>2 DEF TokenInv, AccountedInv
<1>4. \E n : Progress(req[r], n)
  BY <1>3 DEF Accounted
<1> QED BY <1>1, <1>2, <1>3, <1>4 DEF Progress, Loading

\* The steps of the others are not touched by a change of a request that waits.
LEMMA TokenPromote ==
  ASSUME QueueInv, TokenInv, WaitingPromote
  PROVE  TokenInv'
<1>0. /\ LoopInv /\ LoadInv /\ DOMAIN req = Reqs /\ DOMAIN load = Reqs
      /\ \A q \in Reqs : load[q].back \in {"WAITING", "PREEMPTED"}
  BY DEF TokenInv, QueueInv, Fields, Statuses
<1>1. PICK r, n : r = NextWaiting /\ n = req[r].num_computed_tokens
  OBVIOUS
<1>2. PICK k : k = IF ~ load[r].failed /\ n = req[r].num_tokens THEN n - 1 ELSE n
  OBVIOUS
<1>3. /\ pc = "waiting" /\ CanAdmit /\ pc' = pc /\ Loading(r)
      /\ req' = [req EXCEPT ![r].status = load[r].back, ![r].num_computed_tokens = k]
      /\ load' = [load EXCEPT ![r] = NoLoad] /\ UNCHANGED <<in_flight, todo, loop>>
  BY <1>1, <1>2 DEF WaitingPromote
<1>4. /\ r \in Reqs /\ r \in Known /\ Numbers(req[r]) /\ DOMAIN req[r] = RequestFields
      /\ Accounted(Unprocessed, r, req[r]) /\ n <= req[r].num_tokens
  BY <1>1, <1>3, NextIs
<1>5. PICK q, q1 : q = req[r] /\ q1 = [req[r] EXCEPT !.status = load[r].back,
                                                     !.num_computed_tokens = k]
  OBVIOUS
<1>6. req' = [req EXCEPT ![r] = q1]
  BY <1>0, <1>3, <1>4, <1>5
<1>7. /\ q1.status \in {"WAITING", "PREEMPTED"} /\ q1.num_computed_tokens = k
      /\ q1.num_tokens = q.num_tokens /\ q1.num_in_flight_tokens = q.num_in_flight_tokens
      /\ q1.num_output_placeholders = q.num_output_placeholders
      /\ q1.num_stale_output_tokens = q.num_stale_output_tokens
      /\ q1.drop_stale_output = q.drop_stale_output /\ q1.decode_wait = q.decode_wait
  BY <1>0, <1>4, <1>5 DEF RequestFields
<1>8. k \in Nat /\ k < q.num_tokens
  <2>1. n \in Nat /\ q.num_tokens \in Nat /\ q.num_tokens >= 1
    BY <1>1, <1>4, <1>5 DEF Numbers
  <2>2. load[r].failed => n < q.num_tokens
    BY <1>0, <1>1, <1>3, <1>4, <1>5 DEF LoadInv
  <2> QED BY <1>2, <1>4, <1>5, <2>1, <2>2
<1>9. Numbers(q1)
  BY <1>4, <1>5, <1>7, <1>8 DEF Numbers
<1>10. Accounted(Unprocessed, r, q1)
  <2>1. q.status = "WAITING_FOR_REMOTE_KVS"
    BY <1>3, <1>5 DEF Loading
  <2>2. \A i : Progress(q, i) => Progress(q1, i)
    <3>1. q1.num_computed_tokens < q1.num_tokens /\ q1.num_computed_tokens <= q1.num_tokens
      BY <1>7, <1>8, <1>9 DEF Numbers
    <3>2. q1.status # "RUNNING" /\ q.status \in Waitable /\ q1.status # "WAITING_FOR_REMOTE_KVS"
      BY <1>7, <2>1 DEF Waitable
    <3> QED BY <1>7, <2>1, <3>1, <3>2 DEF Progress
  <2>3. Accounted(Unprocessed, r, q)
    BY <1>4, <1>5
  <2>4. /\ q1.num_tokens = q.num_tokens /\ q1.num_in_flight_tokens = q.num_in_flight_tokens
        /\ q1.num_stale_output_tokens = q.num_stale_output_tokens
        /\ q1.drop_stale_output = q.drop_stale_output
    BY <1>7
  <2> QED BY <2>2, <2>3, <2>4, SameAccount
<1>11. req'[r] = q1 /\ \A p \in Reqs : p # r => req'[p] = req[p] /\ load'[p] = load[p]
  BY <1>0, <1>3, <1>4, <1>6
<1>12. LoopInv'
  <2>1. \A p \in Reqs : req[p].status = "RUNNING" => req'[p] = req[p]
    BY <1>3, <1>11 DEF Loading
  <2> QED BY <1>0, <1>3, <2>1, LoopKept
<1>13. LoadInv'
  <2>1. load'[r] = NoLoad
    BY <1>0, <1>3, <1>4
  <2>2. load'[r].first = 0 /\ load'[r].invalid = 0 /\ load'[r].failed = FALSE
    BY <2>1 DEF NoLoad
  <2>3. load'[r].first \in Nat /\ load'[r].invalid \in Nat
    BY <2>2
  <2>4. load'[r].failed \in BOOLEAN
    BY <2>2, Zenon
  <2>5. ~ Loading(r)'
    BY <1>7, <1>11 DEF Loading
  <2> SUFFICES ASSUME NEW p \in Reqs
               PROVE  /\ load'[p].first \in Nat /\ load'[p].invalid \in Nat
                      /\ load'[p].failed \in BOOLEAN
                      /\ Loading(p)' =>
                           /\ load'[p].failed => req'[p].num_computed_tokens < req'[p].num_tokens
                           /\ load'[p].state = "arrived" /\ pc' # "update" /\ load'[p].invalid > 0 =>
                                ValidTokens(p)' < req'[p].num_computed_tokens
    BY DEF LoadInv
  <2>6. CASE p = r
    BY <2>3, <2>4, <2>5, <2>6
  <2>7. CASE p # r
    BY <1>0, <1>3, <1>11, <2>7 DEF LoadInv, Loading, ValidTokens
  <2> QED BY <2>6, <2>7
<1>14. q1.status # "ABSENT"
  BY <1>7
<1> QED BY <1>3, <1>4, <1>6, <1>9, <1>10, <1>12, <1>13, <1>14, OneRequest

\* Nothing is to come for a request that may be admitted.
LEMMA ReadyAccount ==
  ASSUME QueueInv, TokenInv, pc = "waiting", CanAdmit, NEW r, r = NextWaiting, Ready(r)
  PROVE  /\ req[r].num_stale_output_tokens > 0 => req[r].drop_stale_output
         /\ \E c, o :
              /\ Counts(Unprocessed, r, req[r].num_tokens, req[r].num_stale_output_tokens,
                        req[r].drop_stale_output, c, o)
              /\ req[r].num_in_flight_tokens = c[Len(Unprocessed)]
              /\ o[Len(Unprocessed)] = 0
<1>1. PICK q, U : q = req[r] /\ U = Unprocessed
  OBVIOUS
<1>2. Numbers(q) /\ Accounted(U, r, q) /\ q.num_stale_output_tokens = q.num_in_flight_tokens
  BY <1>1, NextIs
<1>3. q.num_stale_output_tokens > 0 => q.drop_stale_output
  BY <1>1 DEF Ready, AwaitsStaleOutput
<1>4. PICK N, S, D : N = q.num_tokens /\ S = q.num_stale_output_tokens /\ D = q.drop_stale_output
  OBVIOUS
<1>5. PICK c, o : Counts(U, r, N, S, D, c, o) /\ q.num_in_flight_tokens = c[Len(U)]
  BY <1>2, <1>4 DEF Accounted
<1>6. PICK B : U \in Seq(Seq(EntryOf(B))) /\ \A i \in DOMAIN U : OneEach(U[i])
  BY <1>1, UnprocessedAre DEF TokenInv, GoodStep
<1>7. S \in Nat /\ D \in BOOLEAN /\ S = c[Len(U)] /\ (D \/ S = 0)
  BY <1>2, <1>3, <1>4, <1>5 DEF Numbers
<1>8. \A i \in 0 .. Len(U) : o[i] = 0
  BY <1>5, <1>6, <1>7, NothingOut, ZenonT(60)
<1>9. o[Len(U)] = 0
  BY <1>6, <1>8
<1> QED BY <1>1, <1>3, <1>4, <1>5, <1>9

\* The tokens of a request that may be admitted, with its hits.
LEMMA ComputedIs ==
  ASSUME QueueInv, TokenInv, pc = "waiting", CanAdmit, NEW r, r = NextWaiting, Ready(r),
         NEW hits \in Hits(r)
  PROVE  /\ NumComputed(r, hits) \in Nat /\ NumComputed(r, hits) < req[r].num_tokens
         /\ req[r].num_tokens \in Nat
<1>1. /\ r \in Reqs /\ Numbers(req[r]) /\ req[r].num_computed_tokens < req[r].num_tokens
  BY NextIs DEF Ready
<1>2. /\ Len(hits) \in Nat /\ Len(hits) * block_size <= req[r].num_tokens - 1
      /\ req[r].num_computed_tokens # 0 => hits = << >>
  BY <1>1, HitsAre DEF Numbers
<1>3. block_size \in Nat
  BY ConstantFacts
<1>4. Len(hits) * block_size \in Nat
  BY <1>2, <1>3
<1>5. CASE req[r].num_computed_tokens # 0
  <2>1. Len(hits) * block_size = 0
    BY <1>2, <1>3, <1>5
  <2> QED BY <1>1, <2>1 DEF NumComputed, Numbers
<1>6. CASE req[r].num_computed_tokens = 0
  BY <1>1, <1>2, <1>4, <1>6 DEF NumComputed, Numbers
<1> QED BY <1>5, <1>6

LEMMA TokenAdmit ==
  ASSUME QueueInv, TokenInv, WaitingAdmit
  PROVE  TokenInv'
<1>0. LoopInv /\ LoadInv /\ DOMAIN req = Reqs /\ DOMAIN loop = LoopFields
  BY DEF TokenInv, QueueInv, Fields
<1>1. PICK r : r = NextWaiting
  OBVIOUS
<1>2. PICK hits \in Hits(r) :
        LET computed == NumComputed(r, hits)
            num_new == Chunk(req[r].num_tokens - computed)
        IN /\ req' = [req EXCEPT
               ![r].status = "RUNNING", ![r].num_computed_tokens = computed,
               ![r].prefilling = @ \/ computed + num_new < req[r].num_tokens]
           /\ loop' = [loop EXCEPT !.budget = @ - num_new,
                                   !.scheduled = Append(@, <<r, num_new>>)]
  BY <1>1 DEF WaitingAdmit
<1>3. /\ pc = "waiting" /\ CanAdmit /\ Ready(r) /\ pc' = pc /\ UNCHANGED <<in_flight, todo, load>>
  BY <1>1 DEF WaitingAdmit
<1>4. PICK k, n : k = NumComputed(r, hits) /\ n = Chunk(req[r].num_tokens - k)
  OBVIOUS
<1>5. /\ req' = [req EXCEPT
           ![r].status = "RUNNING", ![r].num_computed_tokens = k,
           ![r].prefilling = @ \/ k + n < req[r].num_tokens]
      /\ loop' = [loop EXCEPT !.budget = @ - n, !.scheduled = Append(@, <<r, n>>)]
  BY <1>2, <1>4
<1>6. /\ r \in Reqs /\ r \in Known /\ Numbers(req[r]) /\ DOMAIN req[r] = RequestFields
      /\ Accounted(Unprocessed, r, req[r]) /\ req[r].status \in Waitable
      /\ req[r].num_output_placeholders = 0
      /\ req[r].num_stale_output_tokens = req[r].num_in_flight_tokens
  BY <1>1, <1>3, NextIs
<1>7. k \in Nat /\ k < req[r].num_tokens /\ req[r].num_tokens \in Nat
  BY <1>1, <1>3, <1>4, ComputedIs
<1>8. n \in Nat /\ n >= 1 /\ n <= req[r].num_tokens - k /\ n <= loop.budget /\ loop.budget \in Nat
  <2>1. loop.budget \in Nat /\ loop.budget >= 1
    BY <1>0, <1>3 DEF LoopInv, CanAdmit
  <2>2. PICK w \in Nat : w = req[r].num_tokens - k /\ w >= 1
    BY <1>7
  <2> QED BY <1>4, <2>1, <2>2, ChunkIs
<1>9. PICK q, q1 :
        /\ q = req[r]
        /\ q1 = [req[r] EXCEPT !.status = "RUNNING", !.num_computed_tokens = k,
                               !.prefilling = @ \/ k + n < req[r].num_tokens]
  OBVIOUS
<1>10. req' = [req EXCEPT ![r] = q1]
  BY <1>0, <1>5, <1>6, <1>9
<1>11. /\ q1.status = "RUNNING" /\ q1.num_computed_tokens = k
       /\ q1.num_tokens = q.num_tokens /\ q1.num_in_flight_tokens = q.num_in_flight_tokens
       /\ q1.num_output_placeholders = q.num_output_placeholders
       /\ q1.num_stale_output_tokens = q.num_stale_output_tokens
       /\ q1.drop_stale_output = q.drop_stale_output /\ q1.decode_wait = q.decode_wait
  BY <1>6, <1>9 DEF RequestFields
<1>12. Numbers(q1)
  BY <1>6, <1>7, <1>9, <1>11 DEF Numbers
<1>13. Accounted(Unprocessed, r, q1)
  <2>1. PICK U : U = Unprocessed
    OBVIOUS
  <2>2. /\ q.num_stale_output_tokens > 0 => q.drop_stale_output
        /\ \E c, o :
             /\ Counts(U, r, q.num_tokens, q.num_stale_output_tokens, q.drop_stale_output, c, o)
             /\ q.num_in_flight_tokens = c[Len(U)] /\ o[Len(U)] = 0
    BY <1>1, <1>3, <1>9, <2>1, ReadyAccount
  <2>3. PICK c, o :
          /\ Counts(U, r, q.num_tokens, q.num_stale_output_tokens, q.drop_stale_output, c, o)
          /\ q.num_in_flight_tokens = c[Len(U)] /\ o[Len(U)] = 0
    BY <2>2
  <2>4. Progress(q1, o[Len(U)])
    BY <1>6, <1>7, <1>9, <1>11, <2>2, <2>3 DEF Progress, Waitable
  <2>5. q.num_tokens < MaxLen(r)
    BY <1>6, <1>9 DEF Accounted
  <2>6. q1.num_stale_output_tokens <= q1.num_in_flight_tokens
    BY <1>6, <1>9, <1>11 DEF Numbers
  <2>7. Accounted(U, r, q1)
    <3>1. /\ Counts(U, r, q1.num_tokens, q1.num_stale_output_tokens, q1.drop_stale_output, c, o)
          /\ q1.num_in_flight_tokens = c[Len(U)] /\ q1.num_tokens < MaxLen(r)
      BY <1>11, <2>3, <2>5
    <3> QED BY <2>4, <2>6, <3>1, Zenon DEF Accounted
  <2> QED BY <2>1, <2>7
<1>14. req'[r] = q1 /\ \A p \in Reqs : p # r => req'[p] = req[p]
  BY <1>0, <1>6, <1>10
<1>15. LoopInv'
  <2>1. PICK s0, s : s0 = loop.scheduled /\ s = Append(s0, <<r, n>>)
    OBVIOUS
  <2>2. loop'.budget = loop.budget - n /\ loop'.num_new = loop.num_new /\ loop'.scheduled = s
    BY <1>0, <1>5, <2>1 DEF LoopFields
  <2>3. /\ s0 \in Seq(Reqs \X (Nat \ {0})) /\ Len(in_flight) < batch_queue_size
        /\ \A i \in DOMAIN s0 : Takes(req[s0[i][1]], s0[i][2])
        /\ \A i, j \in DOMAIN s0 : s0[i][1] = s0[j][1] => i = j
    BY <1>0, <1>3, <2>1 DEF LoopInv
  <2>4. \A i \in DOMAIN s0 : Takes(req'[s0[i][1]], s0[i][2]) /\ s0[i][1] # r
    <3> SUFFICES ASSUME NEW i \in DOMAIN s0
                 PROVE  Takes(req'[s0[i][1]], s0[i][2]) /\ s0[i][1] # r
      OBVIOUS
    <3>1. s0[i] \in Reqs \X (Nat \ {0})
      BY <2>3
    <3>2. s0[i][1] \in Reqs /\ req[s0[i][1]].status = "RUNNING"
      BY <2>3, <3>1 DEF Takes
    <3>3. s0[i][1] # r
      BY <1>6, <3>2 DEF Waitable
    <3> QED BY <1>14, <2>3, <3>2, <3>3
  <2>5. Takes(req'[r], n)
    BY <1>6, <1>7, <1>8, <1>9, <1>11, <1>14 DEF Takes
  <2>6. PICK rq : rq = req'
    OBVIOUS
  <2>7. /\ Takes(rq[r], n)
        /\ \A i \in DOMAIN s0 : Takes(rq[s0[i][1]], s0[i][2]) /\ s0[i][1] # r
    BY <2>4, <2>5, <2>6
  <2>8. /\ s \in Seq(Reqs \X (Nat \ {0}))
        /\ \A i \in DOMAIN s : Takes(rq[s[i][1]], s[i][2])
        /\ \A i, j \in DOMAIN s : s[i][1] = s[j][1] => i = j
    BY <1>6, <1>8, <2>1, <2>3, <2>7, ScheduleAnother, SMTT(60)
  <2>9. /\ loop'.scheduled \in Seq(Reqs \X (Nat \ {0})) /\ Len(in_flight') < batch_queue_size
        /\ \A i \in DOMAIN loop'.scheduled :
             Takes(req'[loop'.scheduled[i][1]], loop'.scheduled[i][2])
        /\ \A i, j \in DOMAIN loop'.scheduled :
             loop'.scheduled[i][1] = loop'.scheduled[j][1] => i = j
    BY <1>3, <2>2, <2>3, <2>6, <2>8
  <2>10. loop'.budget \in Nat /\ loop'.num_new \in Nat
    BY <1>0, <1>8, <2>2 DEF LoopInv
  <2> QED BY <1>3, <2>9, <2>10 DEF LoopInv, batch_queue_size
<1>16. LoadInv'
  <2>1. \A p \in Reqs : Loading(p)' => Loading(p) /\ req'[p] = req[p]
    BY <1>11, <1>14 DEF Loading
  <2> QED BY <1>0, <1>3, <2>1, LoadsKept
<1>17. q1.status # "ABSENT"
  BY <1>11
<1> QED BY <1>3, <1>6, <1>10, <1>12, <1>13, <1>15, <1>16, <1>17, OneRequest

LEMMA TokenLoad ==
  ASSUME QueueInv, TokenInv, WaitingLoad
  PROVE  TokenInv'
<1>0. /\ LoopInv /\ LoadInv /\ DOMAIN req = Reqs /\ DOMAIN loop = LoopFields
      /\ DOMAIN load = Reqs
  BY DEF TokenInv, QueueInv, Fields
<1>1. PICK r : r = NextWaiting
  OBVIOUS
<1>2a. PICK hits \in Hits(r) : \E end \in Offers(r, NumComputed(r, hits)) :
        /\ req' = [req EXCEPT ![r].status = "WAITING_FOR_REMOTE_KVS",
                              ![r].num_computed_tokens = end, ![r].prefilling = TRUE]
        /\ load' = [load EXCEPT ![r] =
             [NoLoad EXCEPT !.state = "transfer", !.first = NumComputed(r, hits),
                            !.blocks = ToSet(m'.req_to_blocks[r]) \ ToSet(hits),
                            !.steps = Len(in_flight) + 1, !.back = req[r].status]]
        /\ loop' = [loop EXCEPT !.skipped = <<r>> \o @]
  BY <1>1 DEF WaitingLoad
<1>2. PICK end \in Offers(r, NumComputed(r, hits)) :
        /\ req' = [req EXCEPT ![r].status = "WAITING_FOR_REMOTE_KVS",
                              ![r].num_computed_tokens = end, ![r].prefilling = TRUE]
        /\ load' = [load EXCEPT ![r] =
             [NoLoad EXCEPT !.state = "transfer", !.first = NumComputed(r, hits),
                            !.blocks = ToSet(m'.req_to_blocks[r]) \ ToSet(hits),
                            !.steps = Len(in_flight) + 1, !.back = req[r].status]]
        /\ loop' = [loop EXCEPT !.skipped = <<r>> \o @]
  BY <1>2a
<1>3. /\ pc = "waiting" /\ CanAdmit /\ Ready(r) /\ pc' = pc /\ UNCHANGED <<in_flight, todo>>
  BY <1>1 DEF WaitingLoad
<1>4. /\ r \in Reqs /\ r \in Known /\ Numbers(req[r]) /\ DOMAIN req[r] = RequestFields
      /\ Accounted(Unprocessed, r, req[r]) /\ req[r].status \in Waitable
  BY <1>1, <1>3, NextIs
<1>5. PICK k : k = NumComputed(r, hits)
  OBVIOUS
<1>6. k \in Nat /\ req[r].num_tokens \in Nat
  BY <1>1, <1>3, <1>5, ComputedIs
<1>7. end \in Nat /\ end <= req[r].num_tokens
  <2>1. end \in (k + 1) .. req[r].num_tokens
    BY <1>2, <1>5 DEF Offers
  <2> QED BY <1>6, <2>1
<1>8. PICK q, q1 :
        /\ q = req[r]
        /\ q1 = [req[r] EXCEPT !.status = "WAITING_FOR_REMOTE_KVS",
                               !.num_computed_tokens = end, !.prefilling = TRUE]
  OBVIOUS
<1>9. req' = [req EXCEPT ![r] = q1]
  BY <1>0, <1>2, <1>4, <1>8
<1>10. /\ q1.status = "WAITING_FOR_REMOTE_KVS" /\ q1.num_computed_tokens = end
       /\ q1.num_tokens = q.num_tokens /\ q1.num_in_flight_tokens = q.num_in_flight_tokens
       /\ q1.num_output_placeholders = q.num_output_placeholders
       /\ q1.num_stale_output_tokens = q.num_stale_output_tokens
       /\ q1.drop_stale_output = q.drop_stale_output /\ q1.decode_wait = q.decode_wait
  BY <1>4, <1>8 DEF RequestFields
<1>11. Numbers(q1)
  BY <1>4, <1>7, <1>8, <1>10 DEF Numbers
<1>12. Accounted(Unprocessed, r, q1)
  <2>1. q.num_stale_output_tokens > 0 => q.drop_stale_output
    BY <1>3, <1>8 DEF Ready, AwaitsStaleOutput
  <2>2. \A i : Progress(q, i) => Progress(q1, i)
    BY <1>4, <1>7, <1>8, <1>10, <2>1 DEF Progress, Waitable
  <2>3. Accounted(Unprocessed, r, q)
    BY <1>4, <1>8
  <2>4. /\ q1.num_tokens = q.num_tokens /\ q1.num_in_flight_tokens = q.num_in_flight_tokens
        /\ q1.num_stale_output_tokens = q.num_stale_output_tokens
        /\ q1.drop_stale_output = q.drop_stale_output
    BY <1>10
  <2> QED BY <2>2, <2>3, <2>4, SameAccount
<1>13. req'[r] = q1 /\ \A p \in Reqs : p # r => req'[p] = req[p] /\ load'[p] = load[p]
  BY <1>0, <1>2, <1>4, <1>9
<1>14. LoopInv'
  <2>1. \A p \in Reqs : req[p].status = "RUNNING" => req'[p] = req[p]
    BY <1>4, <1>13 DEF Waitable
  <2>2. loop'.budget = loop.budget /\ loop'.num_new = loop.num_new
        /\ loop'.scheduled = loop.scheduled
    BY <1>0, <1>2 DEF LoopFields
  <2> QED BY <1>0, <1>3, <2>1, <2>2, LoopKept
<1>15. LoadInv'
  <2>1. /\ load'[r].first = k /\ load'[r].invalid = 0 /\ load'[r].failed = FALSE
        /\ load'[r].state = "transfer"
    BY <1>0, <1>2, <1>4, <1>5 DEF NoLoad
  <2>2. load'[r].first \in Nat /\ load'[r].invalid \in Nat /\ load'[r].state # "arrived"
    BY <1>6, <2>1
  <2>3. load'[r].failed \in BOOLEAN /\ ~ load'[r].failed
    BY <2>1, Zenon
  <2> SUFFICES ASSUME NEW p \in Reqs
               PROVE  /\ load'[p].first \in Nat /\ load'[p].invalid \in Nat
                      /\ load'[p].failed \in BOOLEAN
                      /\ Loading(p)' =>
                           /\ load'[p].failed => req'[p].num_computed_tokens < req'[p].num_tokens
                           /\ load'[p].state = "arrived" /\ pc' # "update" /\ load'[p].invalid > 0 =>
                                ValidTokens(p)' < req'[p].num_computed_tokens
    BY DEF LoadInv
  <2>4. CASE p = r
    BY <2>2, <2>3, <2>4
  <2>5. CASE p # r
    BY <1>0, <1>3, <1>13, <2>5 DEF LoadInv, Loading, ValidTokens
  <2> QED BY <2>4, <2>5
<1>16. q1.status # "ABSENT"
  BY <1>10
<1> QED BY <1>3, <1>4, <1>9, <1>11, <1>12, <1>14, <1>15, <1>16, OneRequest

-----------------------------------------------------------------------------
(* The step is issued.                                                      *)

LEMMA SeqWider ==
  ASSUME NEW X, NEW Y, X \subseteq Y, NEW s \in Seq(X)
  PROVE  s \in Seq(Y)
OBVIOUS

\* What becomes of the counters q of a request with n tokens in the step.
Issued(q, n, q1) ==
  LET samples == q.num_computed_tokens + n >= q.num_tokens + q.num_output_placeholders
  IN /\ q1.status = q.status /\ q1.num_tokens = q.num_tokens
     /\ q1.num_stale_output_tokens = q.num_stale_output_tokens
     /\ q1.drop_stale_output = q.drop_stale_output
     /\ q1.num_computed_tokens = q.num_computed_tokens + n
     /\ q1.num_in_flight_tokens = q.num_in_flight_tokens + n
     /\ q1.num_output_placeholders =
          q.num_output_placeholders + (IF async_scheduling /\ samples THEN 1 ELSE 0)
     /\ q1.decode_wait \in {q.decode_wait, pp_size}

\* A scheduled request has computed its tokens and waits for its output.
LEMMA ProgressIssued ==
  ASSUME NEW q, NEW q1, NEW n \in Nat, n >= 1, NEW o \in Nat, Numbers(q), Takes(q, n),
         Issued(q, n, q1), Progress(q, o), NEW x,
         x = IF q.num_computed_tokens + n >= q.num_tokens + q.num_output_placeholders
             THEN 1 ELSE 0
  PROVE  /\ x = 1 => q.num_computed_tokens + n + 1 = q.num_tokens + o + 1
         /\ Progress(q1, o + x) /\ Numbers(q1)
<1>1. /\ q.num_tokens \in Nat /\ q.num_tokens >= 1 /\ q.num_computed_tokens \in Nat
      /\ q.num_output_placeholders \in Nat /\ q.num_in_flight_tokens \in Nat
      /\ q.num_stale_output_tokens \in Nat /\ q.drop_stale_output \in BOOLEAN
      /\ q.decode_wait \in 0 .. pp_size
  BY DEF Numbers
<1>2. /\ q.status = "RUNNING"
      /\ q.num_computed_tokens + n <= q.num_tokens + q.num_output_placeholders
  BY DEF Takes
<1>3. x = 1 => q.num_computed_tokens + n = q.num_tokens + q.num_output_placeholders
  BY <1>1, <1>2
<1>4. x = 0 => q.num_computed_tokens + n < q.num_tokens + q.num_output_placeholders
  BY <1>1, <1>2
<1>5. x \in {0, 1}
  OBVIOUS
<1>6. /\ q1.status = "RUNNING" /\ q1.num_tokens = q.num_tokens
      /\ q1.num_stale_output_tokens = q.num_stale_output_tokens
      /\ q1.drop_stale_output = q.drop_stale_output
      /\ q1.num_computed_tokens = q.num_computed_tokens + n
      /\ q1.num_in_flight_tokens = q.num_in_flight_tokens + n
      /\ q1.num_output_placeholders = q.num_output_placeholders + (IF async_scheduling THEN x ELSE 0)
      /\ q1.decode_wait \in 0 .. pp_size
  BY <1>1, <1>2, ConstantFacts DEF Issued
<1>7. Numbers(q1)
  BY <1>1, <1>5, <1>6 DEF Numbers
<1>8. CASE async_scheduling
  <2>1. /\ o = q.num_output_placeholders
        /\ q.num_output_placeholders > 0 =>
             q.num_computed_tokens + 1 = q.num_tokens + q.num_output_placeholders
    BY <1>2, <1>8 DEF Progress
  <2>2. x = 0 => q.num_output_placeholders = 0
    BY <1>1, <1>4, <2>1
  <2>3. q1.num_output_placeholders = q.num_output_placeholders + x
    BY <1>6, <1>8
  <2>4. /\ o + x = q1.num_output_placeholders
        /\ q1.num_computed_tokens + 1 <= q1.num_tokens + q1.num_output_placeholders
        /\ q1.num_output_placeholders > 0 =>
             q1.num_computed_tokens + 1 = q1.num_tokens + q1.num_output_placeholders
    <3>1. PICK C, N, P : C = q.num_computed_tokens /\ N = q.num_tokens /\ P = q.num_output_placeholders
      OBVIOUS
    <3>2. /\ C \in Nat /\ N \in Nat /\ P \in Nat /\ o = P
          /\ q1.num_computed_tokens = C + n /\ q1.num_tokens = N
          /\ q1.num_output_placeholders = P + x
      BY <1>1, <1>6, <2>1, <2>3, <3>1
    <3>3. /\ x = 1 => C + n = N + P
          /\ x = 0 => C + n < N + P /\ P = 0
      BY <1>3, <1>4, <2>2, <3>1
    <3>4. CASE x = 1
      BY <3>2, <3>3, <3>4
    <3>5. CASE x = 0
      BY <3>2, <3>3, <3>5
    <3> QED BY <1>5, <3>4, <3>5
  <2>5. Progress(q1, o + x)
    BY <1>2, <1>6, <1>8, <2>4 DEF Progress, Waitable
  <2> QED BY <1>1, <1>3, <1>7, <2>1, <2>5
<1>9. CASE ~ async_scheduling
  <2>1. /\ q.num_output_placeholders = 0 /\ q.num_computed_tokens <= q.num_tokens
        /\ o = IF q.num_computed_tokens = q.num_tokens THEN 1 ELSE 0
    BY <1>2, <1>9 DEF Progress
  <2>2. o = 0
    BY <1>1, <1>2, <2>1
  <2>3. q1.num_output_placeholders = 0
    BY <1>6, <1>9, <2>1
  <2>4. /\ q1.num_computed_tokens <= q1.num_tokens
        /\ o + x = IF q1.num_computed_tokens = q1.num_tokens THEN 1 ELSE 0
    BY <1>1, <1>2, <1>3, <1>4, <1>5, <1>6, <2>1, <2>2
  <2>5. Progress(q1, o + x)
    BY <1>2, <1>6, <1>9, <2>3, <2>4 DEF Progress, Waitable
  <2> QED BY <1>1, <1>3, <1>7, <2>1, <2>2, <2>5
<1> QED BY <1>8, <1>9

LEMMA TokenIssue ==
  ASSUME QueueInv, TokenInv, Issue
  PROVE  TokenInv'
<1>0. /\ DOMAIN req = Reqs /\ \A r \in Reqs : DOMAIN req[r] = RequestFields
      /\ LoopInv /\ LoadInv /\ NumbersInv /\ StepInv /\ AccountedInv
  BY DEF QueueInv, Fields, TokenInv
<1> DEFINE s0 == loop.scheduled
           entry(r) == CHOOSE e \in ToSet(s0) : e[1] = r
           seq == sched_step_seq + (IF config.defer_block_free /\ s0 # << >> THEN 1 ELSE 0)
           step0 == [i \in DOMAIN s0 |->
                [request |-> s0[i][1], num |-> s0[i][2],
                 position |-> req[s0[i][1]].num_computed_tokens + s0[i][2] + 1,
                 samples |-> Samples(s0[i][1], s0[i][2]),
                 blocks |-> ToSet(m.req_to_blocks[s0[i][1]])]]
<1>1. /\ pc = "issue" /\ pc' = "idle" /\ loop' = NoLoop /\ UNCHANGED <<todo, load>>
      /\ in_flight' = Append(in_flight, step0)
      /\ req' = [r \in Reqs |->
             IF \A e \in ToSet(s0) : e[1] # r THEN req[r]
             ELSE [req[r] EXCEPT
                     !.num_computed_tokens = @ + entry(r)[2],
                     !.num_in_flight_tokens = @ + entry(r)[2],
                     !.last_sched_seq = seq,
                     !.prefilling = @ /\ ~ Samples(r, entry(r)[2]),
                     !.num_output_placeholders =
                       IF async_scheduling /\ Samples(r, entry(r)[2]) THEN @ + 1 ELSE @,
                     !.decode_wait =
                       IF async_scheduling /\ Samples(r, entry(r)[2]) THEN pp_size ELSE @]]
  BY DEF Issue
<1>2. PICK s, step : s = s0 /\ step = step0
  OBVIOUS
<1>3. /\ s \in Seq(Reqs \X (Nat \ {0})) /\ Len(in_flight) < batch_queue_size
      /\ \A i \in DOMAIN s : Takes(req[s[i][1]], s[i][2])
      /\ \A i, j \in DOMAIN s : s[i][1] = s[j][1] => i = j
  BY <1>0, <1>1, <1>2 DEF LoopInv
<1>4. \A i \in DOMAIN s : s[i] \in Reqs \X (Nat \ {0})
  BY <1>3
<1>5. \A i \in DOMAIN s : s[i][1] \in Reqs /\ s[i][2] \in Nat \ {0}
  BY <1>4
<1>6. DOMAIN step = DOMAIN s /\ \A i \in DOMAIN s :
        /\ step[i] = [request |-> s[i][1], num |-> s[i][2],
                      position |-> req[s[i][1]].num_computed_tokens + s[i][2] + 1,
                      samples |-> Samples(s[i][1], s[i][2]),
                      blocks |-> ToSet(m.req_to_blocks[s[i][1]])]
  BY <1>2
<1>7. \A i \in DOMAIN s :
        /\ step[i].request = s[i][1] /\ step[i].num = s[i][2]
        /\ step[i].position = req[s[i][1]].num_computed_tokens + s[i][2] + 1
        /\ step[i].samples = Samples(s[i][1], s[i][2])
  BY <1>6
\* Each request changes with its entry, or not at all.
<1>8. ASSUME NEW i \in DOMAIN s
      PROVE  Issued(req[s[i][1]], s[i][2], req'[s[i][1]])
  <2>1. PICK r, n : r = s[i][1] /\ n = s[i][2]
    OBVIOUS
  <2>2. s[i] \in ToSet(s) /\ \A e \in ToSet(s) : e[1] = r => e = s[i]
    BY <1>3, <2>1 DEF ToSet
  <2>3. entry(r) = s[i]
    BY <1>2, <2>1, <2>2
  <2>4. r \in Reqs /\ ~ \A e \in ToSet(s0) : e[1] # r
    BY <1>2, <1>5, <2>1, <2>2
  <2>5. entry(r)[2] = n
    BY <2>1, <2>3
  <2> HIDE DEF entry, s0, seq
  <2>6. req'[r] = [req[r] EXCEPT
                     !.num_computed_tokens = @ + n,
                     !.num_in_flight_tokens = @ + n,
                     !.last_sched_seq = seq,
                     !.prefilling = @ /\ ~ Samples(r, n),
                     !.num_output_placeholders = IF async_scheduling /\ Samples(r, n) THEN @ + 1 ELSE @,
                     !.decode_wait = IF async_scheduling /\ Samples(r, n) THEN pp_size ELSE @]
    BY <1>1, <2>4, <2>5
  <2>7. DOMAIN req[r] = RequestFields /\ req[r].num_output_placeholders \in Nat
    BY <1>0, <2>4 DEF NumbersInv, Numbers
  <2>8. /\ req'[r].status = req[r].status /\ req'[r].num_tokens = req[r].num_tokens
        /\ req'[r].num_stale_output_tokens = req[r].num_stale_output_tokens
        /\ req'[r].drop_stale_output = req[r].drop_stale_output
        /\ req'[r].num_computed_tokens = req[r].num_computed_tokens + n
        /\ req'[r].num_in_flight_tokens = req[r].num_in_flight_tokens + n
        /\ req'[r].num_output_placeholders =
             IF async_scheduling /\ Samples(r, n) THEN req[r].num_output_placeholders + 1
             ELSE req[r].num_output_placeholders
        /\ req'[r].decode_wait \in {req[r].decode_wait, pp_size}
    BY <2>6, <2>7 DEF RequestFields
  <2>9. Issued(req[r], n, req'[r])
    BY <2>7, <2>8 DEF Issued, Samples
  <2> QED BY <2>1, <2>9
<1>9. ASSUME NEW r \in Reqs, \A i \in DOMAIN s : s[i][1] # r
      PROVE  req'[r] = req[r]
  <2>1. \A e \in ToSet(s0) : e[1] # r
    BY <1>2, <1>9 DEF ToSet
  <2> HIDE DEF entry, s0, seq
  <2> QED BY <1>1, <2>1
<1> HIDE DEF entry, s0, seq, step0
<1>10. \A r \in Reqs : req'[r].status = req[r].status
  <2> SUFFICES ASSUME NEW r \in Reqs PROVE req'[r].status = req[r].status
    OBVIOUS
  <2>1. CASE \E i \in DOMAIN s : s[i][1] = r
    BY <1>8, <2>1 DEF Issued
  <2> QED BY <1>9, <2>1
<1>11. PICK B : in_flight \in Seq(Seq(EntryOf(B))) /\ todo \in Seq(EntryOf(B))
  BY <1>0 DEF StepInv
<1>12. PICK B1 : B1 = B \cup UNION {ToSet(m.req_to_blocks[r]) : r \in Reqs}
  OBVIOUS
<1>13. in_flight \in Seq(Seq(EntryOf(B1))) /\ todo \in Seq(EntryOf(B1))
  <2>1. EntryOf(B) \subseteq EntryOf(B1)
    BY <1>12 DEF EntryOf
  <2>2. PICK X, Y : X = EntryOf(B) /\ Y = EntryOf(B1)
    OBVIOUS
  <2>3. X \subseteq Y /\ Seq(X) \subseteq Seq(Y)
    BY <2>1, <2>2, SeqWider
  <2>4. PICK X2, Y2 : X2 = Seq(X) /\ Y2 = Seq(Y)
    OBVIOUS
  <2>5. X2 \subseteq Y2 /\ in_flight \in Seq(X2) /\ todo \in Seq(X)
    BY <1>11, <2>2, <2>3, <2>4
  <2>6. in_flight \in Seq(Y2) /\ todo \in Seq(Y)
    BY <2>3, <2>5, SeqWider
  <2> QED BY <2>2, <2>4, <2>6
<1>14. step \in Seq(EntryOf(B1))
  <2>1. ASSUME NEW i \in DOMAIN s PROVE step[i] \in EntryOf(B1)
    <3>1. PICK r, n, p, x, bs :
            /\ r = s[i][1] /\ n = s[i][2] /\ p = req[r].num_computed_tokens + n + 1
            /\ x = Samples(r, n) /\ bs = ToSet(m.req_to_blocks[r])
      OBVIOUS
    <3>2. step[i] = [request |-> r, num |-> n, position |-> p, samples |-> x, blocks |-> bs]
      BY <1>6, <3>1
    <3>3. r \in Reqs /\ n \in Nat \ {0} /\ req[r].num_computed_tokens \in Nat
      BY <1>0, <1>5, <3>1 DEF NumbersInv, Numbers
    <3>4. p \in Int
      BY <3>1, <3>3
    <3>5. x \in BOOLEAN
      BY <3>1 DEF Samples
    <3>6. bs \subseteq B1
      BY <1>12, <3>1, <3>3
    <3> QED BY <3>2, <3>3, <3>4, <3>5, <3>6 DEF EntryOf
  <2>2. DOMAIN s = 1 .. Len(s) /\ Len(s) \in Nat
    BY <1>3
  <2>3. step = [i \in 1 .. Len(s) |-> step[i]]
    BY <1>2, <1>6, <2>2 DEF step0
  <2>4. PICK Y : Y = EntryOf(B1)
    OBVIOUS
  <2>5. \A i \in 1 .. Len(s) : step[i] \in Y
    BY <2>1, <2>2, <2>4
  <2>6. step \in Seq(Y)
    BY <2>2, <2>3, <2>5
  <2> QED BY <2>4, <2>6
<1>15. OneEach(step)
  BY <1>3, <1>6, <1>7 DEF OneEach
<1>16. PICK U, U1 : U = in_flight /\ U1 = in_flight'
  OBVIOUS
<1>17. /\ U1 = Append(U, step) /\ Unprocessed = U /\ Unprocessed' = U1
  BY <1>1, <1>2, <1>16 DEF Unprocessed
<1>18. /\ U1 \in Seq(Seq(EntryOf(B1))) /\ Len(U1) = Len(U) + 1 /\ Len(U) \in Nat
       /\ U1[Len(U) + 1] = step /\ \A i \in 1 .. Len(U) : U1[i] = U[i]
  <2>1. PICK X : X = Seq(EntryOf(B1))
    OBVIOUS
  <2>2. U \in Seq(X) /\ step \in X
    BY <1>13, <1>14, <1>16, <2>1
  <2> QED BY <1>17, <2>1, <2>2, AppendIs
<1>19. StepInv'
  <2>1. \A z \in Seq(EntryOf(B)) : GoodStep(z) => GoodStep(z)'
    <3> SUFFICES ASSUME NEW z \in Seq(EntryOf(B)), GoodStep(z)
                 PROVE  OneEach(z) /\ \A j \in DOMAIN z : req'[z[j].request].status # "ABSENT"
      BY DEF GoodStep, OneEach
    <3>1. \A j \in DOMAIN z : z[j] \in EntryOf(B)
      OBVIOUS
    <3>2. \A j \in DOMAIN z : z[j].request \in Reqs
      BY <3>1 DEF EntryOf
    <3> QED BY <1>10, <3>2 DEF GoodStep
  <2>2. \A i \in DOMAIN U : OneEach(U[i]) /\ \A j \in DOMAIN U[i] : req'[U[i][j].request].status # "ABSENT"
    <3>1. \A i \in DOMAIN U : U[i] \in Seq(EntryOf(B)) /\ GoodStep(U[i])
      BY <1>0, <1>11, <1>16 DEF StepInv
    <3>2. \A z \in Seq(EntryOf(B)) : GoodStep(z) =>
            OneEach(z) /\ \A j \in DOMAIN z : req'[z[j].request].status # "ABSENT"
      BY <2>1 DEF GoodStep, OneEach
    <3> QED BY <3>1, <3>2
  <2>3. OneEach(step) /\ \A j \in DOMAIN step : req'[step[j].request].status # "ABSENT"
    <3>1. \A j \in DOMAIN s : req[s[j][1]].status = "RUNNING"
      BY <1>3 DEF Takes
    <3> QED BY <1>5, <1>6, <1>7, <1>10, <1>15, <3>1
  <2>4. \A i \in DOMAIN U1 : OneEach(U1[i]) /\ \A j \in DOMAIN U1[i] : req'[U1[i][j].request].status # "ABSENT"
    <3>1. DOMAIN U = 1 .. Len(U) /\ DOMAIN U1 = 1 .. (Len(U) + 1)
      BY <1>13, <1>16, <1>18
    <3>2. \A i \in 1 .. (Len(U) + 1) : i = Len(U) + 1 \/ i \in 1 .. Len(U)
      BY <1>18
    <3>3. ASSUME NEW i \in DOMAIN U1
          PROVE  OneEach(U1[i]) /\ \A j \in DOMAIN U1[i] : req'[U1[i][j].request].status # "ABSENT"
      <4>1. CASE i = Len(U) + 1
        <5>1. U1[i] = step
          BY <1>18, <4>1
        <5> QED BY <2>3, <5>1
      <4>2. CASE i \in 1 .. Len(U)
        <5>1. U1[i] = U[i] /\ i \in DOMAIN U
          BY <1>18, <3>1, <4>2
        <5> QED BY <2>2, <5>1
      <4> QED BY <3>1, <3>2, <4>1, <4>2
    <3> QED BY <3>3
  <2>5. \A i \in DOMAIN in_flight' : GoodStep(in_flight[i])'
    BY <1>16, <2>4 DEF GoodStep, OneEach
  <2>6. GoodStep(todo)'
    <3>1. todo \in Seq(EntryOf(B)) /\ GoodStep(todo)
      BY <1>0, <1>11 DEF StepInv
    <3>2. \A z \in Seq(EntryOf(B)) : GoodStep(z) =>
            OneEach(z) /\ \A j \in DOMAIN z : req'[z[j].request].status # "ABSENT"
      BY <2>1 DEF GoodStep, OneEach
    <3>3. OneEach(todo) /\ \A j \in DOMAIN todo : req'[todo[j].request].status # "ABSENT"
      BY <3>1, <3>2
    <3> QED BY <1>1, <3>3 DEF GoodStep, OneEach
  <2>7. Len(in_flight') <= batch_queue_size
    BY <1>3, <1>16, <1>18, ConstantFacts DEF batch_queue_size
  <2>8. in_flight' \in Seq(Seq(EntryOf(B1))) /\ todo' \in Seq(EntryOf(B1))
    BY <1>1, <1>13, <1>16, <1>18
  <2>9. (\E C : in_flight \in Seq(Seq(EntryOf(C))) /\ todo \in Seq(EntryOf(C)))'
    BY <2>8 DEF EntryOf
  <2> QED BY <1>1, <2>5, <2>6, <2>7, <2>9 DEF StepInv, batch_queue_size
<1>20. LoopInv'
  <2>1. /\ loop'.budget = 0 /\ loop'.num_new = 0 /\ loop'.scheduled = << >>
    BY <1>1 DEF NoLoop
  <2>2. << >> \in Seq(Reqs \X (Nat \ {0}))
    OBVIOUS
  <2>3. pc' = "idle" /\ loop'.budget \in Nat /\ loop'.num_new \in Nat
        /\ loop'.scheduled \in Seq(Reqs \X (Nat \ {0}))
    <3>1. pc' = "idle"
      BY <1>1
    <3> QED BY <2>1, <2>2, <3>1
  <2> QED BY <2>3 DEF LoopInv, batch_queue_size
<1>21. LoadInv'
  <2>1. \A q \in Reqs : Loading(q)' => Loading(q) /\ req'[q] = req[q]
    <3> SUFFICES ASSUME NEW q \in Reqs, Loading(q)' PROVE Loading(q) /\ req'[q] = req[q]
      OBVIOUS
    <3>1. Loading(q) /\ req[q].status # "RUNNING"
      BY <1>10 DEF Loading
    <3>2. \A i \in DOMAIN s : s[i][1] # q
      BY <1>3, <3>1 DEF Takes
    <3> QED BY <1>9, <3>1, <3>2
  <2> QED BY <1>0, <1>1, <2>1, LoadsKept
\* The counts of each request.
<1>22. ASSUME NEW r \in Known
       PROVE  Numbers(req'[r]) /\ Accounted(U1, r, req'[r])
  <2>1. PICK q, q1 : q = req[r] /\ q1 = req'[r]
    OBVIOUS
  <2>2. r \in Reqs /\ Numbers(q) /\ Accounted(U, r, q)
    BY <1>0, <1>17, <2>1 DEF Known, NumbersInv, AccountedInv
  <2>3. PICK N, S, D : N = q.num_tokens /\ S = q.num_stale_output_tokens /\ D = q.drop_stale_output
    OBVIOUS
  <2>4. PICK c, o : /\ Counts(U, r, N, S, D, c, o) /\ q.num_in_flight_tokens = c[Len(U)]
                    /\ S <= q.num_in_flight_tokens /\ Progress(q, o[Len(U)])
    BY <2>2, <2>3 DEF Accounted
  <2>5. N \in Nat /\ S \in Nat /\ D \in BOOLEAN /\ N < MaxLen(r)
    BY <2>2, <2>3 DEF Numbers, Accounted
  <2>6. o[Len(U)] \in Nat
    <3>1. o \in [0 .. Len(U) -> Nat] /\ Len(U) \in 0 .. Len(U)
      BY <1>18, <2>4 DEF Counts
    <3> QED BY <3>1
  <2>7. ASSUME NEW q2, q1 = q2, Numbers(q2), NEW n \in Nat, NumIn(step, r) = n,
               NEW x \in {0, 1}, (IF SamplesIn(step, r) THEN 1 ELSE 0) = x,
               \A j \in DOMAIN step : step[j].request = r /\ step[j].samples =>
                 step[j].position = N + o[Len(U)] + 1,
               q2.num_tokens = N, q2.num_stale_output_tokens = S, q2.drop_stale_output = D,
               q2.num_in_flight_tokens = q.num_in_flight_tokens + n, Progress(q2, o[Len(U)] + x)
        PROVE  Numbers(q1) /\ Accounted(U1, r, q1)
    <3>1. /\ U \in Seq(Seq(EntryOf(B1))) /\ S <= c[Len(U)]
      BY <1>13, <1>16, <2>4
    <3>2. PICK c1, o1 :
            /\ Counts(Append(U, step), r, N, S, D, c1, o1)
            /\ c1[Len(U) + 1] = c[Len(U)] + NumIn(step, r)
            /\ o1[Len(U) + 1] = o[Len(U)] + IF SamplesIn(step, r) THEN 1 ELSE 0
      BY <1>14, <1>15, <2>4, <2>5, <2>7, <3>1, CountsIssue
    <3>3. /\ Counts(U1, r, q2.num_tokens, q2.num_stale_output_tokens, q2.drop_stale_output, c1, o1)
          /\ q2.num_in_flight_tokens = c1[Len(U1)] /\ o1[Len(U1)] = o[Len(U)] + x
      BY <1>17, <1>18, <2>4, <2>7, <3>2
    <3>4. q2.num_stale_output_tokens <= q2.num_in_flight_tokens
      BY <2>2, <2>4, <2>5, <2>7 DEF Numbers
    <3>5. Progress(q2, o1[Len(U1)]) /\ q2.num_tokens < MaxLen(r)
      BY <2>5, <2>7, <3>3
    <3>6. Accounted(U1, r, q2)
      BY <3>3, <3>4, <3>5, Zenon DEF Accounted
    <3> QED BY <2>7, <3>6
  <2>8. CASE \A i \in DOMAIN s : s[i][1] # r
    <3>1. q1 = q
      BY <1>9, <2>1, <2>2, <2>8
    <3>2. \A j \in DOMAIN step : step[j].request # r
      BY <1>6, <1>7, <2>8
    <3>3. NumIn(step, r) = 0 /\ ~ SamplesIn(step, r)
      BY <3>2 DEF NumIn, SamplesIn
    <3>4. q.num_in_flight_tokens = q.num_in_flight_tokens + 0 /\ o[Len(U)] + 0 = o[Len(U)]
      BY <2>2, <2>6 DEF Numbers
    <3>5. (IF SamplesIn(step, r) THEN 1 ELSE 0) = 0 /\ Progress(q, o[Len(U)] + 0)
      BY <2>4, <3>3, <3>4
    <3> QED BY <2>1, <2>2, <2>3, <2>7, <3>1, <3>2, <3>3, <3>4, <3>5
  <2>9. CASE \E i \in DOMAIN s : s[i][1] = r
    <3>1. PICK i \in DOMAIN s : s[i][1] = r
      BY <2>9
    <3>2. PICK n : n = s[i][2]
      OBVIOUS
    <3>3. n \in Nat /\ n >= 1 /\ Takes(q, n) /\ Issued(q, n, q1)
      BY <1>3, <1>5, <1>8, <2>1, <3>1, <3>2
    <3>4. PICK x : x = IF q.num_computed_tokens + n >= q.num_tokens + q.num_output_placeholders
                       THEN 1 ELSE 0
      OBVIOUS
    <3>5. /\ x = 1 => q.num_computed_tokens + n + 1 = q.num_tokens + o[Len(U)] + 1
          /\ Progress(q1, o[Len(U)] + x) /\ Numbers(q1)
      BY <2>2, <2>4, <2>6, <3>3, <3>4, ProgressIssued
    <3>6. NumIn(step, r) = n
      BY <1>6, <1>7, <1>14, <1>15, <3>1, <3>2, NumInIs
    <3>7. step[i].samples <=> x = 1
      <4>1. step[i].samples = Samples(r, n)
        BY <1>7, <3>1, <3>2
      <4>2. Samples(r, n) <=> (q.num_computed_tokens + n >= q.num_tokens + q.num_output_placeholders)
        BY <2>1, Zenon DEF Samples
      <4>3. x = 1 <=> (q.num_computed_tokens + n >= q.num_tokens + q.num_output_placeholders)
        BY <3>4
      <4> QED BY <4>1, <4>2, <4>3, Zenon
    <3>8. \A j \in DOMAIN step : step[j].request = r => j = i
      BY <1>6, <1>7, <1>15, <3>1 DEF OneEach
    <3>9. (IF SamplesIn(step, r) THEN 1 ELSE 0) = x
      <4>1. SamplesIn(step, r) <=> step[i].samples
        BY <1>6, <1>7, <3>1, <3>8 DEF SamplesIn
      <4>2. x \in {0, 1}
        BY <3>4
      <4> QED BY <3>7, <4>1, <4>2
    <3>10. \A j \in DOMAIN step : step[j].request = r /\ step[j].samples =>
             step[j].position = N + o[Len(U)] + 1
      <4>1. step[i].position = q.num_computed_tokens + n + 1
        BY <1>7, <2>1, <3>1, <3>2
      <4> QED BY <2>3, <3>5, <3>7, <3>8, <4>1
    <3>11. /\ q1.num_tokens = N /\ q1.num_stale_output_tokens = S /\ q1.drop_stale_output = D
           /\ q1.num_in_flight_tokens = q.num_in_flight_tokens + n
      BY <2>3, <3>3 DEF Issued
    <3>12. x \in {0, 1}
      BY <3>4
    <3>13. n \in Nat /\ q1 = q1 /\ Numbers(q1) /\ Progress(q1, o[Len(U)] + x)
      BY <3>3, <3>5
    <3>14. Numbers(q1) /\ Accounted(U1, r, q1)
      BY <2>7, <3>6, <3>9, <3>10, <3>11, <3>12, <3>13, Zenon
    <3> QED BY <2>1, <3>14
  <2> QED BY <2>8, <2>9
<1>23. NumbersInv'
  <2> SUFFICES ASSUME NEW r \in Reqs PROVE Numbers(req'[r])
    BY DEF NumbersInv
  <2>1. CASE r \in Known
    BY <1>22, <2>1
  <2>2. CASE r \notin Known
    <3>1. \A i \in DOMAIN s : s[i][1] # r
      BY <1>3, <2>2 DEF Takes, Known
    <3> QED BY <1>0, <1>9, <3>1 DEF NumbersInv
  <2> QED BY <2>1, <2>2
<1>24. AccountedInv'
  <2> SUFFICES ASSUME NEW r \in Known' PROVE Accounted(U1, r, req'[r])
    BY <1>17 DEF AccountedInv
  <2>1. r \in Known
    BY <1>10 DEF Known
  <2> QED BY <1>22, <2>1
<1> QED BY <1>19, <1>20, <1>21, <1>23, <1>24 DEF TokenInv

-----------------------------------------------------------------------------
(* The tokens of every request.                                             *)

LEMMA TokenStutter ==
  ASSUME TokenInv, UNCHANGED vars
  PROVE  TokenInv'
<1>1. UNCHANGED <<running, req, in_flight, pc, loop, todo, load>>
  BY DEF vars
<1>2. LoopInv'
  BY <1>1 DEF TokenInv, LoopInv, Takes, batch_queue_size
<1>3. LoadInv'
  BY <1>1, LoadsKept DEF TokenInv, Loading
<1>4. \A r \in Reqs : SameCounters(req[r], req'[r]) /\ req'[r].decode_wait \in 0 .. pp_size
  BY <1>1 DEF TokenInv, NumbersInv, Numbers, SameCounters
<1> QED BY <1>1, <1>2, <1>3, <1>4, SameTokens

LEMMA TokenNext ==
  ASSUME QueueInv, TokenInv, Next
  PROVE  TokenInv'
<1>1. CASE EngineStep
  <2>1. ASSUME NEW r \in Reqs, UpdateLoadError(r)
        PROVE  TokenInv'
    <3>1. r \in Known
      BY <2>1 DEF UpdateLoadError, Invalid, Loading, Known
    <3> QED BY <2>1, <3>1, TokenFinish DEF UpdateLoadError
  <2>2. CASE \E r \in Reqs : UpdateLoadError(r) \/ UpdateLoadFinished(r)
    BY <2>1, <2>2, TokenCalmSteps
  <2> QED BY <1>1, <2>2, TokenScheduleSteps, TokenCalmSteps, TokenDrainDone, TokenUpdateBegin,
             TokenUpdateDone, TokenLandSteps, TokenResetPreempt, TokenRunningPreempt,
             TokenPromote, TokenAdmit, TokenLoad, TokenIssue
          DEF EngineStep
<1>2. CASE ClientStep
  <2>1. ASSUME NEW r \in Reqs, finish_requests(r)
        PROVE  TokenInv'
    BY <2>1, TokenFinish DEF finish_requests
  <2> QED BY <1>2, <2>1, TokenAdd, TokenCalmSteps DEF ClientStep
<1>3. CASE \E r \in Reqs : LoadArrives(r)
  BY <1>3, TokenCalmSteps
<1> QED BY <1>1, <1>2, <1>3 DEF Next

\* The inductive invariant of the tokens.
THEOREM SchedulerTokens == Spec => []TokenInv
<1>1. Init => TokenInv
  BY TokenInit
<1>2. QueueInv /\ TokenInv /\ [Next]_vars => TokenInv'
  BY TokenNext, TokenStutter
<1> QED BY <1>1, <1>2, SchedulerQueues, PTL DEF Spec

\* OutputInOrder of the scheduler's runs: update_from_output appends to a
\* request only the token of its next position, although steps issued before a
\* preemption or a reset are still in flight when the request runs again.
THEOREM OutputAlwaysInOrder == Spec => []OutputInOrder
<1>1. QueueInv /\ TokenInv => OutputInOrder
  <2> SUFFICES ASSUME QueueInv, TokenInv, pc = "update", todo # << >>, Delivers(Head(todo))
               PROVE  Head(todo).position = req[Head(todo).request].num_tokens + 1
    BY DEF OutputInOrder
  <2>1. PICK e, q : e = Head(todo) /\ q = req[e.request]
    OBVIOUS
  <2>2. PICK x, s : /\ x = IF Delivers(e) THEN 1 ELSE 0
                    /\ s = IF q.num_stale_output_tokens > 0
                           THEN q.num_stale_output_tokens - e.num ELSE q.num_stale_output_tokens
    OBVIOUS
  <2>3. e.request \in Known /\ x = 1
    BY <2>1, <2>2 DEF Delivers
  <2>4. Leaves(AfterFirst, e.request, e, q, x, s)
    BY <2>1, <2>2, <2>3, LandedCounts
  <2>5. e.position = q.num_tokens + 1
    BY <2>3, <2>4 DEF Leaves
  <2> QED BY <2>1, <2>5
<1> QED BY <1>1, SchedulerQueues, SchedulerTokens, PTL

\* InFlightAccounted of the scheduler's runs: num_in_flight_tokens is what the
\* unprocessed steps hold of the request, and num_stale_output_tokens no more
\* than that, so that the stale output drains with the steps that carry it.
THEOREM InFlightAlwaysAccounted == Spec => []InFlightAccounted
<1>1. TokenInv => InFlightAccounted
  <2> SUFFICES ASSUME TokenInv, NEW r \in Known
               PROVE  /\ req[r].num_in_flight_tokens = InFlight(r)[Len(Unprocessed)]
                      /\ req[r].num_stale_output_tokens <= req[r].num_in_flight_tokens
    BY DEF InFlightAccounted
  <2>1. StepInv /\ Accounted(Unprocessed, r, req[r])
    BY DEF TokenInv, AccountedInv
  <2>2. PICK B : Unprocessed \in Seq(Seq(EntryOf(B)))
    BY <2>1, UnprocessedAre
  <2>3. PICK c, o :
          /\ Counts(Unprocessed, r, req[r].num_tokens, req[r].num_stale_output_tokens,
                    req[r].drop_stale_output, c, o)
          /\ req[r].num_in_flight_tokens = c[Len(Unprocessed)]
          /\ req[r].num_stale_output_tokens <= req[r].num_in_flight_tokens
    BY <2>1 DEF Accounted
  <2>4. InFlight(r)[Len(Unprocessed)] = c[Len(Unprocessed)]
    BY <2>2, <2>3, CountsSum
  <2> QED BY <2>3, <2>4
<1> QED BY <1>1, SchedulerTokens, PTL

-----------------------------------------------------------------------------
(* The fences of the deferred frees.                                        *)

\* The steps of s that have tokens.
NumSteps(s) == Len(s) - Count(s, << >>)

LEMMA NumStepsAre ==
  ASSUME NEW X, NEW s \in Seq(X)
  PROVE  /\ NumSteps(s) \in Nat /\ NumSteps(s) <= Len(s)
         /\ (\A i \in DOMAIN s : s[i] = << >>) => NumSteps(s) = 0
<1> DEFINE P == {i \in DOMAIN s : s[i] = << >>}
<1>1. /\ DOMAIN s = 1 .. Len(s) /\ Len(s) \in Nat
      /\ IsFiniteSet(1 .. Len(s)) /\ Cardinality(1 .. Len(s)) = Len(s)
  <2>1. DOMAIN s = 1 .. Len(s) /\ Len(s) \in Nat
    OBVIOUS
  <2>2. PICK n \in Nat : n = Len(s)
    BY <2>1
  <2>3. IsFiniteSet(1 .. n) /\ Cardinality(1 .. n) = IF 1 > n THEN 0 ELSE n - 1 + 1
    BY FS_Interval
  <2>4. Cardinality(1 .. n) = n
    BY <2>3
  <2> QED BY <2>1, <2>2, <2>3, <2>4
<1>2. P \subseteq 1 .. Len(s)
  BY <1>1
<1>3. Cardinality(P) \in Nat /\ Cardinality(P) <= Len(s)
  <2> HIDE DEF P
  <2>1. IsFiniteSet(P) /\ Cardinality(P) <= Cardinality(1 .. Len(s))
    BY <1>1, <1>2, FS_Subset
  <2>2. Cardinality(P) \in Nat
    BY <2>1, FS_CardinalityType
  <2> QED BY <1>1, <2>1, <2>2
<1>4. (\A i \in DOMAIN s : s[i] = << >>) => Cardinality(P) = Len(s)
  <2>1. (\A i \in DOMAIN s : s[i] = << >>) => P = 1 .. Len(s)
    BY <1>1
  <2> HIDE DEF P
  <2> QED BY <1>1, <2>1
<1>5. Count(s, << >>) = Cardinality(P)
  BY DEF Count
<1> HIDE DEF P
<1> QED BY <1>1, <1>3, <1>4, <1>5 DEF NumSteps

LEMMA NumStepsLast ==
  ASSUME NEW X, NEW s \in Seq(X), NEW x \in X
  PROVE  NumSteps(Append(s, x)) = NumSteps(s) + (IF x = << >> THEN 0 ELSE 1)
<1>1. Len(s) \in Nat /\ Len(Append(s, x)) = Len(s) + 1
  OBVIOUS
<1>2. Count(s, << >>) \in Nat
  BY CountNat
<1>3. Count(Append(s, x), << >>) = Count(s, << >>) + (IF x = << >> THEN 1 ELSE 0)
  BY CountLast
<1> QED BY <1>1, <1>2, <1>3 DEF NumSteps

LEMMA NumStepsFirst ==
  ASSUME NEW X, NEW s \in Seq(X), s # << >>
  PROVE  NumSteps(s) = NumSteps(Tail(s)) + (IF Head(s) = << >> THEN 0 ELSE 1)
<1>1. PICK h, t : h = Head(s) /\ t = Tail(s)
  OBVIOUS
<1>2. h \in X /\ t \in Seq(X) /\ Len(t) \in Nat /\ Len(s) = Len(t) + 1
  BY <1>1
<1>3. s = <<h>> \o t
  <2>1. PICK u : u = <<h>> \o t
    OBVIOUS
  <2>2. u \in Seq(X) /\ Len(u) = Len(s)
        /\ \A i \in 1 .. Len(u) : u[i] = IF i = 1 THEN h ELSE t[i - 1]
    BY <1>2, <2>1
  <2>3. h = s[1] /\ \A i \in 1 .. Len(t) : t[i] = s[i + 1]
    BY <1>1, <1>2
  <2>4. ASSUME NEW i \in 1 .. Len(u) PROVE u[i] = s[i]
    <3>1. CASE i = 1
      BY <2>2, <2>3, <3>1
    <3>2. CASE i # 1
      <4>1. i - 1 \in 1 .. Len(t) /\ (i - 1) + 1 = i
        BY <1>2, <2>2, <3>2
      <4>2. t[i - 1] = s[(i - 1) + 1]
        BY <2>3, <4>1
      <4> QED BY <2>2, <3>2, <4>1, <4>2
    <3> QED BY <3>1, <3>2
  <2>5. u = s
    BY <2>2, <2>4, SeqEqual
  <2> QED BY <2>1, <2>5
<1>4. Count(<<h>> \o t, << >>) = Count(t, << >>) + (IF h = << >> THEN 1 ELSE 0)
  BY <1>2, CountFirst
<1>5. Count(t, << >>) \in Nat
  BY <1>2, CountNat
<1>6. Count(s, << >>) = Count(t, << >>) + (IF h = << >> THEN 1 ELSE 0)
  BY <1>3, <1>4
<1> QED BY <1>1, <1>2, <1>5, <1>6 DEF NumSteps

\* The fences of the frees d are between lo and n, in their order.
Fenced(d, lo, n) ==
  /\ \E X : d \in Seq(X)
  /\ \A i \in DOMAIN d : d[i][1] \in Nat /\ d[i][1] >= lo /\ d[i][1] <= n
  /\ \A i, j \in DOMAIN d : i <= j => d[i][1] <= d[j][1]

LEMMA FencedAppend ==
  ASSUME NEW d, NEW lo \in Nat, NEW n \in Nat, Fenced(d, lo, n), lo <= n, NEW x
  PROVE  Fenced(Append(d, <<n, x>>), lo, n)
<1>1. PICK X : d \in Seq(X)
  BY DEF Fenced
<1>2. PICK Y, e : e = <<n, x>> /\ Y = X \cup {e}
  OBVIOUS
<1>3. d \in Seq(Y) /\ e \in Y /\ e[1] = n
  BY <1>1, <1>2, SeqWider
<1>4. PICK d1 : d1 = Append(d, e)
  OBVIOUS
<1>5. /\ d1 \in Seq(Y) /\ Len(d1) = Len(d) + 1 /\ Len(d) \in Nat /\ d1[Len(d) + 1] = e
      /\ \A i \in 1 .. Len(d) : d1[i] = d[i]
  BY <1>3, <1>4, AppendIs
<1>6. /\ DOMAIN d = 1 .. Len(d) /\ DOMAIN d1 = 1 .. (Len(d) + 1)
      /\ \A i \in 1 .. (Len(d) + 1) : i = Len(d) + 1 \/ i \in 1 .. Len(d)
  BY <1>3, <1>5
<1>7. \A i \in DOMAIN d1 : d1[i][1] \in Nat /\ d1[i][1] >= lo /\ d1[i][1] <= n
  BY <1>3, <1>5, <1>6 DEF Fenced
<1>8. ASSUME NEW i \in DOMAIN d1, NEW j \in DOMAIN d1, i <= j PROVE d1[i][1] <= d1[j][1]
  <2>1. CASE j = Len(d) + 1
    BY <1>3, <1>5, <1>7, <2>1
  <2>2. CASE j \in 1 .. Len(d)
    <3>1. i \in 1 .. Len(d)
      BY <1>5, <1>6, <1>8, <2>2
    <3> QED BY <1>5, <1>6, <1>8, <2>2, <3>1 DEF Fenced
  <2> QED BY <1>6, <2>1, <2>2
<1>9. Fenced(d1, lo, n)
  BY <1>5, <1>7, <1>8 DEF Fenced
<1> QED BY <1>2, <1>4, <1>9

LEMMA FencedTail ==
  ASSUME NEW d, NEW lo, NEW n, Fenced(d, lo, n), d # << >>
  PROVE  Fenced(Tail(d), lo, n)
<1>1. PICK X : d \in Seq(X)
  BY DEF Fenced
<1>2. PICK t : t = Tail(d)
  OBVIOUS
<1>3. t \in Seq(X) /\ \A j \in DOMAIN t : j \in Nat /\ j + 1 \in DOMAIN d /\ t[j] = d[j + 1]
  BY <1>1, <1>2, TailIs
<1>4. \A i, j \in DOMAIN t : i <= j => i + 1 <= j + 1
  BY <1>3
<1>5. Fenced(t, lo, n)
  BY <1>3, <1>4 DEF Fenced
<1> QED BY <1>2, <1>5

LEMMA FencedShift ==
  ASSUME NEW d, NEW n \in Nat, Fenced(d, 1, n)
  PROVE  Fenced([i \in DOMAIN d |-> <<d[i][1] - 1, d[i][2]>>], 0, n - 1)
<1>1. PICK X : d \in Seq(X)
  BY DEF Fenced
<1>2. PICK d1 : d1 = [i \in DOMAIN d |-> <<d[i][1] - 1, d[i][2]>>]
  OBVIOUS
<1>3. DOMAIN d1 = DOMAIN d /\ \A i \in DOMAIN d : d1[i] = <<d[i][1] - 1, d[i][2]>>
  BY <1>2
<1>4. \A i \in DOMAIN d : d1[i][1] = d[i][1] - 1
  BY <1>3
<1>5. \E Y : d1 \in Seq(Y)
  <2>1. PICK Y : Y = {d1[i] : i \in DOMAIN d}
    OBVIOUS
  <2>2. DOMAIN d = 1 .. Len(d) /\ Len(d) \in Nat
    BY <1>1
  <2>3. d1 = [i \in 1 .. Len(d) |-> d1[i]] /\ \A i \in 1 .. Len(d) : d1[i] \in Y
    BY <1>2, <1>3, <2>1, <2>2
  <2>4. d1 \in Seq(Y)
    BY <2>2, <2>3
  <2> QED BY <2>4
<1>6. \A i \in DOMAIN d : d[i][1] \in Nat /\ d[i][1] >= 1 /\ d[i][1] <= n
  BY DEF Fenced
<1>7. \A i \in DOMAIN d1 : d1[i][1] \in Nat /\ d1[i][1] >= 0 /\ d1[i][1] <= n - 1
  BY <1>3, <1>4, <1>6
<1>8. \A i, j \in DOMAIN d1 : i <= j => d1[i][1] <= d1[j][1]
  BY <1>3, <1>4, <1>6 DEF Fenced
<1>9. Fenced(d1, 0, n - 1)
  BY <1>5, <1>7, <1>8 DEF Fenced
<1> QED BY <1>2, <1>9

LEMMA FencedBounds ==
  ASSUME NEW d, NEW n \in Nat
  PROVE  /\ Fenced(d, 1, n) => Fenced(d, 0, n)
         /\ Fenced(d, 0, n) /\ ~ (d # << >> /\ d[1][1] <= 0) => Fenced(d, 1, n)
         /\ Fenced(d, 1, 0) => d = << >>
<1>1. Fenced(d, 1, n) => Fenced(d, 0, n)
  BY DEF Fenced
<1>2. ASSUME Fenced(d, 0, n), ~ (d # << >> /\ d[1][1] <= 0)
      PROVE  Fenced(d, 1, n)
  <2>1. PICK X : d \in Seq(X)
    BY <1>2 DEF Fenced
  <2>2. \A i \in DOMAIN d : d # << >> /\ 1 \in DOMAIN d /\ 1 <= i
    BY <2>1
  <2>3. \A i \in DOMAIN d : d[i][1] \in Nat /\ d[1][1] \in Nat /\ d[1][1] <= d[i][1]
    BY <1>2, <2>2 DEF Fenced
  <2>4. \A i \in DOMAIN d : d[i][1] >= 1
    BY <1>2, <2>2, <2>3
  <2> QED BY <1>2, <2>4 DEF Fenced
<1>3. Fenced(d, 1, 0) => d = << >>
  <2> SUFFICES ASSUME Fenced(d, 1, 0), d # << >> PROVE FALSE
    OBVIOUS
  <2>1. PICK X : d \in Seq(X)
    BY DEF Fenced
  <2>2. 1 \in DOMAIN d
    BY <2>1
  <2>3. d[1][1] \in Nat /\ d[1][1] >= 1 /\ d[1][1] <= 0
    BY <2>2 DEF Fenced
  <2> QED BY <2>3
<1> QED BY <1>1, <1>2, <1>3

\* The steps that are not being processed.
Later == IF pc \in {"drain", "update"} THEN Tail(in_flight) ELSE in_flight

\* sched_step_seq counts the steps with tokens that are in flight, no request
\* was scheduled in a later one, and no deferred free waits for a later one. One
\* that waits for none is about to be drained.
FenceInv ==
  /\ sched_step_seq = IF config.defer_block_free THEN NumSteps(Later) ELSE 0
  /\ \A r \in Reqs : req[r].last_sched_seq \in Nat /\ req[r].last_sched_seq <= sched_step_seq
  /\ Fenced(deferred_frees, IF pc = "drain" /\ todo # << >> THEN 0 ELSE 1, sched_step_seq)

LEMMA StepNumber ==
  ASSUME StepInv, FenceInv
  PROVE  /\ sched_step_seq \in Nat /\ sched_step_seq <= Len(in_flight)
         /\ \E X : in_flight \in Seq(X) /\ Later \in Seq(X)
<1>1. PICK B : in_flight \in Seq(Seq(EntryOf(B)))
  BY DEF StepInv
<1>2. PICK X : X = Seq(EntryOf(B))
  OBVIOUS
<1>3. in_flight \in Seq(X)
  BY <1>1, <1>2
<1>4. Later \in Seq(X) /\ Len(Later) \in Nat /\ Len(Later) <= Len(in_flight) /\ Len(in_flight) \in Nat
  <2>1. CASE pc \in {"drain", "update"}
    <3>1. in_flight # << >>
      BY <2>1 DEF StepInv
    <3> QED BY <1>3, <2>1, <3>1 DEF Later
  <2>2. CASE pc \notin {"drain", "update"}
    BY <1>3, <2>2 DEF Later
  <2> QED BY <2>1, <2>2
<1>5. NumSteps(Later) \in Nat /\ NumSteps(Later) <= Len(Later)
  BY <1>4, NumStepsAre
<1>6. sched_step_seq \in Nat /\ sched_step_seq <= Len(in_flight)
  BY <1>4, <1>5 DEF FenceInv
<1> QED BY <1>3, <1>4, <1>6

\* The frees of a step that is not about the steps in flight.
Defers(d, d1) ==
  \/ d1 = d
  \/ \E r \in Reqs : /\ req[r].last_sched_seq # 0
                     /\ \E x : d1 = Append(d, <<sched_step_seq, x>>)

LEMMA FenceKept ==
  ASSUME StepInv, FenceInv, UNCHANGED <<in_flight, sched_step_seq, config>>,
         pc # "drain", pc' # "drain", pc' = "update" <=> pc = "update",
         \A r \in Reqs : req'[r].last_sched_seq \in {0, req[r].last_sched_seq},
         Defers(deferred_frees, deferred_frees')
  PROVE  FenceInv'
<1>1. Later' = Later
  BY DEF Later
<1>2. sched_step_seq \in Nat
  BY StepNumber
<1>3. Fenced(deferred_frees, 1, sched_step_seq)
  BY DEF FenceInv
<1>4. Fenced(deferred_frees', 1, sched_step_seq)
  <2>1. CASE deferred_frees' = deferred_frees
    BY <1>3, <2>1
  <2>2. CASE deferred_frees' # deferred_frees
    <3>1. PICK r \in Reqs : /\ req[r].last_sched_seq # 0
                            /\ \E x : deferred_frees' = Append(deferred_frees, <<sched_step_seq, x>>)
      BY <2>2 DEF Defers
    <3>2. PICK x : deferred_frees' = Append(deferred_frees, <<sched_step_seq, x>>)
      BY <3>1
    <3>3. 1 <= sched_step_seq
      BY <1>2, <3>1 DEF FenceInv
    <3>4. Fenced(Append(deferred_frees, <<sched_step_seq, x>>), 1, sched_step_seq)
      BY <1>2, <1>3, <3>3, FencedAppend
    <3> QED BY <3>2, <3>4
  <2> QED BY <2>1, <2>2
<1>5. sched_step_seq' = IF config'.defer_block_free THEN NumSteps(Later') ELSE 0
  BY <1>1 DEF FenceInv
<1>6. \A r \in Reqs : req'[r].last_sched_seq \in Nat /\ req'[r].last_sched_seq <= sched_step_seq'
  BY <1>2 DEF FenceInv
<1>7. Fenced(deferred_frees', IF pc' = "drain" /\ todo' # << >> THEN 0 ELSE 1, sched_step_seq')
  BY <1>4
<1> HIDE DEF Later
<1> QED BY <1>5, <1>6, <1>7 DEF FenceInv, NumSteps, Count, Fenced

\* _free_request_blocks defers the free only of a request of a step in flight.
LEMMA FreeDefers ==
  ASSUME NEW k, NEW r \in Reqs, FreeRequestBlocks(k, r)
  PROVE  Defers(deferred_frees, deferred_frees')
<1>1. CASE CanFreeNow(r)
  BY <1>1 DEF FreeRequestBlocks, Defers
<1>2. CASE ~ CanFreeNow(r)
  <2>1. req[r].last_sched_seq # 0
    BY <1>2 DEF CanFreeNow
  <2>2. \/ deferred_frees' = deferred_frees
        \/ deferred_frees' = Append(deferred_frees, <<sched_step_seq, k.req_to_blocks[r]>>)
    BY <1>2 DEF FreeRequestBlocks
  <2> QED BY <2>1, <2>2 DEF Defers
<1> QED BY <1>1, <1>2

LEMMA FenceOtherSteps ==
  ASSUME QueueInv, StepInv, FenceInv, UNCHANGED config,
         \/ ScheduleBegin \/ RunningSelect \/ RunningDone \/ RunningAllocate \/ WaitingSkip
         \/ WaitingPromote \/ WaitingAdmit \/ WaitingLoad \/ WaitingDone
         \/ UpdateNoOutput \/ UpdateDeliver \/ ResetEnd \/ ResetRaised
         \/ \E r \in Reqs : add_request(r) \/ LoadArrives(r)
         \/ \E reset_running \in BOOLEAN : ResetBegin(reset_running)
  PROVE  FenceInv'
<1>0. DOMAIN req = Reqs /\ \A r \in Reqs : DOMAIN req[r] = RequestFields
  BY DEF QueueInv, Fields
<1> DEFINE Same == \A r \in Reqs : req'[r].last_sched_seq \in {0, req[r].last_sched_seq}
           Calm == /\ UNCHANGED <<in_flight, sched_step_seq, deferred_frees>>
                   /\ pc # "drain" /\ pc' # "drain" /\ (pc' = "update" <=> pc = "update")
<1>1. ASSUME Calm, Same PROVE FenceInv'
  BY <1>1, FenceKept DEF Defers
<1>2. ASSUME req' = req PROVE Same
  BY <1>2
<1>3. CASE RunningSelect \/ RunningDone \/ RunningAllocate \/ WaitingSkip \/ WaitingDone
  <2>1. req' = req /\ Calm
    BY <1>3 DEF RunningSelect, RunningDone, RunningAllocate, WaitingSkip, WaitingDone
  <2> QED BY <1>1, <1>2, <2>1
<1>4. CASE \/ ResetEnd \/ ResetRaised \/ \E r \in Reqs : LoadArrives(r)
           \/ \E reset_running \in BOOLEAN : ResetBegin(reset_running)
  <2>1. req' = req /\ Calm
    BY <1>4 DEF ResetEnd, ResetRaised, LoadArrives, ResetBegin, BetweenSteps
  <2> QED BY <1>1, <1>2, <2>1
<1>5. CASE ScheduleBegin
  <2>1. Calm /\ req' = [r \in Reqs |-> [req[r] EXCEPT !.decode_wait = AtLeast0(@ - 1)]]
    BY <1>5 DEF ScheduleBegin
  <2>2. Same
    BY <1>0, <2>1 DEF RequestFields
  <2> QED BY <1>1, <2>1, <2>2
<1>6. CASE WaitingPromote
  <2>1. Calm
    BY <1>6 DEF WaitingPromote
  <2>2. PICK r, x, y : req' = [req EXCEPT ![r].status = x, ![r].num_computed_tokens = y]
    BY <1>6 DEF WaitingPromote
  <2>3. Same
    BY <1>0, <2>2 DEF RequestFields
  <2> QED BY <1>1, <2>1, <2>3
<1>7. CASE WaitingAdmit
  <2>1. Calm
    BY <1>7 DEF WaitingAdmit
  <2>2. PICK r, y, z : req' = [req EXCEPT ![r].status = "RUNNING", ![r].num_computed_tokens = y,
                                          ![r].prefilling = @ \/ z]
    <3>1. PICK r, hits :
            LET computed == NumComputed(r, hits)
                num_new == Chunk(req[r].num_tokens - computed)
            IN req' = [req EXCEPT
                    ![r].status = "RUNNING", ![r].num_computed_tokens = computed,
                    ![r].prefilling = @ \/ computed + num_new < req[r].num_tokens]
      BY <1>7 DEF WaitingAdmit
    <3> QED BY <3>1, Zenon
  <2>3. Same
    BY <1>0, <2>2 DEF RequestFields
  <2> QED BY <1>1, <2>1, <2>3
<1>8. CASE WaitingLoad
  <2>1. Calm
    BY <1>8 DEF WaitingLoad
  <2>2. PICK r, y : req' = [req EXCEPT ![r].status = "WAITING_FOR_REMOTE_KVS",
                                       ![r].num_computed_tokens = y, ![r].prefilling = TRUE]
    BY <1>8 DEF WaitingLoad
  <2>3. Same
    BY <1>0, <2>2 DEF RequestFields
  <2> QED BY <1>1, <2>1, <2>3
<1>9. CASE UpdateNoOutput \/ UpdateDeliver
  <2>1. Calm
    BY <1>9 DEF UpdateNoOutput, UpdateDeliver
  <2>2. PICK e : req' \in {req, [req EXCEPT ![e.request] = Landed(e)],
                           [req EXCEPT ![e.request] = WithOutput(e)]}
    BY <1>9 DEF UpdateNoOutput, UpdateDeliver
  <2>3. e.request \in Reqs => /\ Landed(e).last_sched_seq = req[e.request].last_sched_seq
                              /\ WithOutput(e).last_sched_seq = req[e.request].last_sched_seq
    BY <1>0 DEF WithOutput, Landed, RequestFields
  <2>4. Same
    BY <1>0, <2>2, <2>3
  <2> QED BY <1>1, <2>1, <2>4
<1>10. ASSUME NEW r \in Reqs, add_request(r) PROVE FenceInv'
  <2>1. Calm /\ req' = [req EXCEPT ![r] = NewRequest(r)]
    BY <1>10 DEF add_request, BetweenSteps
  <2>2. Same
    BY <1>0, <2>1 DEF NewRequest
  <2> QED BY <1>1, <2>1, <2>2
<1> QED BY <1>3, <1>4, <1>5, <1>6, <1>7, <1>8, <1>9, <1>10

LEMMA FenceFreeSteps ==
  ASSUME QueueInv, TokenInv, FenceInv, UNCHANGED config,
         \/ RunningPreempt \/ ResetPreempt \/ UpdateStop
         \/ \E r \in Reqs : finish_requests(r) \/ UpdateLoadError(r) \/ UpdateLoadFinished(r)
  PROVE  FenceInv'
<1>0. StepInv /\ DOMAIN req = Reqs /\ \A r \in Reqs : DOMAIN req[r] = RequestFields
  BY DEF QueueInv, Fields, TokenInv
<1> DEFINE Same == \A r \in Reqs : req'[r].last_sched_seq \in {0, req[r].last_sched_seq}
           Calm == /\ UNCHANGED <<in_flight, sched_step_seq>>
                   /\ pc # "drain" /\ pc' # "drain" /\ (pc' = "update" <=> pc = "update")
<1>1. ASSUME Calm, Same, Defers(deferred_frees, deferred_frees') PROVE FenceInv'
  BY <1>0, <1>1, FenceKept
<1>2. ASSUME NEW v \in Reqs, NEW drop, PreemptRequest(v, drop)
      PROVE  Same /\ Defers(deferred_frees, deferred_frees')
  <2>1. req' = [req EXCEPT ![v] = Preempted(v, drop)] /\ FreeRequestBlocks(m, v)
    BY <1>2 DEF PreemptRequest
  <2>2. Preempted(v, drop).last_sched_seq = req[v].last_sched_seq
    BY <1>0 DEF Preempted, RequestFields
  <2>3. Same
    BY <1>0, <2>1, <2>2
  <2> QED BY <2>1, <2>3, FreeDefers
<1>3. ASSUME NEW r \in Reqs, FinishRequest(r)
      PROVE  Same /\ Defers(deferred_frees, deferred_frees')
  <2>1. req' = [req EXCEPT ![r].status = "FINISHED", ![r].prefilling = FALSE]
    BY <1>3 DEF FinishRequest
  <2>2. Same
    BY <1>0, <2>1 DEF RequestFields
  <2>3. deferred_frees' = deferred_frees \/ FreeRequestBlocks(m, r)
    BY <1>3 DEF FinishRequest
  <2>4. Defers(deferred_frees, deferred_frees')
    BY <2>3, FreeDefers DEF Defers
  <2> QED BY <2>2, <2>4
<1>4. CASE RunningPreempt
  <2>1. Calm /\ PreemptRequest(Victim, requires_kv_delivery)
    BY <1>4 DEF RunningPreempt
  <2>2. Victim \in Reqs
    <3>1. running \in Seq(Reqs) /\ running # << >>
      <4>1. running \in Seq(Reqs) /\ loop.request \in ToSet(running)
        BY <1>4 DEF QueueInv, Queues, RunningPreempt, Cursor
      <4> QED BY <4>1 DEF ToSet
    <3>2. Victim \in ToSet(running)
      BY <3>1, VictimIn
    <3> QED BY <3>1, <3>2 DEF ToSet
  <2> QED BY <1>1, <1>2, <2>1, <2>2
<1>5. CASE ResetPreempt
  <2>1. Calm /\ PreemptRequest(Last(running), TRUE) /\ running # << >>
    BY <1>5 DEF ResetPreempt
  <2>2. running \in Seq(Reqs)
    BY DEF QueueInv, Queues
  <2>3. Last(running) \in Reqs
    BY <2>1, <2>2 DEF Last
  <2> QED BY <1>1, <1>2, <2>1, <2>3
<1>6. CASE UpdateStop
  <2>1. PICK e : e = Head(todo)
    OBVIOUS
  <2>2. /\ Calm /\ Delivers(e) /\ FreeRequestBlocks(CachedAfter(e), e.request)
        /\ req' = [req EXCEPT ![e.request] =
                     [WithOutput(e) EXCEPT !.status = "FINISHED", !.prefilling = FALSE]]
    BY <1>6, <2>1 DEF UpdateStop
  <2>3. e.request \in Reqs
    BY <2>2 DEF Delivers, Known
  <2>4. [WithOutput(e) EXCEPT !.status = "FINISHED", !.prefilling = FALSE].last_sched_seq
          = req[e.request].last_sched_seq
    BY <1>0, <2>3 DEF WithOutput, Landed, RequestFields
  <2>5. Same
    BY <1>0, <2>2, <2>3, <2>4
  <2>6. Defers(deferred_frees, deferred_frees')
    BY <2>2, <2>3, FreeDefers
  <2> QED BY <1>1, <2>2, <2>5, <2>6
<1>7. ASSUME NEW r \in Reqs, finish_requests(r) \/ UpdateLoadError(r)
      PROVE  FenceInv'
  <2>1. Calm /\ FinishRequest(r)
    BY <1>7 DEF finish_requests, UpdateLoadError
  <2> QED BY <1>1, <1>3, <2>1
<1>8. ASSUME NEW r \in Reqs, UpdateLoadFinished(r)
      PROVE  FenceInv'
  <2>1. Calm /\ req' = req
    BY <1>8 DEF UpdateLoadFinished
  <2>2. deferred_frees' = deferred_frees \/ FreeRequestBlocks(m, r)
    BY <1>8 DEF UpdateLoadFinished
  <2>3. Defers(deferred_frees, deferred_frees')
    BY <2>2, FreeDefers DEF Defers
  <2>4. Same
    BY <2>1
  <2> QED BY <1>1, <2>1, <2>3, <2>4
<1> QED BY <1>4, <1>5, <1>6, <1>7, <1>8

LEMMA FenceIssue ==
  ASSUME QueueInv, TokenInv, FenceInv, UNCHANGED config, Issue
  PROVE  FenceInv'
<1>0. StepInv /\ StepInv' /\ LoopInv /\ DOMAIN req = Reqs /\ \A r \in Reqs : DOMAIN req[r] = RequestFields
  BY TokenIssue DEF QueueInv, Fields, TokenInv
<1> DEFINE step0 == [i \in DOMAIN loop.scheduled |->
                [request |-> loop.scheduled[i][1], num |-> loop.scheduled[i][2],
                 position |-> req[loop.scheduled[i][1]].num_computed_tokens + loop.scheduled[i][2] + 1,
                 samples |-> Samples(loop.scheduled[i][1], loop.scheduled[i][2]),
                 blocks |-> ToSet(m.req_to_blocks[loop.scheduled[i][1]])]]
<1>1. /\ pc = "issue" /\ pc' = "idle" /\ UNCHANGED deferred_frees
      /\ in_flight' = Append(in_flight, step0)
      /\ sched_step_seq' = sched_step_seq
           + (IF config.defer_block_free /\ loop.scheduled # << >> THEN 1 ELSE 0)
  BY DEF Issue
<1>2. PICK step : step = step0
  OBVIOUS
<1>3. step = << >> <=> loop.scheduled = << >>
  <2>1. loop.scheduled \in Seq(Reqs \X (Nat \ {0}))
    BY <1>0 DEF LoopInv
  <2>2. DOMAIN step = DOMAIN loop.scheduled
    BY <1>2
  <2>3. loop.scheduled = << >> <=> DOMAIN loop.scheduled = {}
    <3>1. PICK X, u : X = Reqs \X (Nat \ {0}) /\ u = loop.scheduled
      OBVIOUS
    <3>2. u \in Seq(X)
      BY <2>1, <3>1
    <3>3. u = << >> <=> DOMAIN u = {}
      <4> HIDE DEF step0
      <4>1. u # << >> => 1 \in DOMAIN u
        BY <3>2
      <4> QED BY <4>1
    <3> QED BY <3>1, <3>3
  <2>4. DOMAIN step = {} => step = << >>
    BY <1>2
  <2>5. step = << >> => DOMAIN step = {}
    OBVIOUS
  <2> QED BY <2>2, <2>3, <2>4, <2>5
<1> HIDE DEF step0
<1>4. PICK X : in_flight \in Seq(X)
  BY <1>0, StepNumber
<1>5. PICK Y : Y = X \cup {step}
  OBVIOUS
<1>6. in_flight \in Seq(Y) /\ step \in Y
  BY <1>4, <1>5, SeqWider
<1>7. /\ Later = in_flight /\ Later' = Append(in_flight, step)
  BY <1>1, <1>2 DEF Later
<1>8. NumSteps(Append(in_flight, step)) = NumSteps(in_flight) + (IF step = << >> THEN 0 ELSE 1)
  BY <1>6, NumStepsLast
<1>9. NumSteps(in_flight) \in Nat
  BY <1>6, NumStepsAre
<1>10. sched_step_seq = IF config.defer_block_free THEN NumSteps(in_flight) ELSE 0
  BY <1>7 DEF FenceInv
<1>11. /\ sched_step_seq' = IF config.defer_block_free THEN NumSteps(Append(in_flight, step)) ELSE 0
       /\ sched_step_seq \in Nat /\ sched_step_seq' \in Nat /\ sched_step_seq <= sched_step_seq'
  BY <1>1, <1>3, <1>8, <1>9, <1>10
<1>12. ASSUME NEW r \in Reqs
       PROVE  req'[r].last_sched_seq \in Nat /\ req'[r].last_sched_seq <= sched_step_seq'
  <2>1. req'[r].last_sched_seq \in {req[r].last_sched_seq, sched_step_seq'}
    <3>1. PICK f, g : req'[r] = IF f THEN req[r] ELSE
               [req[r] EXCEPT !.num_computed_tokens = @ + g, !.num_in_flight_tokens = @ + g,
                              !.last_sched_seq = sched_step_seq',
                              !.prefilling = @ /\ ~ Samples(r, g),
                              !.num_output_placeholders =
                                IF async_scheduling /\ Samples(r, g) THEN @ + 1 ELSE @,
                              !.decode_wait =
                                IF async_scheduling /\ Samples(r, g) THEN pp_size ELSE @]
      BY DEF Issue
    <3> QED BY <1>0, <3>1 DEF RequestFields
  <2>2. req[r].last_sched_seq \in Nat /\ req[r].last_sched_seq <= sched_step_seq
    BY DEF FenceInv
  <2> QED BY <1>11, <2>1, <2>2
<1>13. Fenced(deferred_frees, 1, sched_step_seq')
  <2>1. Fenced(deferred_frees, 1, sched_step_seq)
    BY <1>1 DEF FenceInv
  <2>2. PICK a, b : a = sched_step_seq /\ b = sched_step_seq'
    OBVIOUS
  <2>3. Fenced(deferred_frees, 1, b)
    BY <1>11, <2>1, <2>2 DEF Fenced
  <2> QED BY <2>2, <2>3
<1>14. sched_step_seq' = IF config'.defer_block_free THEN NumSteps(Later') ELSE 0
  BY <1>7, <1>11
<1>15. Fenced(deferred_frees', IF pc' = "drain" /\ todo' # << >> THEN 0 ELSE 1, sched_step_seq')
  BY <1>1, <1>13
<1> HIDE DEF Later
<1> QED BY <1>12, <1>14, <1>15 DEF FenceInv, NumSteps, Count, Fenced

LEMMA FenceUpdateBegin ==
  ASSUME QueueInv, TokenInv, FenceInv, UNCHANGED config, UpdateBegin
  PROVE  FenceInv'
<1>0. StepInv /\ DOMAIN req = Reqs /\ \A r \in Reqs : DOMAIN req[r] = RequestFields
  BY DEF QueueInv, Fields, TokenInv
<1>1. /\ pc = "idle" /\ pc' = "drain" /\ in_flight # << >> /\ UNCHANGED in_flight
      /\ todo' = Head(in_flight)
  BY DEF UpdateBegin
<1>2. PICK X : in_flight \in Seq(X)
  BY <1>0, StepNumber
<1>3. PICK h, t : h = Head(in_flight) /\ t = Tail(in_flight)
  OBVIOUS
<1>4. Later = in_flight /\ Later' = t /\ t \in Seq(X) /\ todo' = h
  BY <1>1, <1>2, <1>3 DEF Later
<1>5. NumSteps(in_flight) = NumSteps(t) + (IF h = << >> THEN 0 ELSE 1) /\ NumSteps(t) \in Nat
  BY <1>1, <1>2, <1>3, <1>4, NumStepsFirst, NumStepsAre
<1>6. /\ sched_step_seq \in Nat /\ Fenced(deferred_frees, 1, sched_step_seq)
      /\ \A r \in Reqs : req[r].last_sched_seq \in Nat /\ req[r].last_sched_seq <= sched_step_seq
  BY <1>0, <1>1, StepNumber DEF FenceInv
<1>7. sched_step_seq = IF config.defer_block_free THEN NumSteps(in_flight) ELSE 0
  BY <1>4 DEF FenceInv
<1>8. CASE config.defer_block_free /\ h # << >>
  <2>1. /\ sched_step_seq' = sched_step_seq - 1
        /\ req' = [r \in Reqs |-> [req[r] EXCEPT !.last_sched_seq = AtLeast0(@ - 1)]]
        /\ deferred_frees' = [i \in DOMAIN deferred_frees |->
                                <<deferred_frees[i][1] - 1, deferred_frees[i][2]>>]
    BY <1>3, <1>8 DEF UpdateBegin, StepProcessed
  <2>2. sched_step_seq' = NumSteps(t) /\ sched_step_seq' \in Nat
    BY <1>5, <1>6, <1>7, <1>8, <2>1
  <2>3. Fenced(deferred_frees', 0, sched_step_seq')
    BY <1>6, <2>1, FencedShift
  <2>4. \A r \in Reqs : req'[r].last_sched_seq = AtLeast0(req[r].last_sched_seq - 1)
    BY <1>0, <2>1 DEF RequestFields
  <2>5. \A r \in Reqs : req'[r].last_sched_seq \in Nat /\ req'[r].last_sched_seq <= sched_step_seq'
    <3>1. PICK a, b : a = sched_step_seq /\ b = sched_step_seq'
      OBVIOUS
    <3>2. a \in Nat /\ b = a - 1 /\ b \in Nat
      BY <1>6, <2>1, <2>2, <3>1
    <3>3. ASSUME NEW r \in Reqs
          PROVE  req'[r].last_sched_seq \in Nat /\ req'[r].last_sched_seq <= b
      <4>1. PICK l : l = req[r].last_sched_seq
        OBVIOUS
      <4>2. l \in Nat /\ l <= a /\ req'[r].last_sched_seq = AtLeast0(l - 1)
        BY <1>6, <2>4, <3>1, <4>1
      <4> QED BY <3>2, <4>2 DEF AtLeast0
    <3> QED BY <3>1, <3>3
  <2>6. sched_step_seq' = IF config'.defer_block_free THEN NumSteps(Later') ELSE 0
    BY <1>4, <1>8, <2>2
  <2>7. Fenced(deferred_frees', IF pc' = "drain" /\ todo' # << >> THEN 0 ELSE 1, sched_step_seq')
    BY <1>1, <1>4, <1>8, <2>3
  <2> HIDE DEF Later
  <2> QED BY <2>5, <2>6, <2>7 DEF FenceInv, NumSteps, Count, Fenced
<1>9. CASE ~ (config.defer_block_free /\ h # << >>)
  <2>1. UNCHANGED <<sched_step_seq, req, deferred_frees>>
    BY <1>3, <1>9 DEF UpdateBegin
  <2>2. sched_step_seq' = IF config'.defer_block_free THEN NumSteps(Later') ELSE 0
    BY <1>4, <1>5, <1>7, <1>9, <2>1
  <2>3. Fenced(deferred_frees, 0, sched_step_seq)
    BY <1>6, FencedBounds
  <2>4. Fenced(deferred_frees', IF pc' = "drain" /\ todo' # << >> THEN 0 ELSE 1, sched_step_seq')
    BY <1>6, <2>1, <2>3
  <2>5. \A r \in Reqs : req'[r].last_sched_seq \in Nat /\ req'[r].last_sched_seq <= sched_step_seq'
    BY <1>6, <2>1
  <2> HIDE DEF Later
  <2> QED BY <2>2, <2>4, <2>5 DEF FenceInv, NumSteps, Count, Fenced
<1> QED BY <1>8, <1>9

LEMMA FenceDrainSteps ==
  ASSUME QueueInv, TokenInv, FenceInv, UNCHANGED config, DrainOne \/ DrainDone \/ UpdateDone
  PROVE  FenceInv'
<1>0. StepInv /\ DOMAIN req = Reqs /\ \A r \in Reqs : DOMAIN req[r] = RequestFields
  BY DEF QueueInv, Fields, TokenInv
<1>1. sched_step_seq \in Nat /\ UNCHANGED sched_step_seq /\ Later' = Later
  <2>1. UNCHANGED sched_step_seq
    BY DEF DrainOne, DrainDone, UpdateDone
  <2>2. CASE DrainOne \/ DrainDone
    <3>1. /\ pc \in {"drain", "update"} /\ pc' \in {"drain", "update"} /\ UNCHANGED in_flight
      BY <2>2 DEF DrainOne, DrainDone
    <3> QED BY <1>0, <2>1, <3>1, StepNumber DEF Later
  <2>3. CASE UpdateDone
    <3>1. pc = "update" /\ pc' = "idle" /\ in_flight' = Tail(in_flight)
      BY <2>3 DEF UpdateDone
    <3> QED BY <1>0, <2>1, <3>1, StepNumber DEF Later
  <2> QED BY <2>2, <2>3
<1>2. \A r \in Reqs : req'[r].last_sched_seq = req[r].last_sched_seq
  <2>1. CASE DrainOne \/ UpdateDone
    <3>1. req' = req
      BY <2>1 DEF DrainOne, UpdateDone
    <3> QED BY <3>1
  <2>2. CASE DrainDone
    <3>1. req' = [r \in Reqs |-> IF Invalid(r)
                            THEN [req[r] EXCEPT !.num_computed_tokens = ValidTokens(r)]
                            ELSE req[r]]
      BY <2>2 DEF DrainDone
    <3> QED BY <1>0, <3>1 DEF RequestFields
  <2> QED BY <2>1, <2>2
<1>3. Fenced(deferred_frees', IF pc' = "drain" /\ todo' # << >> THEN 0 ELSE 1, sched_step_seq')
  <2>1. Fenced(deferred_frees, IF pc = "drain" /\ todo # << >> THEN 0 ELSE 1, sched_step_seq)
    BY DEF FenceInv
  <2>2. CASE DrainOne
    <3>1. /\ UNCHANGED <<pc, todo>> /\ deferred_frees # << >>
          /\ deferred_frees' = Tail(deferred_frees)
      BY <2>2 DEF DrainOne, FenceReached
    <3> QED BY <1>1, <2>1, <3>1, FencedTail
  <2>3. CASE DrainDone
    <3>1. /\ pc = "drain" /\ pc' = "update" /\ UNCHANGED deferred_frees
          /\ ~ (todo # << >> /\ FenceReached)
      BY <2>3 DEF DrainDone
    <3>2. Fenced(deferred_frees, 1, sched_step_seq)
      BY <1>1, <2>1, <3>1, FencedBounds DEF FenceReached
    <3> QED BY <1>1, <3>1, <3>2
  <2>4. CASE UpdateDone
    <3>1. pc = "update" /\ pc' = "idle" /\ UNCHANGED deferred_frees
      BY <2>4 DEF UpdateDone
    <3> QED BY <1>1, <2>1, <3>1
  <2> QED BY <2>2, <2>3, <2>4
<1>4. sched_step_seq' = IF config'.defer_block_free THEN NumSteps(Later') ELSE 0
  BY <1>1 DEF FenceInv
<1>5. \A r \in Reqs : req'[r].last_sched_seq \in Nat /\ req'[r].last_sched_seq <= sched_step_seq'
  BY <1>1, <1>2 DEF FenceInv
<1> HIDE DEF Later
<1> QED BY <1>3, <1>4, <1>5 DEF FenceInv, NumSteps, Count, Fenced

LEMMA FenceInit == Init => FenceInv
<1> SUFFICES ASSUME Init PROVE FenceInv
  OBVIOUS
<1>1. /\ in_flight = << >> /\ sched_step_seq = 0 /\ deferred_frees = << >> /\ pc = "idle"
      /\ \A r \in Reqs : req[r].last_sched_seq = 0
  BY DEF Init, NewRequest
<1>2. NumSteps(<< >>) = 0
  BY CountEmpty DEF NumSteps
<1>3. Fenced(<< >>, 1, 0)
  <2>1. << >> \in Seq({})
    OBVIOUS
  <2> QED BY <2>1 DEF Fenced
<1> QED BY <1>1, <1>2, <1>3 DEF FenceInv, Later

LEMMA FenceStutter ==
  ASSUME FenceInv, UNCHANGED vars
  PROVE  FenceInv'
<1>1. UNCHANGED <<config, req, in_flight, sched_step_seq, deferred_frees, pc, todo>>
  BY DEF vars
<1> QED BY <1>1 DEF FenceInv, Later, NumSteps, Count, Fenced

\* The inductive invariant of the fences of deferred frees.
THEOREM SchedulerFences == Spec => []FenceInv
<1>1. Init => FenceInv
  BY FenceInit
<1>2. QueueInv /\ TokenInv /\ FenceInv /\ [Next]_vars => FenceInv'
  <2> SUFFICES ASSUME QueueInv, TokenInv, FenceInv, Next PROVE FenceInv'
    BY FenceStutter
  <2>1. StepInv /\ UNCHANGED config
    BY DEF TokenInv, Next
  <2> QED BY <2>1, FenceOtherSteps, FenceFreeSteps, FenceIssue, FenceUpdateBegin, FenceDrainSteps
          DEF Next, EngineStep, ClientStep
<1> QED BY <1>1, <1>2, SchedulerQueues, SchedulerTokens, PTL DEF Spec

\* NoStrandedFrees of the scheduler's runs: when the steps that are left in
\* flight have no tokens, so that none of them drains anything, no request's
\* blocks wait in deferred_frees.
THEOREM FreesNeverStranded == Spec => []NoStrandedFrees
<1>1. TokenInv /\ FenceInv => NoStrandedFrees
  <2> SUFFICES ASSUME TokenInv, FenceInv, pc = "idle",
                      \A i \in DOMAIN in_flight : in_flight[i] = << >>
               PROVE  deferred_frees = << >>
    BY DEF NoStrandedFrees
  <2>1. PICK X : in_flight \in Seq(X)
    BY StepNumber DEF TokenInv
  <2>2. NumSteps(in_flight) = 0
    BY <2>1, NumStepsAre
  <2>3. sched_step_seq = 0 /\ Fenced(deferred_frees, 1, sched_step_seq)
    BY <2>2 DEF FenceInv, Later
  <2> QED BY <2>3, FencedBounds
<1> QED BY <1>1, SchedulerTokens, SchedulerFences, PTL
=============================================================================
