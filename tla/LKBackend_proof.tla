-------------------------- MODULE LKBackend_proof --------------------------
(***************************************************************************)
(* The safety of the work-stealing pool, for every number of threads, nodes *)
(* and tasks. The inductive invariant says exactly which ids have been      *)
(* computed: those handed out to the threads, without those that are left   *)
(* in the range of some thread.                                             *)
(***************************************************************************)
EXTENDS LKBackend, FiniteSetTheorems, TLAPS

-----------------------------------------------------------------------------
(* How a job is cut into ranges.                                            *)

\* The first i - 1 of the n even parts of total.
PartsBefore(total, n, i) ==
  (total \div n) * (i - 1) + (IF i - 1 <= total % n THEN i - 1 ELSE total % n)

\* Division with remainder, as the code's / and % compute it.
LEMMA DivMod ==
  ASSUME NEW total \in Nat, NEW n \in Nat \ {0}
  PROVE  /\ total \div n \in Nat /\ total % n \in 0 .. n - 1
         /\ (total \div n) * n + (total % n) = total
<1>1. /\ total \div n \in Int /\ total % n \in 0 .. n - 1
      /\ total = n * (total \div n) + (total % n)
  BY SMT
<1>2. total \div n >= 0
  BY SMT
<1> QED BY <1>1, <1>2, SMT

\* The parts follow each other, and together they are the total.
LEMMA PartsAddUp ==
  ASSUME NEW total \in Nat, NEW n \in Nat \ {0}
  PROVE  /\ PartsBefore(total, n, 1) = 0
         /\ PartsBefore(total, n, n + 1) = total
         /\ \A i \in 1 .. n :
              /\ Part(total, n, i) \in Nat
              /\ PartsBefore(total, n, i) \in Nat
              /\ PartsBefore(total, n, i) + Part(total, n, i)
                   = PartsBefore(total, n, i + 1)
              /\ PartsBefore(total, n, i + 1) <= total
<1> DEFINE q == total \div n
           r == total % n
<1>1. /\ q \in Nat /\ r \in 0 .. n - 1 /\ q * n + r = total
  BY DivMod
<1> HIDE DEF q, r
<1>2. \A i \in Nat : q * i \in Nat /\ q * (i + 1) = q * i + q
  BY <1>1, SMT
<1>3. q * 0 = 0
  BY <1>1, SMT
<1>4. /\ PartsBefore(total, n, 1) = 0
      /\ PartsBefore(total, n, n + 1) = total
  BY <1>1, <1>3 DEF PartsBefore, q, r
<1>5. ASSUME NEW i \in 1 .. n
      PROVE  /\ Part(total, n, i) \in Nat
             /\ PartsBefore(total, n, i) \in Nat
             /\ PartsBefore(total, n, i) + Part(total, n, i)
                  = PartsBefore(total, n, i + 1)
             /\ PartsBefore(total, n, i + 1) <= total
  <2>1. /\ Part(total, n, i) = q + (IF i <= r THEN 1 ELSE 0)
        /\ PartsBefore(total, n, i) = q * (i - 1) + (IF i - 1 <= r THEN i - 1 ELSE r)
        /\ PartsBefore(total, n, i + 1) = q * i + (IF i <= r THEN i ELSE r)
    BY <1>1 DEF Part, PartsBefore, q, r
  <2>2. q * (i - 1) \in Nat /\ q * i = q * (i - 1) + q
    BY <1>2
  <2>3. q * i <= q * n
    <3>1. n - i \in Nat
      OBVIOUS
    <3>2. q * (n - i) \in Nat
      BY <1>2, <3>1
    <3>3. q * n = q * i + q * (n - i)
      BY <1>1, SMT
    <3>4. q * i \in Int /\ q * n \in Int
      BY <1>1
    <3> QED BY <3>2, <3>3, <3>4
  <2>4. q * i \in Int /\ q * n \in Int
    BY <1>1
  <2> QED BY <1>1, <2>1, <2>2, <2>3, <2>4
<1> QED BY <1>4, <1>5

\* Where a thread comes among the threads of its node, and what follows.
LEMMA Positions ==
  ASSUME NEW t \in Threads
  PROVE  /\ Cardinality(NodeThreads(Node[t])) \in Nat \ {0}
         /\ Position(t) \in 1 .. Cardinality(NodeThreads(Node[t]))
         /\ t = 1 => Node[t] = 1 /\ Position(t) = 1
         /\ t = max_threads => /\ Node[t] = numa_nodes
                               /\ Position(t) = Cardinality(NodeThreads(Node[t]))
         /\ t < max_threads /\ Node[t + 1] = Node[t] => Position(t + 1) = Position(t) + 1
         /\ t < max_threads /\ Node[t + 1] # Node[t] =>
              /\ Node[t + 1] = Node[t] + 1
              /\ Position(t) = Cardinality(NodeThreads(Node[t]))
              /\ Position(t + 1) = 1
<1> DEFINE all == NodeThreads(Node[t])
           upto == {u \in NodeThreads(Node[t]) : u <= t}
<1>1. /\ max_threads \in Nat \ {0} /\ numa_nodes \in Nat \ {0}
      /\ \A u \in Threads : Node[u] \in 1 .. numa_nodes
      /\ \A u, v \in Threads : u < v => Node[u] <= Node[v]
      /\ \A n \in 1 .. numa_nodes : \E u \in Threads : Node[u] = n
  BY BackendAssumption
<1>2. Threads \subseteq Int /\ t \in Int /\ 1 <= t /\ t <= max_threads
  BY <1>1 DEF Threads
<1>3. IsFiniteSet(Threads)
  BY <1>1, FS_Interval DEF Threads
<1>4. IsFiniteSet(all) /\ Cardinality(all) \in Nat
  BY <1>3, FS_Subset, FS_CardinalityType DEF NodeThreads
<1>5. IsFiniteSet(upto) /\ Cardinality(upto) <= Cardinality(all) /\ Cardinality(upto) \in Nat
  <2>1. upto \subseteq all
    OBVIOUS
  <2> QED BY <1>4, <2>1, FS_Subset, FS_CardinalityType
<1>6. t \in upto
  BY <1>2 DEF NodeThreads
<1>7. Cardinality(upto) # 0
  BY <1>5, <1>6, FS_EmptySet
<1>8. /\ Cardinality(all) \in Nat \ {0}
      /\ Position(t) \in 1 .. Cardinality(all)
  BY <1>4, <1>5, <1>7 DEF Position
<1>9. ASSUME t = 1 PROVE Node[t] = 1 /\ Position(t) = 1
  <2>1. PICK u \in Threads : Node[u] = 1
    BY <1>1
  <2>2. Node[t] = 1
    BY <1>1, <1>2, <1>9, <2>1 DEF Threads
  <2>3. upto = {t}
    BY <1>1, <1>2, <1>6, <1>9 DEF NodeThreads, Threads
  <2> QED BY <2>2, <2>3, FS_Singleton DEF Position
<1>10. ASSUME t = max_threads
       PROVE  Node[t] = numa_nodes /\ Position(t) = Cardinality(all)
  <2>1. PICK u \in Threads : Node[u] = numa_nodes
    BY <1>1
  <2>2. Node[t] = numa_nodes
    BY <1>1, <1>2, <1>10, <2>1 DEF Threads
  <2>3. upto = all
    BY <1>1, <1>2, <1>10 DEF NodeThreads, Threads
  <2> QED BY <2>2, <2>3 DEF Position
<1>11. ASSUME t < max_threads PROVE t + 1 \in Threads
  BY <1>1, <1>2, <1>11 DEF Threads
<1>12. ASSUME t < max_threads, Node[t + 1] = Node[t]
       PROVE  Position(t + 1) = Position(t) + 1
  <2>1. {u \in NodeThreads(Node[t + 1]) : u <= t + 1} = upto \cup {t + 1}
    <3>1. \A u \in Threads : (Node[u] = Node[t + 1] /\ u <= t + 1)
                             <=> ((Node[u] = Node[t] /\ u <= t) \/ u = t + 1)
      BY <1>2, <1>12
    <3> QED BY <1>11, <1>12, <3>1 DEF NodeThreads
  <2>2. t + 1 \notin upto
    BY <1>2
  <2> QED BY <1>5, <2>1, <2>2, FS_AddElement DEF Position
<1>13. ASSUME t < max_threads, Node[t + 1] # Node[t]
       PROVE  /\ Node[t + 1] = Node[t] + 1
              /\ Position(t) = Cardinality(all)
              /\ Position(t + 1) = 1
  <2>1. Node[t] < Node[t + 1]
    BY <1>1, <1>2, <1>11, <1>13
  <2>2. \A u \in Threads : (u <= t => Node[u] <= Node[t])
                           /\ (u > t => Node[t + 1] <= Node[u])
    BY <1>1, <1>2, <1>11, <1>13 DEF Threads
  <2>3. Node[t + 1] = Node[t] + 1
    <3>1. SUFFICES ASSUME Node[t] + 1 < Node[t + 1] PROVE FALSE
      BY <1>1, <1>11, <1>13, <2>1
    <3>2. PICK u \in Threads : Node[u] = Node[t] + 1
      BY <1>1, <1>11, <1>13, <3>1
    <3> QED BY <1>1, <1>2, <1>11, <1>13, <2>2, <3>1, <3>2
  <2>4. upto = all
    <3>1. \A u \in Threads : Node[u] = Node[t] => u <= t
      BY <1>1, <1>2, <1>11, <1>13, <2>1, <2>2
    <3> QED BY <3>1 DEF NodeThreads
  <2>5. {u \in NodeThreads(Node[t + 1]) : u <= t + 1} = {t + 1}
    <3>1. \A u \in Threads : (Node[u] = Node[t + 1] /\ u <= t + 1) <=> u = t + 1
      BY <1>1, <1>2, <1>11, <1>13, <2>1, <2>2
    <3> QED BY <1>11, <1>13, <3>1 DEF NodeThreads
  <2> QED BY <2>3, <2>4, <2>5, FS_Singleton DEF Position
<1> QED BY <1>8, <1>9, <1>10, <1>12, <1>13

\* The ids handed out to the threads before t in a job of do_work(nth), k being
\* 0, or do_k_work_stealing_job(k, nth).
BeforeThread(k, nth, t) ==
  IF k = 0 THEN PartsBefore(nth, max_threads, t)
  ELSE PartsBefore(nth, numa_nodes, Node[t]) * k
       + PartsBefore(Part(nth, numa_nodes, Node[t]) * k,
                     Cardinality(NodeThreads(Node[t])), Position(t))

\* Nothing is handed out before the first thread.
LEMMA BeforeFirst ==
  ASSUME NEW k \in Nat, NEW nth \in Nat
  PROVE  1 \in Threads /\ BeforeThread(k, nth, 1) = 0
<1>1. max_threads \in Nat \ {0} /\ numa_nodes \in Nat \ {0} /\ 1 \in Threads
  BY BackendAssumption DEF Threads
<1>2. /\ Node[1] = 1 /\ Position(1) = 1
      /\ Cardinality(NodeThreads(Node[1])) \in Nat \ {0}
  BY <1>1, Positions
<1>3. /\ PartsBefore(nth, max_threads, 1) = 0
      /\ PartsBefore(nth, numa_nodes, 1) = 0
      /\ Part(nth, numa_nodes, 1) \in Nat
  <2>1. 1 \in 1 .. numa_nodes
    BY <1>1
  <2> QED BY <1>1, <2>1, PartsAddUp
<1> DEFINE tot == Part(nth, numa_nodes, 1) * k
           c == Cardinality(NodeThreads(Node[1]))
<1>4. tot \in Nat
  BY <1>3
<1>5. PartsBefore(tot, c, 1) = 0
  <2> HIDE DEF tot, c
  <2>1. c \in Nat \ {0}
    BY <1>2 DEF c
  <2> QED BY <1>4, <2>1, PartsAddUp
<1>6. PartsBefore(nth, numa_nodes, 1) * k = 0
  BY <1>3
<1>7. BeforeThread(k, nth, 1)
        = IF k = 0 THEN PartsBefore(nth, max_threads, 1)
          ELSE PartsBefore(nth, numa_nodes, 1) * k + PartsBefore(tot, c, 1)
  BY <1>2 DEF BeforeThread
<1> HIDE DEF tot, c
<1> QED BY <1>1, <1>3, <1>5, <1>6, <1>7

\* The shares of the threads, one after the other, are the whole job.
LEMMA SharesAddUp ==
  ASSUME job \in [k : Nat, nth : Nat, next : Nat], NEW t \in Threads
  PROVE  /\ Share(t) \in Nat
         /\ BeforeThread(job.k, job.nth, t) \in Nat
         /\ BeforeThread(job.k, job.nth, t) + Share(t) <= JobSize(job.k, job.nth)
         /\ t < max_threads =>
              BeforeThread(job.k, job.nth, t) + Share(t)
                = BeforeThread(job.k, job.nth, t + 1)
         /\ t = max_threads =>
              BeforeThread(job.k, job.nth, t) + Share(t) = JobSize(job.k, job.nth)
<1>1. /\ job.k \in Nat /\ job.nth \in Nat
      /\ max_threads \in Nat \ {0} /\ numa_nodes \in Nat \ {0}
      /\ t \in 1 .. max_threads /\ Node[t] \in 1 .. numa_nodes
      /\ t < max_threads => t + 1 \in Threads /\ Node[t + 1] \in 1 .. numa_nodes
  BY BackendAssumption DEF Threads
<1>2. CASE job.k = 0
  <2>1. /\ Share(t) = Part(job.nth, max_threads, t)
        /\ JobSize(job.k, job.nth) = job.nth
        /\ \A u : BeforeThread(job.k, job.nth, u) = PartsBefore(job.nth, max_threads, u)
    BY <1>2 DEF Share, JobSize, BeforeThread
  <2> QED BY <1>1, <2>1, PartsAddUp
<1>3. CASE job.k # 0
  <2> DEFINE k == job.k
             nth == job.nth
             m == Node[t]
             c == Cardinality(NodeThreads(m))
             p == Position(t)
             tot == Part(nth, numa_nodes, m) * k
             done == PartsBefore(nth, numa_nodes, m) * k
  <2>1. c \in Nat \ {0} /\ p \in 1 .. c
    BY Positions
  <2>2. /\ Part(nth, numa_nodes, m) \in Nat
        /\ PartsBefore(nth, numa_nodes, m) \in Nat
        /\ PartsBefore(nth, numa_nodes, m) + Part(nth, numa_nodes, m)
             = PartsBefore(nth, numa_nodes, m + 1)
        /\ PartsBefore(nth, numa_nodes, m + 1) <= nth
    BY <1>1, PartsAddUp
  <2>3. tot \in Nat /\ done \in Nat
    BY <1>1, <2>2
  <2>4. /\ done + tot = PartsBefore(nth, numa_nodes, m + 1) * k
        /\ done + tot <= nth * k
    <3> DEFINE a == PartsBefore(nth, numa_nodes, m)
               b == Part(nth, numa_nodes, m)
    <3>1. a \in Nat /\ b \in Nat /\ a + b <= nth /\ k \in Nat /\ nth \in Nat
          /\ a + b = PartsBefore(nth, numa_nodes, m + 1)
      BY <1>1, <2>2
    <3> HIDE DEF a, b, k, nth, m
    <3>2. a * k + b * k = (a + b) * k
      BY <3>1, SMT
    <3>3. (a + b) * k <= nth * k
      BY <3>1, SMT
    <3> QED BY <3>1, <3>2, <3>3 DEF a, b
  <2>5. /\ Part(tot, c, p) \in Nat
        /\ PartsBefore(tot, c, p) \in Nat
        /\ PartsBefore(tot, c, p) + Part(tot, c, p) = PartsBefore(tot, c, p + 1)
        /\ PartsBefore(tot, c, p + 1) <= tot
        /\ PartsBefore(tot, c, 1) = 0
        /\ PartsBefore(tot, c, c + 1) = tot
    <3> HIDE DEF tot, c, p
    <3> QED BY <2>1, <2>3, PartsAddUp
  <2>6. /\ Share(t) = Part(tot, c, p)
        /\ BeforeThread(k, nth, t) = done + PartsBefore(tot, c, p)
        /\ JobSize(k, nth) = nth * k
    BY <1>1, <1>3 DEF Share, BeforeThread, JobSize
  <2>7. /\ Share(t) \in Nat /\ BeforeThread(k, nth, t) \in Nat
        /\ BeforeThread(k, nth, t) + Share(t) = done + PartsBefore(tot, c, p + 1)
    <3> HIDE DEF tot, c, p, done, k, nth, m
    <3> QED BY <2>3, <2>5, <2>6
  <2>8. BeforeThread(k, nth, t) + Share(t) <= JobSize(k, nth)
    <3>1. PartsBefore(tot, c, p + 1) \in Int /\ nth * k \in Int
      BY <1>1, <2>5
    <3> HIDE DEF tot, c, p, done, k, nth, m
    <3> QED BY <2>3, <2>4, <2>5, <2>6, <2>7, <3>1
  <2>9. ASSUME t < max_threads
         PROVE  BeforeThread(k, nth, t) + Share(t) = BeforeThread(k, nth, t + 1)
    <3>1. CASE Node[t + 1] = Node[t]
      <4>1. Position(t + 1) = p + 1
        BY <2>9, <3>1, Positions
      <4>2. BeforeThread(k, nth, t + 1) = done + PartsBefore(tot, c, p + 1)
        BY <1>3, <3>1, <4>1 DEF BeforeThread
      <4> QED BY <2>7, <4>2
    <3>2. CASE Node[t + 1] # Node[t]
      <4>1. Node[t + 1] = m + 1 /\ p = c /\ Position(t + 1) = 1
        BY <2>9, <3>2, Positions
      <4> DEFINE c2 == Cardinality(NodeThreads(Node[t + 1]))
                 tot2 == Part(nth, numa_nodes, Node[t + 1]) * k
      <4>2. c2 \in Nat \ {0}
        BY <1>1, <2>9, Positions
      <4>3. tot2 \in Nat
        <5>1. Part(nth, numa_nodes, Node[t + 1]) \in Nat
          BY <1>1, <2>9, PartsAddUp
        <5> QED BY <1>1, <5>1
      <4>4. PartsBefore(tot2, c2, 1) = 0
        <5> HIDE DEF tot2, c2
        <5> QED BY <4>2, <4>3, PartsAddUp
      <4>5. BeforeThread(k, nth, t + 1)
              = PartsBefore(nth, numa_nodes, m + 1) * k + PartsBefore(tot2, c2, 1)
        BY <1>3, <4>1 DEF BeforeThread
      <4>6. BeforeThread(k, nth, t + 1) = done + tot
        <5>1. PartsBefore(nth, numa_nodes, m + 1) * k = done + tot /\ done + tot \in Int
          BY <2>3, <2>4
        <5> HIDE DEF tot2, c2, tot, done, k, nth, m
        <5> QED BY <4>4, <4>5, <5>1
      <4>7. PartsBefore(tot, c, p + 1) = tot
        BY <2>5, <4>1
      <4> QED BY <2>7, <4>6, <4>7
    <3> QED BY <3>1, <3>2
  <2>10. ASSUME t = max_threads
         PROVE  BeforeThread(k, nth, t) + Share(t) = JobSize(k, nth)
    <3>1. m = numa_nodes /\ p = c
      BY <2>10, Positions
    <3>2. PartsBefore(nth, numa_nodes, m + 1) = nth
      BY <1>1, <3>1, PartsAddUp
    <3>3. done + tot = nth * k
      BY <2>4, <3>2
    <3>4. PartsBefore(tot, c, p + 1) = tot
      BY <2>5, <3>1
    <3> QED BY <2>6, <2>7, <3>3, <3>4
  <2> QED BY <2>7, <2>8, <2>9, <2>10
<1> QED BY <1>2, <1>3

-----------------------------------------------------------------------------
(* The inductive invariant.                                                 *)

\* The types; the caller's index is that of a thread while it uses it.
Types ==
  /\ TypeOK
  /\ caller.pc \in {"assign", "wait", "fetch", "run"} => caller.i \in Threads

\* The caller has set t to work, and has not yet waited for it.
Awaited(t) ==
  \/ caller.pc = "assign" /\ t < caller.i
  \/ caller.pc \in {"wait", "fetch", "run"} /\ t >= caller.i

\* A thread is in process_tasks only while it is WORKING, and WORKING only
\* while the caller counts on it.
StatusInv ==
  \A t \in Threads :
    /\ worker[t].pc \in {"own", "run", "steal", "fetch"} => status[t] = "WORKING"
    /\ worker[t].pc = "exited" => status[t] = "EXIT"
    /\ status[t] = "EXIT" => caller.pc \in {"join", "destroyed"}
    /\ status[t] = "WORKING" => Awaited(t)

\* The thread has turned to the ranges of others.
Stealing(t) ==
  worker[t].pc \in {"steal", "fetch"} \/ (worker[t].pc = "run" /\ worker[t].offset # 0)

\* A thread that does not work, or steals, has used up its own range.
UsedUpInv ==
  \A t \in Threads :
    /\ status[t] # "WORKING" \/ Stealing(t) => curr[t] >= end[t]
    /\ worker[t].pc \in {"steal", "fetch"} => worker[t].offset # 0

\* The id is still to be drawn from the range of t.
Left(t, id) == curr[t] <= id /\ id < end[t]

\* What is left of the ranges has been handed out, and to one thread each.
ApartInv ==
  /\ \A t, u \in Threads : \A id \in Int : t # u => ~ (Left(t, id) /\ Left(u, id))
  /\ \A t \in Threads : end[t] <= job.next \/ curr[t] >= end[t]

\* The id has been drawn, by its thread, by a thief or by the caller.
Drawn(id) == id < job.next /\ \A t \in Threads : ~ Left(t, id)

\* The ids computed are those drawn, each once.
RunsInv == \A id \in TaskIds : runs[id] = IF Drawn(id) THEN 1 ELSE 0

\* The threads that have their ranges have all the ids up to job.next.
SplitInv ==
  /\ JobSize(job.k, job.nth) <= MaxTasks
  /\ job.next = IF caller.pc = "assign" THEN BeforeThread(job.k, job.nth, caller.i)
                ELSE JobSize(job.k, job.nth)

PoolInv == Types /\ StatusInv /\ UsedUpInv /\ ApartInv /\ RunsInv /\ SplitInv

-----------------------------------------------------------------------------
(* The invariant is inductive.                                              *)

\* No id is handed out that is not one of the job.
LEMMA NextWithinTasks ==
  ASSUME Types, SplitInv
  PROVE  job.next <= MaxTasks
<1>1. /\ job \in [k : Nat, nth : Nat, next : Nat] /\ MaxTasks \in Nat
  BY BackendAssumption DEF Types, TypeOK
<1>2. CASE caller.pc = "assign"
  <2>1. caller.i \in Threads
    BY <1>2 DEF Types
  <2>2. /\ Share(caller.i) \in Nat
        /\ BeforeThread(job.k, job.nth, caller.i) \in Nat
        /\ BeforeThread(job.k, job.nth, caller.i) + Share(caller.i)
             <= JobSize(job.k, job.nth)
    BY <1>1, <2>1, SharesAddUp
  <2>3. JobSize(job.k, job.nth) \in Nat
    BY <1>1 DEF JobSize
  <2> QED BY <1>1, <1>2, <2>2, <2>3 DEF SplitInv
<1>3. CASE caller.pc # "assign"
  BY <1>3 DEF SplitInv
<1> QED BY <1>2, <1>3

\* Drawing an id of thread t keeps the ranges apart, and the id counts.
LEMMA DrawKeepsRanges ==
  ASSUME PoolInv, NEW t \in Threads, FetchAdd(t), UNCHANGED <<end, job>>,
         IF Exhausted(t) THEN UNCHANGED runs ELSE Compute(curr[t])
  PROVE  /\ curr' \in [Threads -> Nat] /\ runs' \in [TaskIds -> Nat]
         /\ ~ Exhausted(t) => curr[t] \in TaskIds
         /\ \A u \in Threads : curr[u] >= end[u] => curr'[u] >= end'[u]
         /\ ApartInv'
         /\ RunsInv'
<1>1. /\ curr \in [Threads -> Nat] /\ end \in [Threads -> Nat \cup {-1}]
      /\ runs \in [TaskIds -> Nat] /\ job.next \in Nat /\ MaxTasks \in Nat
      /\ \A u \in Threads : curr[u] \in Int /\ end[u] \in Int
  BY BackendAssumption DEF PoolInv, Types, TypeOK
<1>2. /\ curr' \in [Threads -> Nat]
      /\ curr'[t] = IF curr[t] > end[t] THEN curr[t] ELSE curr[t] + 1
      /\ \A u \in Threads : u # t => curr'[u] = curr[u]
      /\ end' = end /\ job' = job
  BY <1>1 DEF FetchAdd
<1>3. \A u \in Threads : curr'[u] \in Int /\ curr'[u] >= curr[u]
  BY <1>1, <1>2
<1>4. \A u \in Threads : curr[u] >= end[u] => curr'[u] >= end'[u]
  BY <1>1, <1>2, <1>3
<1>5. \A u \in Threads : \A id \in Int :
        Left(u, id)' <=> Left(u, id) /\ ~ (u = t /\ id = curr[t])
  <2> SUFFICES ASSUME NEW u \in Threads, NEW id \in Int
               PROVE  Left(u, id)' <=> Left(u, id) /\ ~ (u = t /\ id = curr[t])
    OBVIOUS
  <2>1. CASE u = t
    BY <1>1, <1>2, <2>1 DEF Left
  <2>2. CASE u # t
    BY <1>1, <1>2, <2>2 DEF Left
  <2> QED BY <2>1, <2>2
<1>6. ApartInv'
  <2>1. \A u, v \in Threads : \A id \in Int : u # v => ~ (Left(u, id) /\ Left(v, id))
    BY DEF PoolInv, ApartInv
  <2>2. \A u, v \in Threads : \A id \in Int : u # v => ~ (Left(u, id)' /\ Left(v, id)')
    BY <1>5, <2>1
  <2>3. \A u \in Threads : end[u] <= job.next \/ curr[u] >= end[u]
    BY DEF PoolInv, ApartInv
  <2>4. \A u \in Threads : end'[u] <= job'.next \/ curr'[u] >= end'[u]
    BY <1>2, <1>4, <2>3
  <2> QED BY <2>2, <2>4 DEF ApartInv
<1>7. \A id \in TaskIds : id \in Int /\ id >= 0
  BY <1>1 DEF TaskIds
<1>8. \A id \in TaskIds : runs[id] = IF Drawn(id) THEN 1 ELSE 0
  BY DEF PoolInv, RunsInv
<1>9. CASE Exhausted(t)
  <2>1. runs' = runs
    BY <1>9
  <2>2. ~ Left(t, curr[t])
    BY <1>1, <1>9 DEF Exhausted, Left
  <2>3. \A id \in TaskIds : Drawn(id)' <=> Drawn(id)
    BY <1>2, <1>5, <1>7, <2>2 DEF Drawn
  <2>4. RunsInv'
    BY <1>8, <2>1, <2>3 DEF RunsInv
  <2> QED BY <1>1, <1>2, <1>4, <1>6, <1>9, <2>1, <2>4
<1>10. CASE ~ Exhausted(t)
  <2>1. Left(t, curr[t]) /\ curr[t] < job.next
    BY <1>1, <1>10 DEF Exhausted, Left, PoolInv, ApartInv
  <2>2. curr[t] \in TaskIds
    BY <1>1, <2>1, NextWithinTasks DEF PoolInv, TaskIds
  <2>3. /\ runs' \in [TaskIds -> Nat]
        /\ runs'[curr[t]] = runs[curr[t]] + 1
        /\ \A id \in TaskIds : id # curr[t] => runs'[id] = runs[id]
    BY <1>1, <1>10, <2>2 DEF Compute
  <2>4. runs[curr[t]] = 0
    BY <1>8, <2>1, <2>2 DEF Drawn
  <2>5. \A u \in Threads : u # t => ~ Left(u, curr[t])
    BY <1>1, <2>1 DEF PoolInv, ApartInv
  <2>6. \A id \in TaskIds : id = curr[t] => Drawn(id)'
    BY <1>2, <1>5, <1>7, <2>1, <2>5 DEF Drawn
  <2>7. \A id \in TaskIds : id # curr[t] => (Drawn(id)' <=> Drawn(id))
    BY <1>2, <1>5, <1>7 DEF Drawn
  <2>8. RunsInv'
    BY <1>8, <2>2, <2>3, <2>4, <2>6, <2>7 DEF RunsInv
  <2> QED BY <1>2, <1>4, <1>6, <2>2, <2>3, <2>8
<1> QED BY <1>9, <1>10

\* The pool starts with nothing handed out and every thread WAITING.
LEMMA InitEstablishes == Init => PoolInv
<1> SUFFICES ASSUME Init PROVE PoolInv
  OBVIOUS
<1>1. MaxTasks \in Nat /\ max_threads \in Nat
  BY BackendAssumption
<1>2. Types
  BY <1>1 DEF Init, Types, TypeOK, AtPoll, NoTask, TaskIds
<1>3. StatusInv /\ UsedUpInv /\ ApartInv /\ RunsInv
  BY <1>1 DEF Init, AtPoll, StatusInv, UsedUpInv, Stealing, ApartInv, Left,
              RunsInv, Drawn, TaskIds
<1>4. SplitInv
  BY <1>1 DEF Init, SplitInv, JobSize
<1> QED BY <1>2, <1>3, <1>4 DEF PoolInv

\* The steps that draw no id and set no range keep what is said of them.
LEMMA RangesKept ==
  ASSUME PoolInv, UNCHANGED <<curr, end, job, runs>>
  PROVE  ApartInv' /\ RunsInv'
BY DEF PoolInv, ApartInv, RunsInv, Left, Drawn

\* do_work or do_k_work_stealing_job begins: nothing is left of the last job.
LEMMA StartJobKeeps ==
  ASSUME PoolInv, NEW k \in 0 .. MaxTasks, NEW nth \in 0 .. MaxTasks, StartJob(k, nth)
  PROVE  PoolInv'
<1>1. /\ MaxTasks \in Nat /\ k \in Nat /\ nth \in Nat /\ 1 \in Threads
      /\ BeforeThread(k, nth, 1) = 0
  BY BackendAssumption, BeforeFirst
<1>2. \A t \in Threads : status[t] = "WAITING"
  BY DEF PoolInv, Types, TypeOK, StatusInv, Awaited, StartJob
<1>3. \A t \in Threads : /\ curr[t] >= end[t] /\ worker[t].pc = "poll"
                         /\ curr[t] \in Int /\ end[t] \in Int
  BY <1>2 DEF PoolInv, Types, TypeOK, StatusInv, UsedUpInv
<1>4. Types'
  BY <1>1 DEF PoolInv, Types, TypeOK, StartJob, NoTask
<1>5. StatusInv' /\ UsedUpInv'
  BY <1>2, <1>3 DEF StartJob, StatusInv, UsedUpInv, Stealing
<1>6. \A t \in Threads : \A id \in Int : ~ Left(t, id)'
  BY <1>3 DEF Left, StartJob
<1>7. ApartInv'
  BY <1>3, <1>6 DEF ApartInv, StartJob
<1>8. RunsInv'
  BY <1>1 DEF RunsInv, Drawn, StartJob, TaskIds
<1>9. SplitInv'
  BY <1>1 DEF SplitInv, StartJob
<1> QED BY <1>4, <1>5, <1>7, <1>8, <1>9 DEF PoolInv

\* The next thread gets the ids that follow those handed out before.
LEMMA AssignKeeps ==
  ASSUME PoolInv, Assign
  PROVE  PoolInv'
<1> DEFINE t == caller.i
           n == job.next
           s == Share(caller.i)
<1>1. /\ t \in Threads /\ caller.pc = "assign"
      /\ max_threads \in Nat \ {0} /\ Threads = 1 .. max_threads
      /\ n \in Nat /\ job \in [k : Nat, nth : Nat, next : Nat]
  BY BackendAssumption DEF PoolInv, Types, TypeOK, Assign, Threads
<1>2. /\ s \in Nat /\ n = BeforeThread(job.k, job.nth, t)
      /\ n + s <= JobSize(job.k, job.nth)
      /\ t < max_threads => n + s = BeforeThread(job.k, job.nth, t + 1)
      /\ t = max_threads => n + s = JobSize(job.k, job.nth)
  BY <1>1, SharesAddUp DEF PoolInv, SplitInv
<1>3. /\ status[t] # "WORKING" /\ curr[t] >= end[t]
      /\ worker[t].pc \notin {"own", "run", "steal", "fetch"}
      /\ worker[t].pc # "exited"
      /\ \A u \in Threads : status[u] = "WORKING" => u < t
      /\ \A u \in Threads : status[u] # "EXIT"
  BY <1>1 DEF PoolInv, StatusInv, UsedUpInv, Awaited
<1>4. \A u \in Threads : curr[u] \in Nat /\ end[u] \in Int /\ (end[u] <= n \/ curr[u] >= end[u])
  BY DEF PoolInv, Types, TypeOK, ApartInv
<1>5. /\ status' = [status EXCEPT ![t] = IF s = 0 THEN "WAITING" ELSE "WORKING"]
      /\ curr' = [curr EXCEPT ![t] = IF s = 0 THEN 0 ELSE n]
      /\ end' = [end EXCEPT ![t] = IF s = 0 THEN -1 ELSE n + s]
      /\ job' = [job EXCEPT !.next = n + s]
      /\ caller' = IF t < max_threads THEN [caller EXCEPT !.i = t + 1]
                   ELSE [pc |-> "wait", i |-> 1, task |-> NoTask]
      /\ UNCHANGED <<worker, jobs, runs>>
  <2>1. RangeOf(t).first = n /\ RangeOf(t).last = n + s
    BY DEF RangeOf
  <2>2. (RangeOf(t).first >= RangeOf(t).last) <=> s = 0
    <3> HIDE DEF s
    <3> QED BY <1>1, <1>2, <2>1
  <2>3. /\ status' = [status EXCEPT ![t] = IF RangeOf(t).first >= RangeOf(t).last
                                           THEN "WAITING" ELSE "WORKING"]
        /\ curr' = [curr EXCEPT ![t] = IF RangeOf(t).first >= RangeOf(t).last
                                       THEN 0 ELSE RangeOf(t).first]
        /\ end' = [end EXCEPT ![t] = IF RangeOf(t).first >= RangeOf(t).last
                                     THEN -1 ELSE RangeOf(t).last]
        /\ job' = [job EXCEPT !.next = RangeOf(t).last]
    BY DEF Assign
  <2>4. /\ caller' = IF t < max_threads THEN [caller EXCEPT !.i = t + 1]
                     ELSE [pc |-> "wait", i |-> 1, task |-> NoTask]
        /\ UNCHANGED <<worker, jobs, runs>>
    BY DEF Assign, NextThread
  <2> HIDE DEF s, n, t
  <2> QED BY <2>1, <2>2, <2>3, <2>4
<1> HIDE DEF s
<1>6. /\ job'.next = n + s /\ job'.k = job.k /\ job'.nth = job.nth
      /\ job' \in [k : Nat, nth : Nat, next : Nat]
  BY <1>1, <1>2, <1>5
<1>7. /\ caller'.pc = IF t < max_threads THEN "assign" ELSE "wait"
      /\ caller'.i = IF t < max_threads THEN t + 1 ELSE 1
      /\ caller'.i \in Threads
      /\ caller' \in [pc : {"idle", "assign", "wait", "fetch", "run", "join", "destroyed"},
                      i : Threads \cup {0}, task : TaskIds \cup {NoTask}]
  <2>1. caller \in [pc : {"idle", "assign", "wait", "fetch", "run", "join", "destroyed"},
                    i : Threads \cup {0}, task : TaskIds \cup {NoTask}]
    BY DEF PoolInv, Types, TypeOK
  <2>2. CASE t < max_threads
    <3>1. caller' = [caller EXCEPT !.i = t + 1] /\ t + 1 \in Threads
      BY <1>1, <1>5, <2>2
    <3> QED BY <1>1, <2>1, <2>2, <3>1
  <2>3. CASE ~ (t < max_threads)
    <3>1. caller' = [pc |-> "wait", i |-> 1, task |-> NoTask] /\ 1 \in Threads
      BY <1>1, <1>5, <2>3
    <3> QED BY <2>3, <3>1
  <2> QED BY <2>2, <2>3
<1>8. Types'
  <2>1. /\ status' \in [Threads -> {"WORKING", "WAITING", "EXIT"}]
        /\ curr' \in [Threads -> Nat] /\ end' \in [Threads -> Nat \cup {-1}]
    BY <1>1, <1>2, <1>5 DEF PoolInv, Types, TypeOK
  <2> QED BY <1>5, <1>6, <1>7, <2>1 DEF PoolInv, Types, TypeOK
<1>9. /\ \A u \in Threads : u # t => /\ status'[u] = status[u]
                                     /\ curr'[u] = curr[u] /\ end'[u] = end[u]
      /\ status'[t] = IF s = 0 THEN "WAITING" ELSE "WORKING"
      /\ curr'[t] = IF s = 0 THEN 0 ELSE n
      /\ end'[t] = IF s = 0 THEN -1 ELSE n + s
  BY <1>1, <1>5 DEF PoolInv, Types, TypeOK
<1>10. StatusInv'
  <2> SUFFICES ASSUME NEW u \in Threads
               PROVE  /\ worker'[u].pc \in {"own", "run", "steal", "fetch"}
                           => status'[u] = "WORKING"
                      /\ worker'[u].pc = "exited" => status'[u] = "EXIT"
                      /\ status'[u] = "EXIT" => caller'.pc \in {"join", "destroyed"}
                      /\ status'[u] = "WORKING" => Awaited(u)'
    BY DEF StatusInv
  <2>1. u \in Int /\ t \in Int /\ 1 <= u /\ u <= max_threads
    BY <1>1
  <2>2. status'[u] = "WORKING" => u <= t
    BY <1>3, <1>9, <2>1
  <2>3. u <= t => Awaited(u)'
    BY <1>1, <1>7, <2>1 DEF Awaited
  <2>4. worker' = worker
    BY <1>5
  <2>5. CASE u = t
    BY <1>3, <1>9, <2>2, <2>3, <2>4, <2>5
  <2>6. CASE u # t
    BY <1>3, <1>9, <2>2, <2>3, <2>4, <2>6 DEF PoolInv, StatusInv
  <2> QED BY <2>5, <2>6
<1>11. UsedUpInv'
  <2> SUFFICES ASSUME NEW u \in Threads
               PROVE  /\ status'[u] # "WORKING" \/ Stealing(u)' => curr'[u] >= end'[u]
                      /\ worker'[u].pc \in {"steal", "fetch"} => worker'[u].offset # 0
    BY DEF UsedUpInv
  <2>1. worker' = worker
    BY <1>5
  <2>2. CASE u = t
    BY <1>2, <1>3, <1>9, <2>1, <2>2 DEF Stealing
  <2>3. CASE u # t
    BY <1>9, <2>1, <2>3 DEF PoolInv, UsedUpInv, Stealing
  <2> QED BY <2>2, <2>3
<1>12. \A u \in Threads : \A id \in Int :
         Left(u, id)' <=> IF u = t THEN n <= id /\ id < n + s ELSE Left(u, id)
  <2> SUFFICES ASSUME NEW u \in Threads, NEW id \in Int
               PROVE  Left(u, id)' <=> IF u = t THEN n <= id /\ id < n + s ELSE Left(u, id)
    OBVIOUS
  <2>1. CASE u = t
    BY <1>1, <1>2, <1>9, <2>1 DEF Left
  <2>2. CASE u # t
    BY <1>9, <2>2 DEF Left
  <2> QED BY <2>1, <2>2
<1>13. \A u \in Threads : \A id \in Int : Left(u, id) => id < n
  BY <1>1, <1>4 DEF Left
<1>14. ApartInv'
  <2>1. \A u, v \in Threads : \A id \in Int : u # v => ~ (Left(u, id)' /\ Left(v, id)')
    <3> SUFFICES ASSUME NEW u \in Threads, NEW v \in Threads, NEW id \in Int,
                        u # v, Left(u, id)', Left(v, id)'
                 PROVE  FALSE
      OBVIOUS
    <3>1. ~ (Left(u, id) /\ Left(v, id))
      BY DEF PoolInv, ApartInv
    <3> QED BY <1>1, <1>12, <1>13, <3>1
  <2>2. \A u \in Threads : end'[u] <= job'.next \/ curr'[u] >= end'[u]
    BY <1>1, <1>2, <1>4, <1>6, <1>9
  <2> QED BY <2>1, <2>2 DEF ApartInv
<1>15. RunsInv'
  <2> SUFFICES ASSUME NEW id \in TaskIds PROVE Drawn(id)' <=> Drawn(id)
    BY <1>5 DEF PoolInv, RunsInv
  <2>1. id \in Int
    BY BackendAssumption DEF TaskIds
  <2>2. ~ Left(t, id)
    BY <1>1, <1>3, <1>4, <2>1 DEF Left
  <2>3. CASE id < n
    BY <1>1, <1>2, <1>6, <1>12, <2>1, <2>2, <2>3 DEF Drawn
  <2>4. CASE id >= n
    BY <1>1, <1>2, <1>6, <1>12, <2>1, <2>4 DEF Drawn
  <2> QED BY <1>1, <2>1, <2>3, <2>4
<1>16. SplitInv'
  <2>1. JobSize(job'.k, job'.nth) <= MaxTasks
    BY <1>6 DEF PoolInv, SplitInv
  <2>2. CASE t < max_threads
    BY <1>2, <1>6, <1>7, <2>1, <2>2 DEF SplitInv
  <2>3. CASE t = max_threads
    BY <1>1, <1>2, <1>6, <1>7, <2>1, <2>3 DEF SplitInv
  <2> QED BY <1>1, <2>2, <2>3
<1> QED BY <1>8, <1>10, <1>11, <1>14, <1>15, <1>16 DEF PoolInv

\* The other steps of the calling thread.
LEMMA CallerKeeps ==
  ASSUME PoolInv, WaitDone \/ WaitSteal \/ CallerFetch \/ CallerRan \/ Destroy \/ Join
  PROVE  PoolInv'
<1>1. /\ max_threads \in Nat \ {0} /\ Threads = 1 .. max_threads
      /\ caller \in [pc : {"idle", "assign", "wait", "fetch", "run", "join", "destroyed"},
                     i : Threads \cup {0}, task : TaskIds \cup {NoTask}]
      /\ caller.pc \in {"assign", "wait", "fetch", "run"} => caller.i \in Threads
  BY BackendAssumption DEF PoolInv, Types, TypeOK, Threads
<1>2. CASE WaitDone
  <2>1. /\ caller.pc = "wait" /\ caller.i \in Threads /\ status[caller.i] # "WORKING"
        /\ UNCHANGED <<status, curr, end, worker, job, jobs, runs>>
    BY <1>1, <1>2 DEF WaitDone, Finished
  <2>2. /\ caller' \in [pc : {"idle", "assign", "wait", "fetch", "run", "join", "destroyed"},
                        i : Threads \cup {0}, task : TaskIds \cup {NoTask}]
        /\ caller'.pc = IF caller.i < max_threads THEN "wait" ELSE "idle"
        /\ caller'.i = IF caller.i < max_threads THEN caller.i + 1 ELSE 1
        /\ caller'.i \in Threads
    <3>1. CASE caller.i < max_threads
      <4>1. caller' = [caller EXCEPT !.i = caller.i + 1] /\ caller.i + 1 \in Threads
        BY <1>1, <1>2, <2>1, <3>1 DEF WaitDone, NextThread
      <4> QED BY <1>1, <2>1, <3>1, <4>1
    <3>2. CASE ~ (caller.i < max_threads)
      <4>1. caller' = [pc |-> "idle", i |-> 1, task |-> NoTask] /\ 1 \in Threads
        BY <1>1, <1>2, <3>2 DEF WaitDone, NextThread
      <4> QED BY <3>2, <4>1
    <3> QED BY <3>1, <3>2
  <2>3. Types'
    BY <2>1, <2>2 DEF PoolInv, Types, TypeOK
  <2>4. \A u \in Threads : status[u] = "WORKING" => u > caller.i /\ caller.i < max_threads
    BY <1>1, <2>1 DEF PoolInv, StatusInv, Awaited
  <2>5. \A u \in Threads : status[u] = "WORKING" => Awaited(u)'
    BY <1>1, <2>1, <2>2, <2>4 DEF Awaited
  <2>6. \A u \in Threads : status[u] # "EXIT"
    BY <2>1 DEF PoolInv, StatusInv
  <2>7. StatusInv'
    BY <2>1, <2>5, <2>6 DEF PoolInv, StatusInv
  <2>8. UsedUpInv' /\ SplitInv'
    BY <2>1, <2>2 DEF PoolInv, UsedUpInv, Stealing, SplitInv
  <2> QED BY <2>1, <2>3, <2>7, <2>8, RangesKept DEF PoolInv
<1>3. CASE WaitSteal
  <2>1. /\ caller.pc = "wait" /\ caller' = [caller EXCEPT !.pc = "fetch"]
        /\ UNCHANGED <<status, curr, end, worker, job, jobs, runs>>
    BY <1>3 DEF WaitSteal
  <2>2. caller'.pc = "fetch" /\ caller'.i = caller.i
    BY <1>1, <2>1
  <2>3. Types'
    BY <1>1, <2>1, <2>2 DEF PoolInv, Types, TypeOK
  <2>4. StatusInv'
    BY <2>1, <2>2 DEF PoolInv, StatusInv, Awaited
  <2>5. UsedUpInv' /\ SplitInv'
    BY <2>1, <2>2 DEF PoolInv, UsedUpInv, Stealing, SplitInv
  <2> QED BY <2>1, <2>3, <2>4, <2>5, RangesKept DEF PoolInv
<1>4. CASE CallerFetch
  <2>1. /\ caller.pc = "fetch" /\ caller.i \in Threads /\ FetchAdd(caller.i)
        /\ IF Exhausted(caller.i) THEN UNCHANGED runs ELSE Compute(curr[caller.i])
        /\ UNCHANGED <<status, end, worker, job, jobs>>
    BY <1>1, <1>4 DEF CallerFetch
  <2>2. /\ curr' \in [Threads -> Nat] /\ runs' \in [TaskIds -> Nat]
        /\ ~ Exhausted(caller.i) => curr[caller.i] \in TaskIds
        /\ \A u \in Threads : curr[u] >= end[u] => curr'[u] >= end'[u]
        /\ ApartInv' /\ RunsInv'
    BY <2>1, DrawKeepsRanges
  <2>3. /\ caller' \in [pc : {"idle", "assign", "wait", "fetch", "run", "join", "destroyed"},
                        i : Threads \cup {0}, task : TaskIds \cup {NoTask}]
        /\ caller'.pc \in {"wait", "run"} /\ caller'.i = caller.i
    <3>1. CASE Exhausted(caller.i)
      <4>1. caller' = [caller EXCEPT !.pc = "wait"]
        BY <1>4, <3>1 DEF CallerFetch
      <4> QED BY <1>1, <4>1
    <3>2. CASE ~ Exhausted(caller.i)
      <4>1. caller' = [caller EXCEPT !.pc = "run", !.task = curr[caller.i]]
        BY <1>4, <3>2 DEF CallerFetch
      <4> QED BY <1>1, <2>2, <3>2, <4>1
    <3> QED BY <3>1, <3>2
  <2>4. Types'
    BY <2>1, <2>2, <2>3 DEF PoolInv, Types, TypeOK
  <2>5. StatusInv'
    BY <2>1, <2>3 DEF PoolInv, StatusInv, Awaited
  <2>6. UsedUpInv'
    BY <2>1, <2>2 DEF PoolInv, UsedUpInv, Stealing
  <2>7. SplitInv'
    BY <2>1, <2>3 DEF PoolInv, SplitInv
  <2> QED BY <2>2, <2>4, <2>5, <2>6, <2>7 DEF PoolInv
<1>5. CASE CallerRan
  <2>1. /\ caller.pc = "run" /\ caller' = [caller EXCEPT !.pc = "fetch", !.task = NoTask]
        /\ UNCHANGED <<status, curr, end, worker, job, jobs, runs>>
    BY <1>5 DEF CallerRan
  <2>2. caller'.pc = "fetch" /\ caller'.i = caller.i
    BY <1>1, <2>1
  <2>3. Types'
    BY <1>1, <2>1, <2>2 DEF PoolInv, Types, TypeOK
  <2>4. StatusInv'
    BY <2>1, <2>2 DEF PoolInv, StatusInv, Awaited
  <2>5. UsedUpInv' /\ SplitInv'
    BY <2>1, <2>2 DEF PoolInv, UsedUpInv, Stealing, SplitInv
  <2> QED BY <2>1, <2>3, <2>4, <2>5, RangesKept DEF PoolInv
<1>6. CASE Destroy
  <2>1. /\ caller.pc = "idle" /\ caller' = [caller EXCEPT !.pc = "join"]
        /\ status' = [u \in Threads |-> "EXIT"]
        /\ UNCHANGED <<curr, end, worker, job, jobs, runs>>
    BY <1>6 DEF Destroy
  <2>2. caller'.pc = "join" /\ caller'.i = caller.i
    BY <1>1, <2>1
  <2>3. Types'
    BY <1>1, <2>1, <2>2 DEF PoolInv, Types, TypeOK
  <2>4. \A u \in Threads : status[u] # "WORKING"
    BY <2>1 DEF PoolInv, StatusInv, Awaited
  <2>5. StatusInv'
    BY <2>1, <2>2, <2>4 DEF PoolInv, StatusInv
  <2>6. UsedUpInv' /\ SplitInv'
    BY <2>1, <2>2, <2>4 DEF PoolInv, UsedUpInv, Stealing, SplitInv
  <2> QED BY <2>1, <2>3, <2>5, <2>6, RangesKept DEF PoolInv
<1>7. CASE Join
  <2>1. /\ caller.pc = "join" /\ caller' = [caller EXCEPT !.pc = "destroyed"]
        /\ UNCHANGED <<status, curr, end, worker, job, jobs, runs>>
    BY <1>7 DEF Join
  <2>2. caller'.pc = "destroyed" /\ caller'.i = caller.i
    BY <1>1, <2>1
  <2>3. Types'
    BY <1>1, <2>1, <2>2 DEF PoolInv, Types, TypeOK
  <2>4. StatusInv'
    BY <2>1, <2>2 DEF PoolInv, StatusInv, Awaited
  <2>5. UsedUpInv' /\ SplitInv'
    BY <2>1, <2>2 DEF PoolInv, UsedUpInv, Stealing, SplitInv
  <2> QED BY <2>1, <2>3, <2>4, <2>5, RangesKept DEF PoolInv
<1> QED BY <1>2, <1>3, <1>4, <1>5, <1>6, <1>7

\* A worker step that moves thread t only, from and to places in process_tasks
\* or the poll, and leaves the ranges used up that were.
LEMMA WorkerMoves ==
  ASSUME PoolInv, NEW t \in Threads, UNCHANGED <<status, end, caller, job, jobs>>,
         NEW w \in [pc : {"poll", "own", "run", "steal", "fetch", "exited"},
                    offset : Nat, task : TaskIds \cup {NoTask}],
         worker' = [worker EXCEPT ![t] = w],
         curr' \in [Threads -> Nat], runs' \in [TaskIds -> Nat],
         \A u \in Threads : curr[u] >= end[u] => curr'[u] >= end'[u],
         w.pc \in {"own", "run", "steal", "fetch"} => status[t] = "WORKING",
         w.pc = "exited" => status[t] = "EXIT",
         w.pc \in {"steal", "fetch"} => w.offset # 0,
         w.pc \in {"steal", "fetch"} \/ (w.pc = "run" /\ w.offset # 0) => curr[t] >= end[t],
         ApartInv', RunsInv'
  PROVE  PoolInv'
<1>1. /\ worker' \in [Threads -> [pc : {"poll", "own", "run", "steal", "fetch", "exited"},
                                  offset : Nat, task : TaskIds \cup {NoTask}]]
      /\ worker'[t] = w
      /\ \A u \in Threads : u # t => worker'[u] = worker[u]
  BY DEF PoolInv, Types, TypeOK
<1>2. Types'
  BY <1>1 DEF PoolInv, Types, TypeOK
<1>3. StatusInv'
  BY <1>1 DEF PoolInv, StatusInv, Awaited
<1>4. UsedUpInv'
  BY <1>1 DEF PoolInv, UsedUpInv, Stealing
<1>5. SplitInv'
  BY DEF PoolInv, SplitInv
<1> QED BY <1>2, <1>3, <1>4, <1>5 DEF PoolInv

\* The steps of a worker thread.
LEMMA WorkerKeeps ==
  ASSUME PoolInv, NEW t \in Threads, WorkerStep(t)
  PROVE  PoolInv'
<1> DEFINE W == [pc : {"poll", "own", "run", "steal", "fetch", "exited"},
                 offset : Nat, task : TaskIds \cup {NoTask}]
<1>1. /\ worker \in [Threads -> W] /\ worker[t] \in W /\ curr \in [Threads -> Nat]
      /\ status \in [Threads -> {"WORKING", "WAITING", "EXIT"}]
      /\ runs \in [TaskIds -> Nat] /\ max_threads \in Nat \ {0}
      /\ Threads = 1 .. max_threads
  BY BackendAssumption DEF PoolInv, Types, TypeOK, Threads
<1>2. /\ worker[t].pc \in {"own", "run", "steal", "fetch"} => status[t] = "WORKING"
      /\ worker[t].pc \in {"steal", "fetch"} => worker[t].offset # 0
      /\ Stealing(t) => curr[t] >= end[t]
  BY DEF PoolInv, StatusInv, UsedUpInv
<1>3. ASSUME worker[t].pc \in {"steal", "fetch"} PROVE Target(t) \in Threads
  <2>1. worker[t].offset \in Nat /\ t \in Int /\ t >= 1
    BY <1>1
  <2>2. (t + worker[t].offset - 1) % max_threads \in 0 .. max_threads - 1
    BY <1>1, <2>1
  <2> QED BY <1>1, <2>2 DEF Target
<1>4. ASSUME UNCHANGED <<curr, runs, end, job>>
      PROVE  /\ curr' \in [Threads -> Nat] /\ runs' \in [TaskIds -> Nat]
             /\ \A u \in Threads : curr[u] >= end[u] => curr'[u] >= end'[u]
             /\ ApartInv' /\ RunsInv'
  BY <1>1, <1>4, RangesKept
<1>5. CASE Poll(t)
  <2> DEFINE w == [worker[t] EXCEPT !.pc = IF status[t] = "WORKING" THEN "own" ELSE "exited"]
  <2>1. /\ worker' = [worker EXCEPT ![t] = w] /\ status[t] # "WAITING"
        /\ UNCHANGED <<status, curr, end, caller, job, jobs, runs>>
    BY <1>1, <1>5 DEF Poll
  <2>2. w \in W /\ w.pc = IF status[t] = "WORKING" THEN "own" ELSE "exited"
    BY <1>1
  <2>3. status[t] \in {"WORKING", "EXIT"}
    BY <1>1, <2>1
  <2> HIDE DEF w
  <2> QED BY <1>4, <2>1, <2>2, <2>3, WorkerMoves
<1>6. CASE Own(t)
  <2>1. /\ worker[t].pc = "own" /\ status[t] = "WORKING" /\ FetchAdd(t)
        /\ IF Exhausted(t) THEN UNCHANGED runs ELSE Compute(curr[t])
        /\ UNCHANGED <<status, end, caller, job, jobs>>
    BY <1>2, <1>6 DEF Own
  <2>2. /\ curr' \in [Threads -> Nat] /\ runs' \in [TaskIds -> Nat]
        /\ ~ Exhausted(t) => curr[t] \in TaskIds
        /\ \A u \in Threads : curr[u] >= end[u] => curr'[u] >= end'[u]
        /\ ApartInv' /\ RunsInv'
    BY <2>1, DrawKeepsRanges
  <2>3. CASE Exhausted(t)
    <3> DEFINE w == [pc |-> "steal", offset |-> 1, task |-> NoTask]
    <3>1. worker' = [worker EXCEPT ![t] = w]
      BY <1>6, <2>1, <2>3 DEF Own
    <3>2. w \in W /\ w.pc = "steal" /\ w.offset # 0
      OBVIOUS
    <3>3. curr[t] >= end[t]
      BY <2>3 DEF Exhausted
    <3> HIDE DEF w
    <3> QED BY <2>1, <2>2, <3>1, <3>2, <3>3, WorkerMoves
  <2>4. CASE ~ Exhausted(t)
    <3> DEFINE w == [pc |-> "run", offset |-> 0, task |-> curr[t]]
    <3>1. worker' = [worker EXCEPT ![t] = w]
      BY <1>6, <2>1, <2>4 DEF Own
    <3>2. w \in W /\ w.pc = "run" /\ w.offset = 0
      BY <2>2, <2>4
    <3> HIDE DEF w
    <3> QED BY <2>1, <2>2, <3>1, <3>2, WorkerMoves
  <2> QED BY <2>3, <2>4
<1>7. CASE Ran(t)
  <2> DEFINE w == [worker[t] EXCEPT !.pc = IF worker[t].offset = 0 THEN "own" ELSE "fetch",
                                    !.task = NoTask]
  <2>1. /\ worker' = [worker EXCEPT ![t] = w] /\ worker[t].pc = "run"
        /\ UNCHANGED <<status, curr, end, caller, job, jobs, runs>>
    BY <1>1, <1>7 DEF Ran
  <2>2. /\ w \in W /\ w.pc = (IF worker[t].offset = 0 THEN "own" ELSE "fetch")
        /\ w.offset = worker[t].offset
    BY <1>1
  <2>3. w.pc = "fetch" => curr[t] >= end[t] /\ w.offset # 0
    BY <1>2, <2>1, <2>2 DEF Stealing
  <2>4. status[t] = "WORKING" /\ w.pc \in {"own", "fetch"}
    BY <1>2, <2>1, <2>2
  <2> HIDE DEF w
  <2> QED BY <1>4, <2>1, <2>2, <2>3, <2>4, WorkerMoves
<1>8. CASE Steal(t)
  <2> DEFINE found == Node[Target(t)] = Node[t] /\ status[Target(t)] = "WORKING"
             next == worker[t].offset + 1
  <2>1. /\ worker[t].pc = "steal" /\ worker[t].offset \in Nat /\ worker[t].offset # 0
        /\ curr[t] >= end[t] /\ status[t] = "WORKING"
        /\ UNCHANGED <<status, curr, end, caller, job, jobs, runs>>
    BY <1>1, <1>2, <1>8 DEF Steal, Stealing
  <2>2. worker' = [worker EXCEPT ![t] = IF found THEN [worker[t] EXCEPT !.pc = "fetch"]
                                        ELSE [worker[t] EXCEPT !.offset = next]]
    BY <1>8 DEF Steal
  <2>3. next \in Nat /\ next # 0
    BY <2>1
  <2> HIDE DEF found, next
  <2>4. CASE found
    <3> DEFINE w == [worker[t] EXCEPT !.pc = "fetch"]
    <3>1. worker' = [worker EXCEPT ![t] = w]
      BY <2>2, <2>4
    <3>2. w \in W /\ w.pc = "fetch" /\ w.offset # 0
      BY <1>1, <2>1
    <3> HIDE DEF w
    <3> QED BY <1>4, <2>1, <3>1, <3>2, WorkerMoves
  <2>5. CASE ~ found
    <3> DEFINE w == [worker[t] EXCEPT !.offset = next]
    <3>1. worker' = [worker EXCEPT ![t] = w]
      BY <2>2, <2>5
    <3>2. w \in W /\ w.pc = "steal" /\ w.offset # 0
      BY <1>1, <2>1, <2>3
    <3> HIDE DEF w
    <3> QED BY <1>4, <2>1, <3>1, <3>2, WorkerMoves
  <2> QED BY <2>4, <2>5
<1>9. CASE StealFetch(t)
  <2>1. /\ worker[t].pc = "fetch" /\ Target(t) \in Threads /\ FetchAdd(Target(t))
        /\ IF Exhausted(Target(t)) THEN UNCHANGED runs ELSE Compute(curr[Target(t)])
        /\ UNCHANGED <<status, end, caller, job, jobs>>
    BY <1>3, <1>9 DEF StealFetch
  <2>2. /\ curr' \in [Threads -> Nat] /\ runs' \in [TaskIds -> Nat]
        /\ ~ Exhausted(Target(t)) => curr[Target(t)] \in TaskIds
        /\ \A u \in Threads : curr[u] >= end[u] => curr'[u] >= end'[u]
        /\ ApartInv' /\ RunsInv'
    BY <2>1, DrawKeepsRanges
  <2>3. curr[t] >= end[t] /\ status[t] = "WORKING" /\ worker[t].offset # 0
    BY <1>2, <2>1 DEF Stealing
  <2>4. CASE Exhausted(Target(t))
    <3> DEFINE next == worker[t].offset + 1
               w == [worker[t] EXCEPT !.pc = "steal", !.offset = next]
    <3>1. worker' = [worker EXCEPT ![t] = w]
      BY <1>1, <1>9, <2>4 DEF StealFetch
    <3>2. next \in Nat /\ next # 0
      BY <1>1
    <3>3. w \in W /\ w.pc = "steal" /\ w.offset # 0
      <4> HIDE DEF next
      <4> QED BY <1>1, <3>2
    <3> HIDE DEF w
    <3> QED BY <2>1, <2>2, <2>3, <3>1, <3>3, WorkerMoves
  <2>5. CASE ~ Exhausted(Target(t))
    <3> DEFINE w == [worker[t] EXCEPT !.pc = "run", !.task = curr[Target(t)]]
    <3>1. worker' = [worker EXCEPT ![t] = w]
      BY <1>1, <1>9, <2>5 DEF StealFetch
    <3>2. w \in W /\ w.pc = "run"
      BY <1>1, <2>2, <2>5
    <3> HIDE DEF w
    <3> QED BY <2>1, <2>2, <2>3, <3>1, <3>2, WorkerMoves
  <2> QED BY <2>4, <2>5
<1>10. CASE Finalize(t)
  <2>1. /\ worker[t].pc = "steal" /\ worker' = [worker EXCEPT ![t] = AtPoll]
        /\ status' = [status EXCEPT ![t] = "WAITING"]
        /\ UNCHANGED <<curr, end, caller, job, jobs, runs>>
    BY <1>10 DEF Finalize, StealingDone
  <2>2. AtPoll \in W /\ AtPoll.pc = "poll"
    BY DEF AtPoll
  <2>3. /\ worker' \in [Threads -> W] /\ worker'[t].pc = "poll"
        /\ status' \in [Threads -> {"WORKING", "WAITING", "EXIT"}]
        /\ status'[t] = "WAITING"
        /\ \A u \in Threads : u # t => worker'[u] = worker[u] /\ status'[u] = status[u]
    BY <1>1, <2>1, <2>2
  <2>4. Types'
    BY <2>1, <2>3 DEF PoolInv, Types, TypeOK
  <2>5. StatusInv'
    BY <2>1, <2>3 DEF PoolInv, StatusInv, Awaited
  <2>6. curr[t] >= end[t]
    BY <1>2, <2>1 DEF Stealing
  <2>7. UsedUpInv'
    BY <2>1, <2>3, <2>6 DEF PoolInv, UsedUpInv, Stealing
  <2>8. SplitInv'
    BY <2>1 DEF PoolInv, SplitInv
  <2> QED BY <1>4, <2>1, <2>4, <2>5, <2>7, <2>8 DEF PoolInv
<1> QED BY <1>5, <1>6, <1>7, <1>8, <1>9, <1>10 DEF WorkerStep

\* Every step of the pool keeps the invariant.
LEMMA NextKeeps ==
  ASSUME PoolInv, [Next]_vars
  PROVE  PoolInv'
<1>1. ASSUME NEW k \in 0 .. MaxTasks, NEW nth \in 0 .. MaxTasks, StartJob(k, nth)
      PROVE  PoolInv'
  BY <1>1, StartJobKeeps
<1>2. CASE CallerStep \/ Destroy
  BY <1>2, AssignKeeps, CallerKeeps DEF CallerStep
<1>3. ASSUME NEW t \in Threads, WorkerStep(t) PROVE PoolInv'
  BY <1>3, WorkerKeeps
<1>4. CASE UNCHANGED vars
  <2>1. Types' /\ StatusInv' /\ UsedUpInv' /\ SplitInv'
    BY <1>4 DEF PoolInv, vars, Types, TypeOK, StatusInv, Awaited, UsedUpInv, Stealing, SplitInv
  <2>2. ApartInv' /\ RunsInv'
    BY <1>4, RangesKept DEF vars
  <2> QED BY <2>1, <2>2 DEF PoolInv
<1> QED BY <1>1, <1>2, <1>3, <1>4 DEF Next

-----------------------------------------------------------------------------
(* What follows for every run of the pool.                                  *)

\* The inductive invariant holds throughout, for any threads, nodes and tasks.
THEOREM PoolInvariant == Spec => []PoolInv
<1>1. PoolInv /\ [Next]_vars => PoolInv'
  BY NextKeeps
<1> QED BY InitEstablishes, <1>1, PTL DEF Spec

\* The fields of A_ThreadState and the positions of all threads have their
\* types, and compute_func_ is called with ids of the job only.
THEOREM PoolTypes == Spec => []TypeOK
<1>1. PoolInv => TypeOK
  BY DEF PoolInv, Types
<1> QED BY PoolInvariant, <1>1, PTL

\* Whatever the interleaving of owner, thieves and caller on curr, compute_func_
\* is called at most once with each id of a job.
THEOREM PoolComputesOnce == Spec => []ComputedAtMostOnce
<1>1. PoolInv => ComputedAtMostOnce
  BY DEF PoolInv, RunsInv, ComputedAtMostOnce
<1> QED BY PoolInvariant, <1>1, PTL

\* When do_work or do_k_work_stealing_job returns, all ids of the job have been
\* computed and no thread is left in process_tasks.
THEOREM PoolReturnsComplete == Spec => []ReturnsComplete
<1>1. PoolInv => ReturnsComplete
  <2> SUFFICES ASSUME PoolInv, caller.pc = "idle"
               PROVE  /\ \A id \in TaskIds :
                           runs[id] = (IF id < JobSize(job.k, job.nth) THEN 1 ELSE 0)
                      /\ \A t \in Threads : worker[t].pc = "poll"
    BY DEF ReturnsComplete
  <2>1. \A t \in Threads : status[t] = "WAITING"
    BY DEF PoolInv, Types, TypeOK, StatusInv, Awaited
  <2>2. \A t \in Threads : worker[t].pc = "poll" /\ curr[t] >= end[t]
                           /\ curr[t] \in Int /\ end[t] \in Int
    BY <2>1 DEF PoolInv, Types, TypeOK, StatusInv, UsedUpInv
  <2>3. \A t \in Threads : \A id \in Int : ~ Left(t, id)
    BY <2>2 DEF Left
  <2>4. \A id \in TaskIds : id \in Int
    BY BackendAssumption DEF TaskIds
  <2>5. job.next = JobSize(job.k, job.nth)
    BY DEF PoolInv, SplitInv
  <2>6. \A id \in TaskIds : Drawn(id) <=> id < JobSize(job.k, job.nth)
    BY <2>3, <2>4, <2>5 DEF Drawn
  <2>7. \A id \in TaskIds : runs[id] = IF Drawn(id) THEN 1 ELSE 0
    BY DEF PoolInv, RunsInv
  <2> QED BY <2>2, <2>6, <2>7
<1> QED BY PoolInvariant, <1>1, PTL
=============================================================================
