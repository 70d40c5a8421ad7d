----------------------------- MODULE LKBackend -----------------------------
(***************************************************************************)
(* Backend_NUMA of csrc/lk/backend_numa.cpp: the pool of pinned worker      *)
(* threads that computes the expert layers on the CPU. A job of task ids    *)
(* 0, 1, ... is cut into one range per thread; a thread takes the ids of    *)
(* its range with fetch_add on curr and then steals those of the threads of *)
(* its NUMA node; the caller waits thread by thread until none is WORKING,  *)
(* and may steal too.                                                       *)
(*                                                                          *)
(* curr, end and status of a thread are set for a job while the thread is   *)
(* not WORKING and published by the release store of WORKING, so a thread   *)
(* that sees WORKING sees them: the step that sets them is atomic here.     *)
(* curr grows past end at every failed attempt; past end + 1 it stays put   *)
(* here, since all that is read of it is that it has reached end.           *)
(***************************************************************************)
EXTENDS Integers, FiniteSets

CONSTANTS max_threads,     \* threads are 1 .. max_threads
          numa_nodes,      \* nodes are 1 .. numa_nodes
          Node,            \* the node of each thread
          caller_steal,    \* caller_steal_enabled_, in a thread that may steal
          MaxTasks,        \* bound on the tasks of a job
          MaxJobs          \* bound on the jobs of a run

Threads == 1 .. max_threads
TaskIds == 0 .. (MaxTasks - 1)
NodeThreads(n) == {t \in Threads : Node[t] = n}

\* Threads are numbered node by node, and every node has one.
ASSUME BackendAssumption ==
  /\ max_threads \in Nat \ {0} /\ numa_nodes \in Nat \ {0}
  /\ MaxTasks \in Nat /\ MaxJobs \in Nat /\ caller_steal \in BOOLEAN
  /\ Node \in [Threads -> 1 .. numa_nodes]
  /\ \A t, u \in Threads : t < u => Node[t] <= Node[u]
  /\ \A n \in 1 .. numa_nodes : \E t \in Threads : Node[t] = n

VARIABLES
  status, curr, end,  \* A_ThreadState of each thread
  worker,             \* where each worker thread is: [pc, offset, task]
  caller,             \* where the calling thread is: [pc, i, task]
  job,                \* the job: its split, its size and the ids handed out so far
  jobs,               \* jobs begun
  runs                \* how often compute_func_ was called with each id

vars == <<status, curr, end, worker, caller, job, jobs, runs>>

NoTask == -1
AtPoll == [pc |-> "poll", offset |-> 0, task |-> NoTask]

Init ==
  /\ status = [t \in Threads |-> "WAITING"]
  /\ curr = [t \in Threads |-> 0] /\ end = [t \in Threads |-> 0]
  /\ worker = [t \in Threads |-> AtPoll]
  /\ caller = [pc |-> "idle", i |-> 0, task |-> NoTask]
  /\ job = [k |-> 0, nth |-> 0, next |-> 0]
  /\ jobs = 0
  /\ runs = [id \in TaskIds |-> 0]

-----------------------------------------------------------------------------
(* The calling thread.                                                      *)

\* The i-th of n even parts of total, the first parts one larger.
Part(total, n, i) == (total \div n) + (IF i <= total % n THEN 1 ELSE 0)

\* The position of thread t in node_threads_ of its node.
Position(t) == Cardinality({u \in NodeThreads(Node[t]) : u <= t})

\* The tasks of thread t: do_work (k = 0) splits nth over all the threads,
\* do_k_work_stealing_job over the nodes, times k, and then within the node.
Share(t) ==
  IF job.k = 0 THEN Part(job.nth, max_threads, t)
  ELSE Part(Part(job.nth, numa_nodes, Node[t]) * job.k,
            Cardinality(NodeThreads(Node[t])), Position(t))

JobSize(k, nth) == IF k = 0 THEN nth ELSE k * nth

\* do_work(nth), or do_k_work_stealing_job(k, nth), is called.
StartJob(k, nth) ==
  /\ caller.pc = "idle" /\ jobs < MaxJobs /\ JobSize(k, nth) <= MaxTasks
  /\ job' = [k |-> k, nth |-> nth, next |-> 0]
  /\ jobs' = jobs + 1
  /\ caller' = [pc |-> "assign", i |-> 1, task |-> NoTask]
  /\ runs' = [id \in TaskIds |-> 0]
  /\ UNCHANGED <<status, curr, end, worker>>

\* The caller's loops go on with the next thread.
NextThread(then) ==
  caller' = IF caller.i < max_threads THEN [caller EXCEPT !.i = @ + 1]
            ELSE [pc |-> then, i |-> 1, task |-> NoTask]

\* Mutant: the range of a thread begins one too early.
RangeOf_Overlap(t) ==
  [first |-> IF job.next = 0 THEN 0 ELSE job.next - 1, last |-> job.next + Share(t)]

\* The ids first .. last - 1 of thread t: they follow those of the thread before.
RangeOf(t) == [first |-> job.next, last |-> job.next + Share(t)]

\* The next thread gets its range and is set WORKING, or WAITING if it is empty.
Assign ==
  /\ caller.pc = "assign"
  /\ LET t == caller.i
         r == RangeOf(t)
         empty == r.first >= r.last
     IN /\ status' = [status EXCEPT ![t] = IF empty THEN "WAITING" ELSE "WORKING"]
        /\ curr' = [curr EXCEPT ![t] = IF empty THEN 0 ELSE r.first]
        /\ end' = [end EXCEPT ![t] = IF empty THEN -1 ELSE r.last]
        /\ job' = [job EXCEPT !.next = r.last]
  /\ NextThread("wait")
  /\ UNCHANGED <<worker, jobs, runs>>

\* Mutant: the caller waits for the threads of the first node only.
Finished_FirstNode(t) == status[t] # "WORKING" \/ Node[t] # 1

\* The caller waits for thread t no more.
Finished(t) == status[t] # "WORKING"

\* The next thread is done; after the last one the call returns.
WaitDone ==
  /\ caller.pc = "wait" /\ Finished(caller.i)
  /\ NextThread("idle")
  /\ UNCHANGED <<status, curr, end, worker, job, jobs, runs>>

\* The caller takes ids of a thread it waits for.
WaitSteal ==
  /\ caller.pc = "wait" /\ ~ Finished(caller.i) /\ caller_steal /\ job.k > 0
  /\ caller' = [caller EXCEPT !.pc = "fetch"]
  /\ UNCHANGED <<status, curr, end, worker, job, jobs, runs>>

-----------------------------------------------------------------------------
(* Handing out ids.                                                         *)

\* Mutant: the id after the range is taken for one of it.
Exhausted_Late(t) == curr[t] > end[t]

\* The fetch_add on curr of thread t returns an id past its range.
Exhausted(t) == curr[t] >= end[t]

FetchAdd(t) ==
  curr' = [curr EXCEPT ![t] = IF curr[t] > end[t] THEN curr[t] ELSE curr[t] + 1]

\* compute_func_(id) is called.
Compute(id) == runs' = [runs EXCEPT ![id] = @ + 1]

CallerFetch ==
  /\ caller.pc = "fetch"
  /\ FetchAdd(caller.i)
  /\ IF Exhausted(caller.i)
     THEN caller' = [caller EXCEPT !.pc = "wait"] /\ UNCHANGED runs
     ELSE /\ caller' = [caller EXCEPT !.pc = "run", !.task = curr[caller.i]]
          /\ Compute(curr[caller.i])
  /\ UNCHANGED <<status, end, worker, job, jobs>>

CallerRan ==
  /\ caller.pc = "run"
  /\ caller' = [caller EXCEPT !.pc = "fetch", !.task = NoTask]
  /\ UNCHANGED <<status, curr, end, worker, job, jobs, runs>>

-----------------------------------------------------------------------------
(* The worker threads.                                                      *)

\* worker_thread sees its status.
Poll(t) ==
  /\ worker[t].pc = "poll" /\ status[t] # "WAITING"
  /\ worker' = [worker EXCEPT ![t].pc = IF status[t] = "WORKING" THEN "own" ELSE "exited"]
  /\ UNCHANGED <<status, curr, end, caller, job, jobs, runs>>

\* process_tasks takes the next id of its own range.
Own(t) ==
  /\ worker[t].pc = "own"
  /\ IF status[t] # "WORKING"
     THEN worker' = [worker EXCEPT ![t] = [pc |-> "steal", offset |-> 1, task |-> NoTask]]
          /\ UNCHANGED <<curr, runs>>
     ELSE /\ FetchAdd(t)
          /\ IF Exhausted(t)
             THEN /\ worker' = [worker EXCEPT
                        ![t] = [pc |-> "steal", offset |-> 1, task |-> NoTask]]
                  /\ UNCHANGED runs
             ELSE /\ worker' = [worker EXCEPT
                        ![t] = [pc |-> "run", offset |-> 0, task |-> curr[t]]]
                  /\ Compute(curr[t])
  /\ UNCHANGED <<status, end, caller, job, jobs>>

\* compute_func_ returns, and the loop that called it goes on.
Ran(t) ==
  /\ worker[t].pc = "run"
  /\ worker' = [worker EXCEPT ![t].pc = IF worker[t].offset = 0 THEN "own" ELSE "fetch",
                              ![t].task = NoTask]
  /\ UNCHANGED <<status, curr, end, caller, job, jobs, runs>>

\* The thread to steal from.
Target(t) == ((t + worker[t].offset - 1) % max_threads) + 1

\* The next thread is looked at: a WORKING one of the same node is stolen from.
Steal(t) ==
  /\ worker[t].pc = "steal" /\ worker[t].offset < max_threads
  /\ worker' = [worker EXCEPT
       ![t] = IF Node[Target(t)] = Node[t] /\ status[Target(t)] = "WORKING"
              THEN [worker[t] EXCEPT !.pc = "fetch"]
              ELSE [worker[t] EXCEPT !.offset = worker[t].offset + 1]]
  /\ UNCHANGED <<status, curr, end, caller, job, jobs, runs>>

StealFetch(t) ==
  /\ worker[t].pc = "fetch"
  /\ FetchAdd(Target(t))
  /\ IF Exhausted(Target(t))
     THEN /\ worker' = [worker EXCEPT ![t].pc = "steal", ![t].offset = @ + 1]
          /\ UNCHANGED runs
     ELSE /\ worker' = [worker EXCEPT ![t].pc = "run", ![t].task = curr[Target(t)]]
          /\ Compute(curr[Target(t)])
  /\ UNCHANGED <<status, end, caller, job, jobs>>

\* Mutant: the thread waits for a turn that does not come.
StealingDone_Past(t) == worker[t].pc = "steal" /\ worker[t].offset > max_threads

\* Every other thread was looked at.
StealingDone(t) == worker[t].pc = "steal" /\ worker[t].offset >= max_threads

\* process_tasks ends.
Finalize(t) ==
  /\ StealingDone(t)
  /\ status' = [status EXCEPT ![t] = "WAITING"]
  /\ worker' = [worker EXCEPT ![t] = AtPoll]
  /\ UNCHANGED <<curr, end, caller, job, jobs, runs>>

-----------------------------------------------------------------------------
(* The end of the process.                                                  *)

\* Mutant: the last thread is forgotten.
Destroy_ButLast ==
  /\ caller.pc = "idle"
  /\ status' = [t \in Threads |-> IF t = max_threads THEN status[t] ELSE "EXIT"]
  /\ caller' = [caller EXCEPT !.pc = "join"]
  /\ UNCHANGED <<curr, end, worker, job, jobs, runs>>

\* ~Backend_NUMA, between two jobs.
Destroy ==
  /\ caller.pc = "idle"
  /\ status' = [t \in Threads |-> "EXIT"]
  /\ caller' = [caller EXCEPT !.pc = "join"]
  /\ UNCHANGED <<curr, end, worker, job, jobs, runs>>

Join ==
  /\ caller.pc = "join" /\ \A t \in Threads : worker[t].pc = "exited"
  /\ caller' = [caller EXCEPT !.pc = "destroyed"]
  /\ UNCHANGED <<status, curr, end, worker, job, jobs, runs>>

WorkerStep(t) == Poll(t) \/ Own(t) \/ Ran(t) \/ Steal(t) \/ StealFetch(t) \/ Finalize(t)

CallerStep == Assign \/ WaitDone \/ WaitSteal \/ CallerFetch \/ CallerRan \/ Join

Next ==
  \/ \E k \in 0 .. MaxTasks, nth \in 0 .. MaxTasks : StartJob(k, nth)
  \/ CallerStep \/ Destroy
  \/ \E t \in Threads : WorkerStep(t)

Spec == Init /\ [][Next]_vars

\* Every thread has a processor of its own, and the caller polls all the time.
FairSpec ==
  Spec /\ WF_vars(CallerStep) /\ \A t \in Threads : WF_vars(WorkerStep(t))

-----------------------------------------------------------------------------
(* Properties.                                                              *)

\* ThreadStatus, curr and end of every thread have their types, and
\* compute_func_ is called with ids of the job only.
TypeOK ==
  /\ status \in [Threads -> {"WORKING", "WAITING", "EXIT"}]
  /\ curr \in [Threads -> Nat] /\ end \in [Threads -> Nat \cup {-1}]
  /\ worker \in [Threads -> [pc : {"poll", "own", "run", "steal", "fetch", "exited"},
                             offset : Nat, task : TaskIds \cup {NoTask}]]
  /\ caller \in [pc : {"idle", "assign", "wait", "fetch", "run", "join", "destroyed"},
                 i : Threads \cup {0}, task : TaskIds \cup {NoTask}]
  /\ job \in [k : Nat, nth : Nat, next : Nat]
  /\ jobs \in Nat /\ runs \in [TaskIds -> Nat]

\* No id is computed twice in a job, whoever takes it and whenever a thread is
\* found WORKING.
ComputedAtMostOnce == \A id \in TaskIds : runs[id] <= 1

\* When the call returns, every id of the job has been computed and no thread
\* is still in process_tasks, where it would meet the functions and the ranges
\* of the next job.
ReturnsComplete ==
  caller.pc = "idle" /\ jobs > 0 =>
    /\ \A id \in TaskIds : runs[id] = (IF id < JobSize(job.k, job.nth) THEN 1 ELSE 0)
    /\ \A t \in Threads : worker[t].pc = "poll"

\* Every call of do_work and do_k_work_stealing_job returns: the caller does
\* not wait for ever for a thread to leave WORKING.
JobsReturn == caller.pc = "assign" ~> caller.pc = "idle"

\* ~Backend_NUMA returns: every thread sees EXIT and can be joined.
DestructorReturns == caller.pc = "join" ~> caller.pc = "destroyed"
=============================================================================
