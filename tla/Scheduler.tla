----------------------------- MODULE Scheduler -----------------------------
(***************************************************************************)
(* Scheduler and AsyncScheduler of vllm/v1/core/sched, driven by the steps  *)
(* of EngineCore: schedule() issues a step, up to batch_queue_size steps    *)
(* are in flight, update_from_output() handles the oldest one, and requests *)
(* arrive, are aborted and the prefix cache is reset in between.            *)
(*                                                                          *)
(* The loops of schedule(), update_from_output() and reset_prefix_cache()   *)
(* take one step per request; pc says which loop the engine thread is in,   *)
(* and nothing else of the engine runs until pc is back at "idle".          *)
(*                                                                          *)
(* The code only compares step numbers with processed_step_seq, so they are *)
(* kept relative to it: 0 stands for a step that is processed.              *)
(*                                                                          *)
(* The workers are external. They run the steps in the order in which they  *)
(* were issued and nothing else touches the KV memory, so the KV that a     *)
(* step writes is written here when the step is issued.                     *)
(*                                                                          *)
(* A KV connector is external too. It may offer to load the KV of the next  *)
(* tokens of a request that is about to be admitted; the transfer writes    *)
(* the request's blocks between steps, in full or up to a block that fails, *)
(* and the output of a later step reports it.                               *)
(*                                                                          *)
(* Left out: loads within a step, delayed sends, encoder inputs, LoRA,      *)
(* speculative tokens, structured outputs, streaming sessions and pausing.  *)
(***************************************************************************)
EXTENDS KVCacheManager

CONSTANTS
  policy,                    \* "fcfs" or "priority"
  Priority,                  \* the priority of each request, lower is sooner
  async_scheduling,          \* AsyncScheduler rather than Scheduler
  pp_size,                   \* pipeline stages
  max_num_scheduled_tokens,  \* token budget of a step
  long_prefill_token_threshold,  \* a request's tokens per step, 0 for no limit
  max_num_running_reqs,
  watermark_blocks,          \* free blocks an admission leaves to the others
  requires_kv_delivery,      \* drop the in-flight output of preempted requests
  Configurations,            \* the values of the variable config
  MaxAborts,                 \* bound on the aborts
  MaxLoads                   \* loads the connector offers for a request

ASSUME SchedulerAssumption ==
  /\ policy \in {"fcfs", "priority"}
  /\ {async_scheduling, requires_kv_delivery} \subseteq BOOLEAN
  /\ Configurations \subseteq [reserve_full_isl : BOOLEAN, defer_block_free : BOOLEAN,
                                kv_load : {"none", "recompute", "fail"},
                                max_resets : Nat]
  /\ {pp_size, max_num_scheduled_tokens, max_num_running_reqs} \subseteq Nat \ {0}
  /\ {long_prefill_token_threshold, watermark_blocks, MaxAborts, MaxLoads}
       \subseteq Nat
  /\ Priority \in [1 .. NumReqs -> Nat]
  \* max_model_len admits no request that the pool cannot hold alone
  /\ \A r \in 1 .. NumReqs :
       cdiv(num_prompt_tokens(r) + max_tokens, block_size) <= num_gpu_blocks - 1

VARIABLES
  config,              \* scheduler_reserve_full_isl; defer_block_free: batches
                       \* overlap with a KV-consumer connector; the connector's
                       \* kv_load_failure_policy, or "none" if it loads nothing;
                       \* a bound on the cache resets. Never changes
  m,                   \* the KVCacheManager
  kv,                  \* what the KV memory holds, per block and slot
  running, waiting, skipped_waiting,
  req,                 \* the fields of each Request
  in_flight,           \* issued steps whose output is not processed, oldest first
  sched_step_seq, deferred_frees,
  finished_req_ids,
  pc,                  \* the loop the engine thread is in
  loop,                \* the local variables of schedule()
  todo,                \* the entries of the step that update_from_output has left
  load,                \* the load of each request's KV by the connector
  aborts, resets,      \* calls made from outside so far
  loads                \* loads started for each request so far

vars == <<config, m, kv, running, waiting, skipped_waiting, req, in_flight, sched_step_seq,
          deferred_frees, finished_req_ids, pc, loop, todo, load, aborts, resets,
          loads>>

\* max_concurrent_batches, with the V2 model runner.
batch_queue_size == IF async_scheduling THEN pp_size + 1 ELSE pp_size

\* decode_wait is next_decode_eligible_step - current_step, not below 0, and
\* prefilling is membership in _inflight_prefills.
NewRequest(r) ==
  [status |-> "WAITING", num_tokens |-> num_prompt_tokens(r), num_computed_tokens |-> 0,
   num_in_flight_tokens |-> 0, num_output_placeholders |-> 0,
   num_stale_output_tokens |-> 0, drop_stale_output |-> FALSE, last_sched_seq |-> 0,
   decode_wait |-> 0, prefilling |-> FALSE]

\* A load: its state, first "transfer", then "arrived" and, once it is in
\* finished_recving_kv_req_ids, "finished"; the tokens before its first; its
\* blocks; the index of the first block that failed, or 0, and whether it is in
\* failed_recving_kv_req_ids; the steps in flight up to the one that starts it;
\* the status to go back to, which is PREEMPTED if num_preemptions > 0.
NoLoad == [state |-> "none", first |-> 0, blocks |-> {}, invalid |-> 0, failed |-> FALSE,
           steps |-> 0, back |-> "WAITING"]

NoLoop == [index |-> 0, request |-> 0, num_new |-> 0, budget |-> 0, scheduled |-> << >>,
           preempted |-> FALSE, skipped |-> << >>]

\* Requests the scheduler knows that are not finished.
Known == {r \in Reqs : req[r].status \notin {"ABSENT", "FINISHED"}}

Init ==
  /\ config \in Configurations
  /\ m = InitManager
  /\ kv = [b \in Blocks |-> [s \in 1 .. block_size |-> << >>]]
  /\ running = << >> /\ waiting = << >> /\ skipped_waiting = << >>
  /\ req = [r \in Reqs |-> [NewRequest(r) EXCEPT !.status = "ABSENT"]]
  /\ in_flight = << >>
  /\ sched_step_seq = 0 /\ deferred_frees = << >>
  /\ finished_req_ids = {}
  /\ pc = "idle" /\ loop = NoLoop /\ todo = << >>
  /\ load = [r \in Reqs |-> NoLoad]
  /\ aborts = 0 /\ resets = 0 /\ loads = [r \in Reqs |-> 0]

\* remove_request and remove_all: no queue holds a request twice.
Without(s, r) == RemoveFirst(s, r)

\* Request.__lt__: the order of the priority queue and of preemption.
Before(q, r) ==
  Priority[q] < Priority[r] \/ (Priority[q] = Priority[r] /\ q < r)

\* peek_request of a queue.
Peek(s) ==
  IF policy = "fcfs" THEN Head(s)
  ELSE CHOOSE r \in ToSet(s) : \A q \in ToSet(s) : q = r \/ Before(r, q)

\* _select_waiting_queue_for_scheduling, as the request that it puts at the head.
NextWaiting ==
  IF skipped_waiting # << >>
     /\ (waiting # << >> =>
           policy = "fcfs" \/ ~ Before(Peek(waiting), Peek(skipped_waiting)))
  THEN Peek(skipped_waiting) ELSE Peek(waiting)

-----------------------------------------------------------------------------
(* Freeing the blocks of a request.                                         *)

\* Mutant: the fence of deferred frees is not looked at.
CanFreeNow_Always(r) == TRUE

\* No step in flight can still write the request's blocks.
CanFreeNow(r) == ~ config.defer_block_free \/ req[r].last_sched_seq = 0

\* Mutant: the blocks that cannot be freed yet are lost.
FreeRequestBlocks_Lost(k, r) ==
  /\ m' = IF CanFreeNow(r) THEN free(k, r) ELSE pop_blocks_for_free(k, r)
  /\ UNCHANGED deferred_frees

\* _free_request_blocks of r in manager k.
FreeRequestBlocks(k, r) ==
  IF CanFreeNow(r)
  THEN m' = free(k, r) /\ UNCHANGED deferred_frees
  ELSE /\ m' = pop_blocks_for_free(k, r)
       /\ deferred_frees' =
            IF k.req_to_blocks[r] = << >> THEN deferred_frees
            ELSE Append(deferred_frees, <<sched_step_seq, k.req_to_blocks[r]>>)

\* Mutant: output in flight is not remembered as stale.
Preempted_Fresh(r, drop) ==
  [req[r] EXCEPT !.status = "PREEMPTED", !.num_computed_tokens = 0,
                 !.num_output_placeholders = 0, !.prefilling = FALSE]

\* The fields of a request that _preempt_request puts back.
Preempted(r, drop) ==
  [req[r] EXCEPT
     !.status = "PREEMPTED", !.num_computed_tokens = 0, !.num_output_placeholders = 0,
     !.prefilling = FALSE,
     !.drop_stale_output = drop \/ (@ /\ req[r].num_stale_output_tokens > 0),
     !.num_stale_output_tokens = req[r].num_in_flight_tokens]

\* _preempt_request, for a request the caller takes out of running.
PreemptRequest(r, drop) ==
  /\ FreeRequestBlocks(m, r)
  /\ req' = [req EXCEPT ![r] = Preempted(r, drop)]
  /\ running' = Without(running, r)
  /\ waiting' = <<r>> \o waiting

-----------------------------------------------------------------------------
(* schedule().                                                              *)

\* Mutant: a finished request that waits for its load is forgotten.
has_requests_QueuesOnly ==
  running # << >> \/ waiting # << >> \/ skipped_waiting # << >> \/ finished_req_ids # {}

\* A finished request that waits for its load keeps the engine going.
has_requests ==
  \/ running # << >> \/ waiting # << >> \/ skipped_waiting # << >>
  \/ finished_req_ids # {}
  \/ \E r \in Reqs : req[r].status = "FINISHED" /\ load[r].state # "none"

ScheduleBegin ==
  /\ pc = "idle" /\ Len(in_flight) < batch_queue_size /\ has_requests
  /\ pc' = "running"
  /\ loop' = [NoLoop EXCEPT !.index = 1, !.budget = max_num_scheduled_tokens]
  /\ req' = [r \in Reqs |-> [req[r] EXCEPT !.decode_wait = AtLeast0(@ - 1)]]
  /\ UNCHANGED <<m, kv, running, waiting, skipped_waiting, in_flight, sched_step_seq,
                 deferred_frees, finished_req_ids, todo, load, aborts, resets, loads>>

RunningLeft == loop.index <= Len(running) /\ loop.budget > 0

\* The step in flight is sure to reach max_tokens.
ReachesMaxTokens(r) ==
  /\ req[r].num_output_placeholders > 0
  /\ req[r].num_computed_tokens + 2 - req[r].num_output_placeholders
       >= num_prompt_tokens(r) + max_tokens

\* The tokens of the wanted ones that the step takes.
Chunk(wanted) ==
  LET limit == long_prefill_token_threshold
  IN Min2(IF 0 < limit /\ limit < wanted THEN limit ELSE wanted, loop.budget)

NumNewTokens(r) ==
  Chunk(req[r].num_tokens + req[r].num_output_placeholders - req[r].num_computed_tokens)

\* The head of the loop over running: skip the request or try to allocate.
RunningSelect ==
  /\ pc = "running" /\ RunningLeft
  /\ LET r == running[loop.index] IN
       IF ReachesMaxTokens(r) \/ req[r].decode_wait > 0 \/ NumNewTokens(r) = 0
       THEN loop' = [loop EXCEPT !.index = @ + 1] /\ UNCHANGED pc
       ELSE /\ loop' = [loop EXCEPT !.request = r, !.num_new = NumNewTokens(r)]
            /\ pc' = "allocate"
  /\ UNCHANGED <<m, kv, running, waiting, skipped_waiting, req, in_flight, sched_step_seq,
                 deferred_frees, finished_req_ids, todo, load, aborts, resets, loads>>

RunningDone ==
  /\ pc = "running" /\ ~ RunningLeft
  /\ pc' = IF loop.preempted THEN "issue" ELSE "waiting"
  /\ UNCHANGED <<m, kv, running, waiting, skipped_waiting, req, in_flight, sched_step_seq,
                 deferred_frees, finished_req_ids, loop, todo, load, aborts, resets, loads>>

\* allocate_slots for a running request finds its blocks.
Fits(r) ==
  num_blocks_to_allocate(m, r, req[r].num_computed_tokens + loop.num_new, << >>)
    <= get_num_free_blocks(m.pool)

RunningAllocate ==
  /\ pc = "allocate" /\ Fits(loop.request)
  /\ LET r == loop.request IN
       /\ m' = allocate_slots(m, r, << >>, req[r].num_computed_tokens, loop.num_new,
                              req[r].num_tokens)
       /\ loop' = [loop EXCEPT !.index = @ + 1, !.budget = @ - loop.num_new,
                               !.scheduled = Append(@, <<r, loop.num_new>>)]
  /\ pc' = "running"
  /\ UNCHANGED <<kv, running, waiting, skipped_waiting, req, in_flight, sched_step_seq,
                 deferred_frees, finished_req_ids, todo, load, aborts, resets, loads>>

\* The request that gives way: the last admitted one, or the one of lowest
\* priority.
Victim ==
  IF policy = "fcfs" THEN Last(running)
  ELSE CHOOSE r \in ToSet(running) : \A q \in ToSet(running) : q = r \/ Before(q, r)

\* The cursor after the victim has left running.
IndexAfter(v) ==
  IF \E i \in 1 .. (loop.index - 1) : running[i] = v THEN loop.index - 1 ELSE loop.index

\* allocate_slots returns None: preempt, and try again unless the request
\* itself had to give way. A victim already scheduled in this step is taken
\* out of the step and its tokens go back to the budget.
RunningPreempt ==
  /\ pc = "allocate" /\ ~ Fits(loop.request)
  /\ PreemptRequest(Victim, requires_kv_delivery)
  /\ LET kept == {e \in ToSet(loop.scheduled) : e[1] # Victim}
         dropped == ToSet(loop.scheduled) \ kept
     IN /\ loop' = [loop EXCEPT
              !.preempted = TRUE, !.index = IndexAfter(Victim), !.scheduled = Filter(@, kept),
              !.budget = IF dropped = {} THEN @ ELSE @ + (CHOOSE e \in dropped : TRUE)[2]]
        /\ pc' = IF Victim = loop.request THEN "issue" ELSE "allocate"
  /\ UNCHANGED <<kv, skipped_waiting, in_flight, sched_step_seq, finished_req_ids, todo,
                 load, aborts, resets, loads>>

CanAdmit ==
  /\ waiting # << >> \/ skipped_waiting # << >>
  /\ loop.budget > 0
  /\ Len(running) < max_num_running_reqs

\* Mutant: the queue of skipped requests is forgotten.
Dequeue_WaitingOnly(r) ==
  waiting' = Without(waiting, r) /\ UNCHANGED skipped_waiting

\* pop_request of the queue that r is in, or remove_requests of both.
Dequeue(r) ==
  waiting' = Without(waiting, r) /\ skipped_waiting' = Without(skipped_waiting, r)

\* Stale output that will be delivered is still in flight: the request waits.
AwaitsStaleOutput(r) == req[r].num_stale_output_tokens > 0 /\ ~ req[r].drop_stale_output

Loading(r) == req[r].status = "WAITING_FOR_REMOTE_KVS"

WaitingSkip ==
  /\ pc = "waiting" /\ CanAdmit
  /\ IF Loading(NextWaiting) THEN load[NextWaiting].state # "finished"
     ELSE AwaitsStaleOutput(NextWaiting)
  /\ Dequeue(NextWaiting)
  /\ loop' = [loop EXCEPT !.skipped = <<NextWaiting>> \o @]
  /\ UNCHANGED <<m, kv, running, req, in_flight, sched_step_seq, deferred_frees,
                 finished_req_ids, pc, todo, load, aborts, resets, loads>>

\* _try_promote_blocked_waiting_request after the load is finished: what it
\* loaded is cached. The last token is computed again if all were loaded; the
\* blocks are freed if none was.
WaitingPromote ==
  /\ pc = "waiting" /\ CanAdmit
  /\ Loading(NextWaiting) /\ load[NextWaiting].state = "finished"
  /\ LET r == NextWaiting
         n == req[r].num_computed_tokens
     IN /\ m' = IF load[r].failed /\ n = 0 THEN free(m, r) ELSE cache_blocks(m, r, n)
        /\ req' = [req EXCEPT
             ![r].status = load[r].back,
             ![r].num_computed_tokens =
               IF ~ load[r].failed /\ n = req[r].num_tokens THEN n - 1 ELSE n]
        /\ load' = [load EXCEPT ![r] = NoLoad]
  /\ UNCHANGED <<kv, running, waiting, skipped_waiting, in_flight, sched_step_seq,
                 deferred_frees, finished_req_ids, pc, loop, todo, aborts, resets, loads>>

\* The request at the head may be admitted. The block lists that its lookup may
\* return: a request that comes from a load has its tokens already.
Ready(r) == ~ Loading(r) /\ ~ AwaitsStaleOutput(r)
Hits(r) ==
  IF req[r].num_computed_tokens = 0 THEN get_computed_blocks(m, r, req[r].num_tokens)
  ELSE {<< >>}
NumComputed(r, hits) == req[r].num_computed_tokens + Len(hits) * block_size

Watermark == IF running = << >> THEN 0 ELSE watermark_blocks

\* The blocks needed to admit r, with the full sequence or the first chunk, and
\* the watermark when anything else runs.
AdmissionFits(r, hits) ==
  LET computed == NumComputed(r, hits)
      chunk == Chunk(req[r].num_tokens - computed)
  IN num_blocks_to_allocate(m, r, IF config.reserve_full_isl THEN req[r].num_tokens
                                  ELSE computed + chunk, hits)
       + Watermark <= get_num_free_blocks(m.pool)

\* A waiting request is admitted with its prefix-cache hits.
WaitingAdmit ==
  /\ pc = "waiting" /\ CanAdmit /\ Ready(NextWaiting)
  /\ LET r == NextWaiting IN
     \E hits \in Hits(r) :
       LET computed == NumComputed(r, hits)
           num_new == Chunk(req[r].num_tokens - computed)
       IN /\ AdmissionFits(r, hits)
          /\ m' = allocate_slots(m, r, hits, computed, num_new, req[r].num_tokens)
          /\ Dequeue(r)
          /\ running' = Append(running, r)
          /\ req' = [req EXCEPT
               ![r].status = "RUNNING", ![r].num_computed_tokens = computed,
               ![r].prefilling = @ \/ computed + num_new < req[r].num_tokens]
          /\ loop' = [loop EXCEPT !.budget = @ - num_new,
                                  !.scheduled = Append(@, <<r, num_new>>)]
  /\ UNCHANGED <<kv, in_flight, sched_step_seq, deferred_frees, finished_req_ids, pc, todo,
                 load, aborts, resets, loads>>

\* get_num_new_matched_tokens: how far, beyond the n tokens that are cached
\* here, the connector may offer to load the tokens of r.
Offers(r, n) ==
  IF config.kv_load = "none" \/ loads[r] = MaxLoads \/ req[r].num_computed_tokens > 0 THEN {}
  ELSE {e \in (n + 1) .. req[r].num_tokens : e % block_size = 0 \/ e = req[r].num_tokens}

\* The sums of the first i numbers of s.
Sums(s) ==
  LET sum[i \in 0 .. Len(s)] == IF i = 0 THEN 0 ELSE sum[i - 1] + s[i]
  IN sum

\* _inflight_prefill_reserved_blocks: what unfinished prefills still need.
ReservedBlocks ==
  Sums([q \in Reqs |-> IF req[q].prefilling
                       THEN num_blocks_to_allocate(m, q, req[q].num_tokens, << >>)
                       ELSE 0])[NumReqs]

\* The blocks needed to load r up to token end, which nobody can take away
\* until it is loaded.
LoadFits(r, hits, end) ==
  /\ num_blocks_to_allocate(m, r, end, hits) + Watermark + ReservedBlocks
       <= get_num_free_blocks(m.pool)
  /\ config.reserve_full_isl =>
       num_blocks_to_allocate(m, r, req[r].num_tokens, hits) + Watermark
         <= get_num_free_blocks(m.pool)

\* Mutant: the blocks are cached as if they were loaded already.
LoadAllocation_Cached(r, hits, end) == allocate_slots(m, r, hits, end, 0, end)

\* allocate_slots with delay_cache_blocks.
LoadAllocation(r, hits, end) == allocate_blocks(m, r, hits, end)

\* The connector loads: blocks are allocated and the request is put aside until
\* a step reports that its load is finished. The step that is being scheduled
\* starts the load.
WaitingLoad ==
  /\ pc = "waiting" /\ CanAdmit /\ Ready(NextWaiting)
  /\ LET r == NextWaiting IN
     \E hits \in Hits(r) : \E end \in Offers(r, NumComputed(r, hits)) :
       /\ LoadFits(r, hits, end)
       /\ m' = LoadAllocation(r, hits, end)
       /\ Dequeue(r)
       /\ req' = [req EXCEPT ![r].status = "WAITING_FOR_REMOTE_KVS",
                             ![r].num_computed_tokens = end, ![r].prefilling = TRUE]
       /\ load' = [load EXCEPT ![r] =
            [NoLoad EXCEPT !.state = "transfer", !.first = NumComputed(r, hits),
                           !.blocks = ToSet(m'.req_to_blocks[r]) \ ToSet(hits),
                           !.steps = Len(in_flight) + 1, !.back = req[r].status]]
       /\ loads' = [loads EXCEPT ![r] = @ + 1]
       /\ loop' = [loop EXCEPT !.skipped = <<r>> \o @]
  /\ UNCHANGED <<kv, running, in_flight, sched_step_seq, deferred_frees, finished_req_ids,
                 pc, todo, aborts, resets>>

\* The loop over the waiting requests ends, at the latest at one that does not
\* fit. The skipped requests go in front of skipped_waiting, in their order.
WaitingDone ==
  /\ pc = "waiting"
  /\ \/ ~ CanAdmit
     \/ /\ CanAdmit /\ Ready(NextWaiting)
        /\ \E hits \in Hits(NextWaiting) :
             \/ ~ AdmissionFits(NextWaiting, hits)
             \/ \E end \in Offers(NextWaiting, NumComputed(NextWaiting, hits)) :
                  ~ LoadFits(NextWaiting, hits, end)
  /\ skipped_waiting' = Reverse(loop.skipped) \o skipped_waiting
  /\ pc' = "issue"
  /\ UNCHANGED <<m, kv, running, waiting, req, in_flight, sched_step_seq, deferred_frees,
                 finished_req_ids, loop, todo, load, aborts, resets, loads>>

\* The KV of the tokens from first to last of r, slot by slot, block by block.
Writes(r, first, last) ==
  {[block |-> m.req_to_blocks[r][((p - 1) \div block_size) + 1],
    slot |-> ((p - 1) % block_size) + 1, content |-> PrefixId[r][p]] : p \in first .. last}

\* The KV that the step writes for its entries <<r, n>>.
StepWrites ==
  UNION {LET e == loop.scheduled[i]
         IN Writes(e[1], req[e[1]].num_computed_tokens + 1, req[e[1]].num_computed_tokens + e[2]) :
           i \in DOMAIN loop.scheduled}

\* The KV memory after the writes ws.
Written(ws) ==
  [b \in Blocks |-> [t \in 1 .. block_size |->
     IF \E w \in ws : w.block = b /\ w.slot = t
     THEN (CHOOSE w \in ws : w.block = b /\ w.slot = t).content ELSE kv[b][t]]]

\* The request's tokens are all scheduled, so the step samples its next one.
Samples(r, n) ==
  req[r].num_computed_tokens + n
    >= req[r].num_tokens + req[r].num_output_placeholders

\* The end of schedule(): the step is issued, and _update_after_schedule
\* advances its requests (and AsyncScheduler reserves their output).
Issue ==
  /\ pc = "issue"
  /\ LET s == loop.scheduled
         entry(r) == CHOOSE e \in ToSet(s) : e[1] = r
         seq == sched_step_seq + (IF config.defer_block_free /\ s # << >> THEN 1 ELSE 0)
     IN /\ in_flight' = Append(in_flight,
             [i \in DOMAIN s |->
                [request |-> s[i][1], num |-> s[i][2],
                 position |-> req[s[i][1]].num_computed_tokens + s[i][2] + 1,
                 samples |-> Samples(s[i][1], s[i][2]),
                 blocks |-> ToSet(m.req_to_blocks[s[i][1]])]])
        /\ kv' = Written(StepWrites)
        /\ sched_step_seq' = seq
        /\ req' = [r \in Reqs |->
             IF \A e \in ToSet(s) : e[1] # r THEN req[r]
             ELSE [req[r] EXCEPT
                     !.num_computed_tokens = @ + entry(r)[2],
                     !.num_in_flight_tokens = @ + entry(r)[2],
                     !.last_sched_seq = seq,
                     !.prefilling = @ /\ ~ Samples(r, entry(r)[2]),
                     !.num_output_placeholders =
                       IF async_scheduling /\ Samples(r, entry(r)[2]) THEN @ + 1 ELSE @,
                     !.decode_wait =
                       IF async_scheduling /\ Samples(r, entry(r)[2]) THEN pp_size ELSE @]]
  /\ finished_req_ids' = {}
  /\ pc' = "idle" /\ loop' = NoLoop
  /\ UNCHANGED <<m, running, waiting, skipped_waiting, deferred_frees,
                 todo, load, aborts, resets, loads>>

-----------------------------------------------------------------------------
(* update_from_output().                                                    *)

\* processed_step_seq advances: every step number is one less relative to it.
StepProcessed ==
  /\ sched_step_seq' = sched_step_seq - 1
  /\ req' = [r \in Reqs |-> [req[r] EXCEPT !.last_sched_seq = AtLeast0(@ - 1)]]
  /\ deferred_frees' = [i \in DOMAIN deferred_frees |->
                          <<deferred_frees[i][1] - 1, deferred_frees[i][2]>>]

\* EngineCore waits for the oldest step when the batch queue is full or there
\* is nothing to schedule.
UpdateBegin ==
  /\ pc = "idle" /\ in_flight # << >>
  /\ Len(in_flight) = batch_queue_size \/ ~ has_requests
  /\ pc' = "drain" /\ todo' = Head(in_flight)
  /\ IF config.defer_block_free /\ Head(in_flight) # << >> THEN StepProcessed
     ELSE UNCHANGED <<sched_step_seq, req, deferred_frees>>
  /\ UNCHANGED <<m, kv, running, waiting, skipped_waiting, in_flight, finished_req_ids,
                 loop, load, aborts, resets, loads>>

\* Mutant: the fence is taken for the first step that may not run any more.
FenceReached_Late == deferred_frees # << >> /\ deferred_frees[1][1] < 0

\* The first deferred free waits for no step in flight.
FenceReached == deferred_frees # << >> /\ deferred_frees[1][1] <= 0

\* _drain_deferred_frees, entry by entry; an empty step does not call it.
DrainOne ==
  /\ pc = "drain" /\ todo # << >> /\ FenceReached
  /\ m' = [m EXCEPT !.pool = free_blocks(@, Reverse(deferred_frees[1][2]))]
  /\ deferred_frees' = Tail(deferred_frees)
  /\ UNCHANGED <<kv, running, waiting, skipped_waiting, req, in_flight, sched_step_seq,
                 finished_req_ids, pc, loop, todo, load, aborts, resets, loads>>

\* The output that is processed reports that blocks of the load are invalid.
Invalid(r) == Loading(r) /\ load[r].state = "arrived" /\ load[r].invalid > 0

\* Mutant: the failed load counts as computed up to the block that failed.
ValidTokens_WithFailed(r) == load[r].invalid * block_size

\* The tokens before the first invalid block.
ValidTokens(r) == (load[r].invalid - 1) * block_size

\* The loop over the entries begins; before it, _handle_invalid_blocks takes
\* back what failed to load.
DrainDone ==
  /\ pc = "drain" /\ ~ (todo # << >> /\ FenceReached)
  /\ pc' = "update"
  /\ req' = [r \in Reqs |-> IF Invalid(r)
                            THEN [req[r] EXCEPT !.num_computed_tokens = ValidTokens(r)]
                            ELSE req[r]]
  /\ load' = [r \in Reqs |-> [load[r] EXCEPT
                !.failed = @ \/ (Invalid(r) /\ config.kv_load = "recompute")]]
  /\ UNCHANGED <<m, kv, running, waiting, skipped_waiting, in_flight, sched_step_seq,
                 deferred_frees, finished_req_ids, loop, todo, aborts, resets, loads>>

IsStale(r) == req[r].num_stale_output_tokens > 0

\* Mutant: stale output is not drained with its step.
Landed_KeepStale(e) == [req[e.request] EXCEPT !.num_in_flight_tokens = @ - e.num]

\* The request of the entry, with the entry's tokens no longer in flight.
Landed(e) ==
  [req[e.request] EXCEPT
     !.num_in_flight_tokens = @ - e.num,
     !.num_stale_output_tokens = IF @ > 0 THEN @ - e.num ELSE @]

\* The entry has a token for a request that still wants it.
Delivers(e) ==
  /\ e.request \in Known /\ e.samples
  /\ ~ (IsStale(e.request) /\ req[e.request].drop_stale_output)

UpdateNoOutput ==
  /\ pc = "update" /\ todo # << >> /\ ~ Delivers(Head(todo))
  /\ req' = IF Head(todo).request \in Known
            THEN [req EXCEPT ![Head(todo).request] = Landed(Head(todo))] ELSE req
  /\ todo' = Tail(todo)
  /\ UNCHANGED <<m, kv, running, waiting, skipped_waiting, in_flight, sched_step_seq,
                 deferred_frees, finished_req_ids, pc, loop, load, aborts, resets, loads>>

\* Mutant: stale output uses up a placeholder too.
WithOutput_StaleToo(e) ==
  [Landed(e) EXCEPT !.num_tokens = @ + 1,
                    !.num_output_placeholders = IF async_scheduling THEN @ - 1 ELSE @]

\* _update_request_with_output: the token is appended.
WithOutput(e) ==
  [Landed(e) EXCEPT
     !.num_tokens = @ + 1,
     !.num_output_placeholders =
       IF async_scheduling /\ ~ IsStale(e.request) THEN @ - 1 ELSE @]

\* AsyncScheduler caches the new tokens of a request that still runs.
CachedAfter(e) ==
  IF async_scheduling /\ req[e.request].status = "RUNNING"
  THEN cache_blocks(m, e.request, WithOutput(e).num_computed_tokens
                                  - WithOutput(e).num_output_placeholders)
  ELSE m

HitsMaxTokens(e) ==
  WithOutput(e).num_tokens - num_prompt_tokens(e.request) >= max_tokens

\* The token is delivered and the request goes on.
UpdateDeliver ==
  /\ pc = "update" /\ todo # << >> /\ Delivers(Head(todo)) /\ ~ HitsMaxTokens(Head(todo))
  /\ LET e == Head(todo) IN
       /\ req' = [req EXCEPT ![e.request] = WithOutput(e)]
       /\ m' = CachedAfter(e)
  /\ todo' = Tail(todo)
  /\ UNCHANGED <<kv, running, waiting, skipped_waiting, in_flight, sched_step_seq,
                 deferred_frees, finished_req_ids, pc, loop, load, aborts, resets, loads>>

\* check_stop is true, for an end-of-sequence or a stop token or at max_tokens:
\* the request, running or preempted, leaves its queue and is freed. (The code
\* takes the stopped requests out of the queues after the loop, which reads
\* none of them.)
UpdateStop ==
  /\ pc = "update" /\ todo # << >> /\ Delivers(Head(todo))
  /\ LET e == Head(todo) IN
       /\ FreeRequestBlocks(CachedAfter(e), e.request)
       /\ req' = [req EXCEPT ![e.request] =
                     [WithOutput(e) EXCEPT !.status = "FINISHED", !.prefilling = FALSE]]
       /\ running' = Without(running, e.request)
       /\ Dequeue(e.request)
       /\ finished_req_ids' = finished_req_ids \cup {e.request}
  /\ todo' = Tail(todo)
  /\ UNCHANGED <<kv, in_flight, sched_step_seq, pc, loop, load, aborts, resets, loads>>

\* Mutant: the blocks are freed although the load goes on.
DelaysFree_Never(r) == FALSE

\* The load still writes the request's blocks, so far as the scheduler knows.
DelaysFree(r) == Loading(r) /\ load[r].state # "finished"

\* finish_requests of r, which is not finished.
FinishRequest(r) ==
  /\ running' = Without(running, r)
  /\ Dequeue(r)
  /\ IF DelaysFree(r) THEN UNCHANGED <<m, deferred_frees>> ELSE FreeRequestBlocks(m, r)
  /\ load' = [load EXCEPT ![r] = IF @.state = "finished" THEN NoLoad
                                 ELSE [@ EXCEPT !.failed = FALSE]]
  /\ req' = [req EXCEPT ![r].status = "FINISHED", ![r].prefilling = FALSE]
  /\ finished_req_ids' = finished_req_ids \cup {r}

\* With the policy "fail" a request whose load failed is finished.
UpdateLoadError(r) ==
  /\ pc = "update" /\ todo = << >> /\ Invalid(r) /\ config.kv_load = "fail"
  /\ FinishRequest(r)
  /\ UNCHANGED <<kv, in_flight, sched_step_seq, pc, loop, todo, aborts, resets, loads>>

\* _update_from_kv_xfer_finished: the load is known to be finished, and if its
\* request is finished too the blocks are free at last.
UpdateLoadFinished(r) ==
  /\ pc = "update" /\ todo = << >> /\ load[r].state = "arrived"
  /\ config.kv_load = "fail" => \A q \in Reqs : ~ Invalid(q)
  /\ IF Loading(r)
     THEN /\ load' = [load EXCEPT ![r].state = "finished"]
          /\ UNCHANGED <<m, deferred_frees>>
     ELSE /\ load' = [load EXCEPT ![r] = NoLoad]
          /\ FreeRequestBlocks(m, r)
  /\ UNCHANGED <<kv, running, waiting, skipped_waiting, req, in_flight, sched_step_seq,
                 finished_req_ids, pc, loop, todo, aborts, resets, loads>>

UpdateDone ==
  /\ pc = "update" /\ todo = << >> /\ \A r \in Reqs : load[r].state # "arrived"
  /\ in_flight' = Tail(in_flight)
  /\ load' = [r \in Reqs |-> [load[r] EXCEPT !.steps = AtLeast0(@ - 1)]]
  /\ pc' = "idle"
  /\ UNCHANGED <<m, kv, running, waiting, skipped_waiting, req, sched_step_seq,
                 deferred_frees, finished_req_ids, loop, todo, aborts, resets, loads>>

-----------------------------------------------------------------------------
(* Calls from outside. New requests and utility calls are taken between two *)
(* steps of the engine, aborts also while it waits for a step.              *)

BetweenSteps == pc = "idle" /\ Len(in_flight) < batch_queue_size

add_request(r) ==
  /\ BetweenSteps /\ req[r].status = "ABSENT"
  /\ req' = [req EXCEPT ![r] = NewRequest(r)]
  /\ waiting' = Append(waiting, r)
  /\ UNCHANGED <<m, kv, running, skipped_waiting, in_flight, sched_step_seq, deferred_frees,
                 finished_req_ids, pc, loop, todo, load, aborts, resets, loads>>

\* An abort.
finish_requests(r) ==
  /\ pc = "idle" /\ r \in Known /\ aborts < MaxAborts
  /\ aborts' = aborts + 1
  /\ FinishRequest(r)
  /\ UNCHANGED <<kv, in_flight, sched_step_seq, pc, loop, todo, resets, loads>>

\* The connector's transfer ends, with all its blocks written or those before
\* the first that failed. The engine learns of it from the output of the step
\* that is processed next, at the earliest the one that started the load, so
\* the transfers that end between its loops are all the cases.
LoadArrives(r) ==
  /\ pc = "idle" /\ load[r].state = "transfer" /\ load[r].steps <= 1
  /\ LET end == req[r].num_computed_tokens IN
     \E i \in {0} \cup (((load[r].first \div block_size) + 1) .. cdiv(end, block_size)) :
       /\ load' = [load EXCEPT ![r].state = "arrived", ![r].invalid = i]
       /\ kv' = Written(Writes(r, load[r].first + 1,
                               IF i = 0 THEN end ELSE (i - 1) * block_size))
  /\ UNCHANGED <<m, running, waiting, skipped_waiting, req, in_flight, sched_step_seq,
                 deferred_frees, finished_req_ids, pc, loop, todo, aborts, resets, loads>>

\* reset_prefix_cache(reset_running_requests) begins.
ResetBegin(reset_running) ==
  /\ BetweenSteps /\ resets < config.max_resets
  /\ resets' = resets + 1
  /\ pc' = IF reset_running THEN "reset_running" ELSE "reset"
  /\ UNCHANGED <<m, kv, running, waiting, skipped_waiting, req, in_flight, sched_step_seq,
                 deferred_frees, finished_req_ids, loop, todo, load, aborts, loads>>

\* Every running request is preempted, the last first.
ResetPreempt ==
  /\ pc = "reset_running" /\ running # << >>
  /\ PreemptRequest(Last(running), TRUE)
  /\ UNCHANGED <<kv, skipped_waiting, in_flight, sched_step_seq, finished_req_ids, pc, loop,
                 todo, load, aborts, resets, loads>>

\* The pool is reset if all its blocks are free. If they are not although every
\* running request was preempted, reset_prefix_cache raises RuntimeError, which
\* EngineCore reports to the caller before it goes on.
ResetEnd ==
  /\ pc = "reset" \/ (pc = "reset_running" /\ running = << >>)
  /\ m' = IF CanReset(m.pool) THEN [m EXCEPT !.pool = reset_prefix_cache(@)] ELSE m
  /\ pc' = IF pc = "reset_running" /\ ~ CanReset(m.pool) THEN "reset_failed" ELSE "idle"
  /\ UNCHANGED <<kv, running, waiting, skipped_waiting, req, in_flight, sched_step_seq,
                 deferred_frees, finished_req_ids, loop, todo, load, aborts, resets, loads>>

ResetRaised ==
  /\ pc = "reset_failed" /\ pc' = "idle"
  /\ UNCHANGED <<m, kv, running, waiting, skipped_waiting, req, in_flight, sched_step_seq,
                 deferred_frees, finished_req_ids, loop, todo, load, aborts, resets, loads>>

-----------------------------------------------------------------------------
EngineStep ==
  \/ ScheduleBegin \/ RunningSelect \/ RunningDone \/ RunningAllocate \/ RunningPreempt
  \/ WaitingSkip \/ WaitingPromote \/ WaitingAdmit \/ WaitingLoad \/ WaitingDone \/ Issue
  \/ UpdateBegin \/ DrainOne \/ DrainDone \/ UpdateNoOutput \/ UpdateDeliver
  \/ UpdateStop \/ UpdateDone \/ ResetPreempt \/ ResetEnd \/ ResetRaised
  \/ \E r \in Reqs : UpdateLoadError(r) \/ UpdateLoadFinished(r)

ClientStep ==
  \/ \E r \in Reqs : add_request(r) \/ finish_requests(r)
  \/ \E reset_running \in BOOLEAN : ResetBegin(reset_running)

Next == (EngineStep \/ ClientStep \/ \E r \in Reqs : LoadArrives(r)) /\ UNCHANGED config

Spec == Init /\ [][Next]_vars

\* run_busy_loop steps the engine as long as it has requests or steps in flight,
\* and every load ends while it does so.
FairSpec ==
  /\ Spec
  /\ WF_vars(EngineStep /\ UNCHANGED config)
  /\ SF_vars((\E r \in Reqs : LoadArrives(r)) /\ UNCHANGED config)

-----------------------------------------------------------------------------
(* Properties.                                                              *)

\* The queues hold requests and the tables blocks, no counter of a Request is
\* negative (the schedulers assert num_output_placeholders >= 0), and no more
\* than batch_queue_size steps are in flight.
TypeOK ==
  /\ m.pool.free \in Seq(Blocks) /\ m.pool.ref \in [Blocks -> Nat]
  /\ m.req_to_blocks \in [Reqs -> Seq(Blocks)]
  /\ m.num_cached_block \in [Reqs -> Nat]
  /\ {running, waiting, skipped_waiting} \subseteq Seq(Reqs)
  /\ \A r \in Reqs :
       /\ req[r].status \in {"ABSENT", "WAITING", "WAITING_FOR_REMOTE_KVS", "RUNNING",
                           "PREEMPTED", "FINISHED"}
       /\ {req[r].num_tokens, req[r].num_computed_tokens, req[r].num_in_flight_tokens,
           req[r].num_output_placeholders, req[r].num_stale_output_tokens} \subseteq Nat
       /\ req[r].decode_wait \in 0 .. pp_size
  /\ Len(in_flight) \in 0 .. batch_queue_size
  /\ sched_step_seq \in 0 .. batch_queue_size
  /\ pc \in {"idle", "running", "allocate", "waiting", "issue", "drain", "update",
             "reset", "reset_running", "reset_failed"}

\* Every block is referenced once by each table and each deferred free that
\* holds it and by nothing else, and is in the free queue exactly when it is
\* not referenced: no block leaks, is freed twice or is handed out while used.
BlocksAccounted ==
  /\ FreeQueueExact(m.pool)
  /\ \A b \in Blocks :
       m.pool.ref[b] =
         Cardinality({r \in Reqs : b \in ToSet(m.req_to_blocks[r])})
         + Cardinality({i \in DOMAIN deferred_frees : b \in ToSet(deferred_frees[i][2])})

\* Between steps, the KV of every token that a running request counts as
\* computed is in its block table: it was computed for the same prefix, and
\* eviction, sharing and preemption have not replaced it.
ComputedTokensHaveKV ==
  pc = "idle" =>
    \A r \in ToSet(running) : \A p \in 1 .. req[r].num_computed_tokens :
      kv[m.req_to_blocks[r][((p - 1) \div block_size) + 1]][((p - 1) % block_size) + 1]
        = PrefixId[r][p]

\* The prefix-cache map agrees with the hashes kept in the blocks, and between
\* steps a block in it holds the KV of the tokens its hash stands for, so that a
\* later hit on it is right.
CachedBlocksComputed ==
  /\ MapMatchesHashes(m.pool)
  /\ pc = "idle" =>
    \A e \in m.pool.cached : \A s \in 1 .. block_size :
      kv[e[2]][s] = PrefixId[e[1][1]][e[1][2] - block_size + s]

\* A token that is delivered is the next one of its request: after preemption,
\* resumption and reset no position is delivered twice or skipped, however the
\* steps in flight were issued.
OutputInOrder ==
  pc = "update" /\ todo # << >> /\ Delivers(Head(todo)) =>
    Head(todo).position = req[Head(todo).request].num_tokens + 1

\* The steps whose entries are not processed, the oldest first.
Unprocessed == IF pc \in {"drain", "update"} THEN <<todo>> \o Tail(in_flight) ELSE in_flight

\* The tokens of r in a step.
NumIn(step, r) ==
  IF \E j \in DOMAIN step : step[j].request = r
  THEN (CHOOSE e \in ToSet(step) : e.request = r).num ELSE 0

\* The tokens of r in the first i of the steps that are not processed.
InFlight(r) == Sums([i \in DOMAIN Unprocessed |-> NumIn(Unprocessed[i], r)])

\* What a request counts as in flight is in flight, and as much of it at most
\* is stale, so that stale output drains together with its steps.
InFlightAccounted ==
  \A r \in Known :
    /\ req[r].num_in_flight_tokens = InFlight(r)[Len(Unprocessed)]
    /\ req[r].num_stale_output_tokens <= req[r].num_in_flight_tokens

\* How often r is in the queue s.
Count(s, r) == Cardinality({i \in DOMAIN s : s[i] = r})

\* Each request is in the one queue that its status names, once.
QueuesMatchStatus ==
  \A r \in Reqs :
    LET w == Count(waiting, r) + Count(skipped_waiting, r)
               + (IF pc = "waiting" THEN Count(loop.skipped, r) ELSE 0)
    IN <<Count(running, r), w>> = CASE req[r].status = "RUNNING" -> <<1, 0>>
                                    [] req[r].status \in {"ABSENT", "FINISHED"} -> <<0, 0>>
                                    [] OTHER -> <<0, 1>>

\* With defer_block_free no block that a step in flight may write is free.
InFlightBlocksPinned ==
  config.defer_block_free =>
    \A i \in (IF pc = "drain" \/ pc = "update" THEN 2 ELSE 1) .. Len(in_flight) :
      \A j \in DOMAIN in_flight[i] : \A b \in in_flight[i][j].blocks : m.pool.ref[b] > 0

\* When no step with tokens is in flight, no deferred free is left over.
NoStrandedFrees ==
  (pc = "idle" /\ \A i \in DOMAIN in_flight : in_flight[i] = << >>) => deferred_frees = << >>

\* While the connector may write the blocks of a load, also after an abort, they
\* are allocated to its request alone, and not in the prefix cache.
LoadedBlocksPinned ==
  \A r \in Reqs : load[r].state \in {"transfer", "arrived"} =>
    \A b \in load[r].blocks :
      /\ b \in ToSet(m.req_to_blocks[r]) /\ m.pool.ref[b] = 1
      /\ \A e \in m.pool.cached : e[2] # b

\* "we can make sure the reset is successful": a reset that preempts all the
\* running requests does not fail.
ResetSucceeds == pc # "reset_failed"

\* Every request that is added is finished, by its own tokens if it is not
\* aborted and its load does not fail, and gives its blocks back: preemption for
\* blocks and waiting for loads cannot go on for ever. (No request is added
\* twice, so in the end there is none left.)
RequestsFinish ==
  <>[](\A r \in Reqs : r \notin Known /\ m.req_to_blocks[r] = << >>)
=============================================================================
