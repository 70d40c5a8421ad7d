# TLA+ models of Lvllm

Lvllm is vLLM with a CPU back end for mixture-of-experts layers (LK). This
directory holds TLA+ models of the parts of it whose correctness hangs on
concurrency, ordering and bookkeeping, TLC configurations that check them on
small instances, and TLAPS proofs of what matters most.

## Inventory

| Part | State | Operations | What is hard | What makes it correct |
|---|---|---|---|---|
| Free block queue (`v1/core/kv_cache_utils.py`) | links threaded through the blocks, a counter | popleft, popleft_n, remove, append, append_n, prepend_n | hand-written links at both ends, removal out of the middle | always one list, same forwards and backwards, counter exact, order of eviction |
| Block pool (`v1/core/block_pool.py`) | free queue, reference counts, map from hashes to blocks | get_new_blocks, touch, free_blocks, cache_full_blocks, reset_prefix_cache | free blocks stay in the cache and are hit again | a block is free iff nobody refers to it; the map and the blocks agree |
| KV-cache manager (`v1/core/kv_cache_manager.py`, `single_type_kv_cache_manager.py`) | block table and cached count per request | get_computed_blocks, allocate_slots, free, pop_blocks_for_free | blocks are cached before they are computed | a hit is a block whose KV was computed for this prefix |
| Scheduler (`v1/core/sched/`) | running, waiting, skipped_waiting, counters in each Request, deferred frees | schedule, update_from_output, add_request, finish_requests, reset_prefix_cache | output of steps in flight arrives after preemption, abort or reset; frees deferred past steps | tokens delivered in order, once; blocks pinned while a step may write them; requests finish |
| Engine core (`v1/engine/core.py`) | batch queue, input and abort queues | step_with_batch_queue, _process_aborts_queue, utility calls | client calls between steps that are in flight | see the scheduler |
| Message queue (`distributed/device_communicators/shm_broadcast.py`) | shared ring with flag bytes, sockets | enqueue, dequeue, shutdown | no locks, lost notifications, two channels for one stream | an ordered broadcast to every reader, which makes progress |
| LK thread pool (`csrc/lk/backend_numa.cpp`) | status, curr and end per thread | do_work, do_k_work_stealing_job, process_tasks, destructor | stealing by fetch_add, shared job functions | every task once; the call returns when all is done |
| LK MoE decode (`csrc/lk/moe.cpp`, `layers/fused_moe/lk_routed_experts.py`) | tasks and host buffers per shape, a decode thread per layer, the deferred call | cpu_decode, cpu_decode_nowait, cpu_decode_wait, cpu_decode_sync, decode loop, destructor | threads of several layers share the thread pool and the buffers; results merged a layer later | one caller at a time in the pool; each result from its own inputs; every step completes |
| KV connectors (`distributed/kv_transfer/kv_connector/v1/base.py`), as the scheduler sees them | loads in flight, reports of finished and failed ones | get_num_new_matched_tokens, get_finished, get_block_ids_with_load_errors | a load races an abort, or fails in part | blocks of a load pinned and uncached until it ends; failed tokens computed again |
| Data-parallel clients, coordinator, engine cores (`v1/engine/core_client.py`, `coordinator.py`, `core.py`) | wave number and running flag in each | add_request_async, stats task, START_DP_WAVE, pause, resume, all-reduces | the same event is reported over several sockets, late | no engine alone in a collective; requests served; a pause holds |
| Encoder cache, KV offloading, hybrid KV groups, executor | reference-counted caches, worker futures | | | *not modelled yet* |
| Models, kernels, tokenizers, API servers | | | numeric code and I/O | *not modelled* |

A request enters through `add_request`. The engine core calls `schedule`, which
takes blocks from the KV-cache manager and through it from the block pool and
its free queue, broadcasts the step to the workers over the message queue, and
hands the output to `update_from_output`. With asynchronous scheduling or
pipeline stages several steps are in flight. On the workers the expert layers
that live in CPU memory run as jobs of the LK thread pool, handed to it by
decode threads that the CUDA stream starts and waits for. With data parallelism
several engine cores step together, started and stopped in waves by a
coordinator. A KV connector may load the KV of a request instead of having it
computed.

The list of hazards, each at its line, is in `PROJECT.json`.

## Modules

| Module | Models |
|---|---|
| `FreeBlockQueueSpec` | what the free block queue promises: a sequence of distinct blocks |
| `FreeKVCacheBlockQueue` | the linked list that implements it |
| `FreeKVCacheBlockQueue_proof` | the theorems about the list |
| `BlockPool` | `BlockPool`, its methods as functions on a pool record |
| `KVCacheManager` | `KVCacheManager` over one full-attention group, on top of `BlockPool` |
| `Scheduler` | `Scheduler`, `AsyncScheduler` and the engine core's steps, on top of `KVCacheManager` |
| `Scheduler_proof` | the theorems about the queues, tokens and fences of `Scheduler` |
| `SchedulerBlocks_proof` | the theorems about its blocks and what they hold, on top of `Scheduler_proof` |
| `MCScheduler` | prompts, priorities and configurations for the runs of `Scheduler` |
| `ShmRing` | `ShmRingBuffer`, `acquire_write` and `acquire_read`, access by access |
| `ShmRing_proof` | the theorems about `ShmRing` |
| `BroadcastSpec` | what a message queue promises |
| `MessageQueue` | `MessageQueue.enqueue` and `dequeue`, `SpinCondition` and the sockets, on top of `ShmRing` |
| `MessageQueue_proof` | the theorems about `MessageQueue`, on top of `ShmRing_proof` |
| `LKBackend` | `Backend_NUMA`; `MCLKBackend` gives its thread layouts |
| `LKBackend_proof` | the theorems about `LKBackend` |
| `MoeDecode` | the decode path of `lk_routed_experts.py` and `MOE::cpu_decode*`, with the Backend as one call |
| `MoeDecode_proof` | the theorems about `MoeDecode` |
| `DPWaves` | `DPAsyncMPClient`, `DPCoordinatorProc` and `DPEngineCoreProc` |
| `DPWaves_proof` | the theorems about `DPWaves` |

Operators named `X_Y` and introduced as mutants are `X` with a mistake. No
specification uses them: each is listed in `PROJECT.json` with the property
that must fail when it takes the place of `X`.

### Free block queue

`prev_free_block` and `next_free_block` are functions on the blocks and the two
fake ends, `None` included. Each method is an action that changes the links the
code changes; the reads the code makes along the list are `Walk`. Batches put
back are sequences of distinct blocks outside the list, which is what the pool's
reference counts guarantee (`BlocksAccounted` of `Scheduler`).
`ImplementsQueue` shows that the list is the sequence of `FreeBlockQueueSpec`,
each method being the queue's method of that name, and `BlockPool` uses that
sequence.

### Block pool, KV-cache manager and scheduler

The methods of the pool and of the manager are operators, since their callers
run them without interruption. `Scheduler` has an action for each iteration of
the loops of `schedule`, `update_from_output`, `_drain_deferred_frees` and
`reset_prefix_cache`; `pc` is the loop, `loop` holds the local variables of
`schedule`, and nothing else runs until `pc` is `"idle"` again, because the
engine core is one thread. Client calls happen between steps (`BetweenSteps`),
aborts also while the engine waits for a step.

`kv` is what the KV memory holds: for every slot the prefix whose last token was
computed into it. Prefixes are named by `PrefixId`, which is the chained block
hash as well, so that a hit is right exactly if the slots of the block hold the
prefix of the request. Workers run steps in the order of issue, so a step's
writes are made when it is issued; what may still be overwritten by a step in
flight is covered by `InFlightBlocksPinned`.

Step numbers (`sched_step_seq`, `last_sched_seq`, the fences) are kept relative
to `processed_step_seq`, and `decode_wait` is `next_decode_eligible_step`
relative to `current_step`: the code only compares them, and the state space
stays finite.

`config` is chosen in `Init` and never changes: it holds
`scheduler_reserve_full_isl`, `defer_block_free`, the connector's
`kv_load_failure_policy` and a bound on resets, so that one run covers several
configurations.

Asynchronous loads: when a waiting request is about to be admitted, the connector
may offer to load the tokens beyond its prefix hits (`Offers`, any block boundary
or the end). `WaitingLoad` allocates the blocks without caching them and puts the
request aside; the step then being scheduled starts the transfer. `LoadArrives`
is the transfer: it writes the blocks, all of them or those before the first that
fails, at the earliest when the step that started it is processed. The output that
is processed next reports it: `DrainDone` takes back the tokens that failed,
`UpdateLoadError` finishes the request under the policy `fail`,
`UpdateLoadFinished` notes that the load is over, or frees the blocks of a request
that was aborted meanwhile, and `WaitingPromote` lets the request go on, caching
what was loaded. A failure is reported together with the end of its load (the
contract allows it earlier). `MaxLoads` is how often a connector loads for one
request; NIXL-like connectors do so once.

Left out of the scheduler: loads within a step, an undecided connector
(`ext_tokens` None), delayed sends, encoder inputs, LoRA, speculative and
structured decoding, streaming sessions and pausing.

### Message queue

Every load and store of a flag or of the body is an action, under sequential
consistency, which the fences of the code give. `BeginBody` makes the chunk
`Torn` until `EndBody`. A reader's `check()` is two loads. `MessageQueue` adds
the sockets: the data sockets are FIFO and lossless, the notify socket holds one
ping and may drop any. `Timeouts` says at which of its two waits a `dequeue` with
a timeout may give up.

### LK thread pool

A thread's range is set and published by one action, since nobody reads `curr`
and `end` of a thread that is not `WORKING`. `compute_func_` takes time: it
begins with the step that draws its id and ends with `Ran`. `curr` stays put once
it is past `end`. `Destroy` happens between jobs: a destructor that meets a running
job, whose `EXIT` a thread may overwrite, is a hazard that no property covers
(`backend_numa.cpp:425`).

### LK decode

`stream` is the CUDA stream, a sequence of copies and host functions that the
Python thread appends to and the GPU runs in order; `LayerOps` is what one layer
puts on it. A tag `<<step, layer, part>>` stands for the data of a call, so that
`ResultsRight` can say from which inputs each result was computed: a buffer that is
overwritten while `forward` or a copy uses it shows up as a wrong tag. A host
function that waits blocks the stream; a missing task there ends the program and is
no step, and a shape that differs ends the model's step: `StepsComplete` would notice.
The work inside `forward` is module `LKBackend`; `BackendExclusive` is what that
module assumes of its callers. `num_hidden_layers` is the model's, `NumLayers` the
layers that run here: the code relies on their being equal, see the hazard at
`lk_routed_experts.py:244`.

`Destroy` is `~MOE`. The model runner waits for the stream before it drops the model
(`gpu_model_runner.py:6809`), so the stream is empty then, and the layers are dropped one
after the other; `_lk_deferred_pending` keeps the MOE of a call left in it to the
last. No one waits for a deferred call that no layer has waited for: when a step has
failed between two layers, its task may be in the queue or in `forward` when `~MOE`
runs.

### Data-parallel waves

Every pair of parties has a FIFO channel, with any delay between channels.
`EnterForward` takes an engine into the collective forward pass; `Step`, in which
all of them must be, is the pass with the all-reduce and the rest of
`run_busy_loop`. Since the engines do this together one `step_counter` stands for
theirs, and `SyncInterval` for the code's 32. A request is a number of forward
passes; 0 is one that is aborted as soon as it is added. A published state is
consumed one at a time where the task reads on to the last.

A `START_DP_WAVE` names an engine that it is not for. A client names it by its ZMQ
identity, two bytes, and nobody decodes it; an engine compares it with its
`engine_index`, an integer. `Identity` and `Index` keep the two apart, so that only
the `start_wave` that the coordinator repeats leaves an engine out. (The docstring of
`_send_start_wave` has it that the engine of a FIRST_REQ is left out as well. That it
is not does no harm: an engine that runs takes the message as it is. It is even
what saves a request that is aborted as soon as it is added, whose engine has no work
of its own: with `Lengths = {0}` and no pauses TLC finds `ForwardCompletes` true, and
false if `AddRequest` names the engine by `Index`. The runs have `Lengths = {2}`.)

`ResumeQuiesced` marks an assumption: no request and no `START_DP_WAVE` crosses a
`resume_scheduler`. The code does not enforce it, and without it an engine may be
left alone in a forward pass: `dp_waves_resume`. `MaxFirstReq` is only a bound, on the
FIRST_REQs that wait for a client's stats task.

## Runs

| Run | Shows | Bounds |
|---|---|---|
| `free_queue` | the list stays well linked and implements the queue | 5 blocks: batches of every size and order, removal at both ends and in the middle |
| `message_queue` | the ring's order, wholeness and no overwrite; refinement of `BroadcastSpec` | 2 local readers, 2 chunks, 3 messages, every choice of oversized ones: the ring wraps, a reader may be a ring behind |
| `message_queue_live` | delivery and shutdown under fairness | 1 local and 1 remote reader |
| `message_queue_timeout` | *violation*, see below | 1 reader, 3 messages |
| `scheduler_async` | the ten invariants of the asynchronous scheduler, and that every request finishes and gives its blocks back | 2 requests with a shared block, 3 blocks of 2 tokens, 3 steps in flight, an abort; by default with a reset, with deferred frees and a reset, with a load per request under each failure policy |
| `scheduler_priority` | KV and order of output under priority scheduling | 3 requests, 4 blocks, 2 pipeline stages, a watermark of 1, stale output dropped |
| `scheduler_defer_reset`, `scheduler_chunked_priority` | *violations*, see below | 2 requests |
| `lk_backend` | every task once, the call returns, and complete; the destructor returns | 3 threads on 2 nodes, up to 4 tasks, 2 jobs, a stealing caller |
| `moe_decode` | one caller in the Backend, results from the right inputs, steps complete, destructors return with every task finished | 3 layers, 3 steps of 1 to 3 tokens, of which up to 2 may defer, each step synchronous or not, failing anywhere between two layers |
| `dp_waves` | waves agree, a pause holds, no engine waits alone, requests served, flags settle | 2 engines, 1 client, 2 calls (requests or pauses, every mode), up to 2 FIRST_REQs behind each other |
| `dp_waves_resume` | *violation*, see below | 2 engines, a pause and a request |

Three blocks for two requests of up to three blocks each make every allocation
contend: preemption of the other, of oneself, resumption from the cache and
eviction all happen, and a load competes with them. Three layers give a layer
that waits for one deferred call and leaves another, and the last one, which must
not defer; three steps reuse every buffer. Two calls on two engines are a request
that meets a wave's end or a pause; requests of two passes with `SyncInterval` 2
span a wave. `MaxAborts`, `max_resets`, `MaxLoads`, `MaxMsgs`, `MaxTasks`,
`MaxJobs`, `MaxSteps` and `MaxCalls` bound the calls from outside. Deadlock is not
checked where the system may rightly stop: requests all finished, the bound of
messages, steps or calls reached, the pool destroyed.

### Fairness

* `Scheduler!FairSpec`: `run_busy_loop` steps the engine as long as it has
  requests or steps in flight; workers answer every step. A transfer ends if the
  engine keeps stepping: it can end between any two steps, so the fairness is
  strong.
* `MessageQueue!LiveSpec`: a reader's process calls `dequeue` again and again, a
  call goes on until it returns or raises, and a writer that has published a
  chunk sends what belongs to it. The writer need never send another message. A
  reader that rechecks again and again gets to yield or sleep in between, which
  takes strong fairness.
* `LKBackend!FairSpec`: the threads are pinned and run; the caller polls.
* `MoeDecode!Spec`: the Python thread goes through the layers of a step, the GPU
  through its stream, each decode thread through its tasks. Steps need not start.
* `DPWaves!FairSpec`: every process polls its sockets, a collective that all have
  entered completes, and who has paused resumes. An engine reads its input each
  time it gets there, which takes strong fairness, since it also leaves it for the
  next forward pass. Clients need send nothing.

### Disagreements found

* `message_queue_timeout`: the chunk that announces an oversized message is
  released before the body is received. If the receive times out, ring and socket
  are out of step, and each later oversized `dequeue` returns the body before its
  own. Without timeouts at that point, or with none at all, `message_queue` shows
  that the two channels stay in step.
* `scheduler_defer_reset`: `reset_prefix_cache(reset_running_requests=True)`
  counts on preemption to free all blocks; deferred frees keep them referenced,
  and the call raises with every request preempted.
* `scheduler_chunked_priority`: a request may be preempted in the step that
  scheduled it. Its blocks are in the prefix cache by then, but the step does not
  compute them; with `long_prefill_token_threshold` a later lookup returns them.
  Under FCFS the victim is never already scheduled.
* `dp_waves_resume`: a request is sent while `resume_scheduler` is on its way. One
  engine has resumed and waits in the barrier; the other still discards
  `START_DP_WAVE`, then resumes too. The barrier finds no work, since the first
  engine has not taken the request from its socket. It does so next and enters a
  forward pass; the other stays idle until some other request comes.

Two limits of `RequestsFinish` belong here too. `scheduler_async` checks it with
stale output delivered (`requires_kv_delivery = FALSE`). With `TRUE` TLC finds a
livelock: a preemption frees nothing at once while a step of the victim is in
flight, so the request that needed a block preempts itself as well; the tokens of
the steps in flight are dropped, and both requests start again from the same
point, possibly for ever. And it checks one load per request. With `MaxLoads` 2
and the policy `recompute` a request whose load failed at its first block may be
offered another; it is still counted among the unfinished prefills, so that the
blocks it needs are reserved against itself. If that is more than half of the
pool it never fits, and nobody behind it is admitted (the comment at
`scheduler.py:1071` speaks of "other in-flight reservations").

## Proofs

`FreeKVCacheBlockQueue_proof` proves `ListInSync` and `ImplementsQueue` for any
number of blocks (`NumBlocksAssumption`: there is one). The invariant `ListInv` is
that some sequence `q` of different blocks is linked, forwards and backwards, between
the fake ends (`Linked`), is as long as `num_free_blocks` says, and that no other block
has links. Every method replaces a stretch of the list by another, one of them empty
(`Splice`): `append` and `prepend_n` insert, `popleft_n` and `remove` cut out. So one
lemma, `Spliced`, shows for all of them that the links make the new list; what each
method adds is which links it sets (`BridgeLinked`, `Shortcut`). That the loops along
`next_free_block` find this list is an induction over the number of steps (`WalkIs`).
The library's induction theorems take an operator and cannot be used; `LeastNat`, that
a set of natural numbers has a least element, follows from `WFMin`, which takes none,
and the step is made for the least counterexample. `Pigeonhole`, proved in the same
way, bounds the list by the number of blocks.

`ShmRing_proof` proves, for any number of readers, chunks and messages, the type
invariant, `ReadsInOrder`, `NoOverwriteWhileReading`, `WriterWithinRing` and the
action property `PublishedUntilReadByAll`. The assumption is `RingAssumption`:
at least one reader and one chunk.

None of these is inductive. The flags say what they say only relative to how far
the writer and each reader have come, so the invariant `RingInv` ties the two
together. `Off(c)` is the distance from the writer's chunk to chunk `c` around the
ring and `MsgAt(c)` the last message published into it; `Behind(r)` is how many
messages reader `r` has not consumed. `IndexInv`: a reader stands `Behind(r)`
chunks behind the writer, at most a ring. `ChunkInv`: a chunk marked written
holds `MsgAt(c)`, and a reader's flag on it is up exactly if that reader has
consumed that message. `WriterInv`: past its check the writer has every
reader beyond the message it overwrites. `ReaderInv`: past its check a reader has
its next message in front of it. Distances are relative to the writer, so that no
modulo is needed and the arithmetic stays linear for the SMT solver.
The step of the writer that passes its check and the step of a reader that loads
the written flag are where the argument is made; the other actions preserve the
invariant piece by piece, one step per action.

`LKBackend_proof` proves, for any threads, nodes, tasks and jobs, `TypeOK`,
`ComputedAtMostOnce` and `ReturnsComplete` of the LK pool. The assumption is
`BackendAssumption`: threads are numbered node by node and every node has one
(the code throws if one has none). The invariant `PoolInv` says exactly which ids
have been computed: those below `job.next`, handed out so far, that are not left
in the range of a thread (`RunsInv`). Around it: what is left of the ranges does
not overlap (`ApartInv`); a thread that is not `WORKING`, or that steals, has used
up its own range (`UsedUpInv`); a thread is in `process_tasks` only while it is
`WORKING`, and `WORKING` only while the caller still has to wait for it
(`StatusInv`), which is why a range is never set under a thread that uses it; and
`job.next` is the sum of the shares handed out (`SplitInv`). The last one needs
the arithmetic of the split: `PartsAddUp` for one division with remainder,
`Positions` for the threads of a node, and `SharesAddUp`, by which the shares of
all threads are the whole job, for `do_work` and for the split by nodes. One lemma,
`DrawKeepsRanges`, covers the `fetch_add` of owner, thief and caller.

`MessageQueue_proof` proves that `MessageQueue` implements `BroadcastSpec`
(`ImplementsBroadcast`), and `AnnouncedBodyIsNext`, for any number of local and
remote readers, chunks and messages and any choice of oversized ones. The
assumptions are those of the ring and `QueueAssumption`. A step of the queue is a
step of the ring or leaves it alone (`StepOfRing`), so `RingInv` carries over. What
`QueueInv` adds ties the sockets to the ring: a reader's socket lists, in order,
exactly the oversized messages that have been posted and that its `dequeue` has
not returned (`LocalInv`); `dequeue` has returned what was taken from the ring, but
for the message whose body it waits for, and nothing that is not posted
(`DequeueInv`); and a remote reader's socket continues what it got (`RemoteInv`).
The posting of a body after its chunk is published is where ring and socket may
differ, by that one message (`Posted`). `Spec` leaves out the timeout while a body is
awaited, with which `message_queue_timeout` refutes the property.

`DPWaves_proof` proves `TypeOK`, `WavesAgree` and `PauseHolds`, for any number of
engines, clients and calls, and also when requests cross a resume
(`ResumeQuiesced = FALSE`). The assumption is `WaveAssumption`. `WaveInv` has four
parts. The types need `Placed`: a request is in one place only and has forward
passes left wherever an engine holds it, else a step would count it below zero.
`WavesAgree` needs `WavesKnown`: no message on any channel is ahead of the engines,
and a `wave_complete` is about a wave that is over, since the coordinator and the
engines take over a wave that is newer than theirs. `PauseHolds` needs `PauseInv`:
on all engines together a pause goes through four stages (`RunStage`, `DrainStage`,
`StopStage`, `ResumeStage`), in each of which the flags of every engine are known,
and a channel holds at most one `PAUSE` and one `RESUME`, the `RESUME` first. The
argument is at the collective step, where the engines leave a stage at once,
because they all see the same all-reduce, and at the barrier of the resume.

`MoeDecode_proof` proves `TypeOK` and `BackendExclusive` for any number of layers,
steps and tokens and any setting of the deferred experts, and `ResultsRight` where
`num_hidden_layers = NumLayers`, that is where the last layer of the model has an LK
MOE. The assumption is `DecodeAssumption`. `BackendExclusive` rests on the order of
the stream: of two adjacent operations the second tells what the first was
(`Follows`), and the last tells whether a deferred call is pending (`EndOfStream`).
So a task that was enqueued is waited for before anything else happens, at most one
task is `Outstanding`, and only that one is in a queue or in `forward` until it is
done (`TaskInv`). That finding a task done means that no thread is at work on it needs
that tags are used once (`FreshInv`): what was launched is of a call that Python has
returned from. `DataInv` says what every buffer holds when the operation at the head
of the stream is to use it (`BufferInv`), and that a merge finds the deferred output
of the layer before on the GPU, or five operations ahead of it on the stream
(`MergeInv`). The last layer defers no experts (`_lk_max_deferred_experts` in
`lk_routed_experts.py`), so that nothing is pending when a step ends
(`PendingInv`); if the model has further layers without an LK MOE that is not so, and
`ResultsRight` has no proof there.

`Scheduler_proof` proves `QueuesMatchStatus` for any requests, blocks, priorities,
steps in flight and configurations. The assumptions are those of the pool, the
manager and the scheduler. `QueueInv` adds to it the types of the queues and `Cursor`,
by which the index of the loop over `running` stays in the queue while victims before
and behind it are taken out; so what is selected, and what gives way, is running, and
is in the queue that it is taken from. Queues are counted (`Count`), since removal takes
one occurrence out: an action moves a request from one queue to another, and the lemmas
`PreemptMoves`, `SkipMoves`, `AdmitMoves` and `FinishMoves` do the sums. That the head of a
priority queue and the victim exist and are in their queue is an induction over the
priorities (`FirstRequest`, `LastRequest`).

It proves `OutputInOrder` and `InFlightAccounted` too, of both schedulers, from a second
invariant, `TokenInv`. A request that is preempted, or reset, leaves steps in flight and
may run again before they land: its counters have to tell the output of those steps from
that of the new ones. `Counts` relates them to the steps: along the steps that are not
processed, from the oldest, it counts the tokens of the request and the outputs it is
still to take. The entry of an output it takes was issued for the next position; the
first `num_stale_output_tokens` tokens are whole steps, whose output is dropped if
`drop_stale_output` says so; all the tokens are `num_in_flight_tokens`. `Progress` ties
the number of outputs to come to how far the request is: it is the number of placeholders
with the `AsyncScheduler`, and without it one if all the tokens are computed and none
otherwise; of a request that waits everything in flight is stale. The lemmas
`CountsIssue`, `CountsLanded`, `CountsPreempted` and `CountsNone` show what the operations do
to the count. The invariant also has that a step holds each request once and takes it
no further than its tokens (`LoopInv`, `StepInv`), and that a load that failed leaves
tokens to compute (`LoadInv`): otherwise the request would be admitted with nothing to
schedule. That sums and filters, which are recursive functions, compute what the proof
needs is again shown for the least counterexample (`SumsAre`, `FilterPicks`).

`NoStrandedFrees` follows from a third invariant, `FenceInv`. With `defer_block_free`,
`sched_step_seq`, which the model keeps relative to the processed steps, is the number of
steps with tokens in flight (`NumSteps`); no request was scheduled in a later one, so that a
free is deferred only while such a step is in flight, and its fence is one of those steps;
and the fences are in order, so that draining from the front stops at none that is reached.

`SchedulerBlocks_proof` proves `BlocksAccounted` and `TypeOK` for any requests, prompts,
blocks, steps in flight and configurations, from the same assumptions. Its invariant
`BlockInv` rests on `ManagerInv`: the reference count of a block is the number of tables
and deferred frees that hold it, each holds it once, the free queue holds the blocks
without a reference, and a block without a hash has at most one holder. The operations of
the pool and of the manager preserve it, each by a lemma of its own, provided that the
blocks they take are free and that the table has the blocks they cache. `TablesInv`,
`RoomInv` and `LoadingInv` are what the scheduler has to know for that: the table of a request
has room for its computed tokens and for those of the step in the making, also when a
failed load or a full one takes tokens back; a request that waits has blocks only from a
load, and then its lookup finds nothing, so that hits never come behind blocks of the
table; and a promoted request either has tokens or failed.

`LoadedBlocksPinned` follows (`LoadsInv`) where `block_size > 1`. With one token per block it
does not hold in general: when all of a prompt of one token was loaded, the block is
cached, the last token is to be computed again, so that `num_computed_tokens` is 0, and if the
request is then not admitted but asks the connector once more, the second load writes the
cached block again. (The runs have one load per request; what is written is what was
there.)

`InFlightBlocksPinned` needs one more invariant, `PinInv`, with an existential in it: numbers
for the steps in flight that grow with the steps up to `sched_step_seq`. A block of a step is
held beyond the number of the step either by the table of the request, which runs and has
a `last_sched_seq` not before it, or by a deferred free with a fence not before it. When a
request with blocks of a step in flight is freed, the first becomes the second, since the
fence is the number of the last step issued; when a step is processed all the numbers go
down by one, and what is drained then was needed by no step that is left.

`ComputedTokensHaveKV` and `CachedBlocksComputed` are proved for the FCFS policy, for any
requests, prompts, blocks and configurations, from the invariant `KVInv`. It has to hold
inside `schedule()` as well, where `allocate_slots` puts blocks in the prefix cache that only
the step in the making will fill, and another request of the same step may take them as
hits. So `Filled` says of a slot that it has the KV of its token, or that the step has an
entry that writes it (`Pending`): every slot of a cached block is filled (`FillsCache`), and
every slot of a table up to the computed tokens is (`FillsTable`). Of a request whose load is
under way the tokens before the load count, and when it has arrived those before the first
block that failed (`Valid`); `num_computed_tokens` is taken back to them before the output
is processed (`TakenBack`). When the step is issued, what was pending is written. That no
write spoils another's slot needs `Hashes`: the first `num_cached_block` blocks of a table have
the hashes of the request's own prefixes, a block in two tables has a hash, and so all who write
a slot write the same (`SlotAgree`, `SlotHash`). Reset, eviction and freeing take hashes away and
never contents. The policy matters in one place, `KVRunningPreempt`: under FCFS the victim is
the last of `running`, which the loop has not reached yet, so that nothing pending is dropped.
Under the priority policy it may be, and then neither property holds (the run
`scheduler_chunked_priority`). Without `long_prefill_token_threshold` the run
`scheduler_priority` finds `ComputedTokensHaveKV` true there too.

Only model-checked: liveness under fairness (`EveryMessageDelivered`,
`ShutdownStops`, `RequestsFinish`, `JobsReturn`, `DestructorReturns`,
`ForwardCompletes`, `RequestsServed`, `FlagsSettle`, `StepsComplete`,
`DestructorsReturn`), which is out of the prover's reach, and `ComputedTokensHaveKV`
under the priority policy, where it depends on the bounds.

## Not modelled

* Start-up, configuration and memory sizing: arithmetic without interleaving.
* The GPU model runner, attention and expert kernels, quantisation, models:
  numeric code. The models keep what the control relies on: steps run in the order
  of issue, a stream runs its operations in order.
* Tokenizers, chat templates, API servers: parsing and I/O.
* The prefill path of `moe.cpp`, NUMA allocation and weight loading.
* `EncoderCacheManager`, the offloading managers, hybrid KV groups, speculative and
  structured decoding, the multi-process executor's futures, elastic scaling: they
  have state worth modelling and are what the plan has left.

The models cover the control of a few thousand lines; most of the repository is
kernels, models and serving code of the kinds above.

## Plan

Done: the free queue with its refinement proved, the ring with its proof, the message
queue with its refinement proved, the block pool, the KV-cache manager and the
scheduler with asynchronous loads, with their proofs, the LK pool with its proof, the LK
decode path and the data-parallel waves with theirs.

Left, in this order:

1. `EncoderCacheManager` and the CPU offloading managers, each against an abstract
   cache.
2. Hybrid KV groups, and the multi-process executor on top of `MessageQueue`.
