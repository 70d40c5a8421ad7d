----------------------------- MODULE MoeDecode -----------------------------
(***************************************************************************)
(* The decode path of the LK CPU experts: _forward_lk_cuda_decode of        *)
(* lk_routed_experts.py and the cpu_decode functions of moe.cpp.            *)
(*                                                                          *)
(* The Python thread runs the layers of a model and puts copies and host    *)
(* functions on one CUDA stream, without waiting for them. A host function  *)
(* hands the experts' work to the decode thread of the layer's MOE, a later *)
(* one waits for it. Part of a layer's experts may be deferred: they run    *)
(* while the GPU goes on to the next layer, which merges what they return.  *)
(* The synchronous path waits for the stream and computes on the Python     *)
(* thread. All of them call the one Backend, which takes a single caller.   *)
(*                                                                          *)
(* A tag <<step, layer, part>> stands for the data of a call: its inputs,   *)
(* what forward computes from them, and its task. None is what a buffer     *)
(* holds before, and what comes of inputs that change under forward.        *)
(***************************************************************************)
EXTENDS Integers, Sequences, FiniteSets

CONSTANTS
  NumLayers,            \* layers with an LK MOE, layer_id 0 .. NumLayers - 1
  num_hidden_layers,    \* layers of the model, by its configuration
  top_k,                \* experts of a token
  DeferredExperts,      \* LVLLM_LK_DEFERRED_EXPERTS
  DeferredMaxQlen,      \* LVLLM_LK_DEFERRED_MAX_QLEN
  Qlens,                \* the numbers of tokens a step may have
  SyncSteps,            \* the values use_sync_decode may take in a step
  MaxSteps              \* bound on the steps of the model

ASSUME DecodeAssumption ==
  /\ {NumLayers, num_hidden_layers, top_k} \subseteq Nat \ {0}
  /\ {DeferredExperts, DeferredMaxQlen, MaxSteps} \subseteq Nat
  /\ Qlens \subseteq Nat \ {0} /\ SyncSteps \subseteq BOOLEAN

Layers == 0 .. (NumLayers - 1)
Steps == 1 .. MaxSteps
None == << >>
Tag == Steps \X Layers \X {"now", "deferred"}
SyncSlot == 0  \* the MOE's own host buffers; slot q: the CpuDecodeParams for q
Slots == Qlens \cup {SyncSlot}

VARIABLES
  py,       \* the Python thread: where it is, the step and its next layer
  pending,  \* _lk_deferred_pending: the layer and qlen, if there is one
  stream,   \* what the CUDA stream has still to do, in order
  host,     \* input and output buffers of each slot of each layer's MOE
  task,     \* the task of each CpuDecodeParams
  queue,    \* decode_tasks_ of each MOE
  thread,   \* each MOE's decode thread, with its task and the inputs it read
  done,     \* tasks that are done
  output,   \* what the layer's output buffers on the GPU hold, by part
  result,   \* the data summed up in each layer's result
  exit      \* decode_task_thread_exit_

vars == <<py, pending, stream, host, task, queue, thread, done, output, result, exit>>

Idle == [at |-> "idle", tag |-> None, slot |-> SyncSlot, seen |-> None]

Init ==
  /\ py = [at |-> "step", step |-> 0, layer |-> 0, qlen |-> 0, sync |-> FALSE,
           prev |-> {}]
  /\ pending = {}
  /\ stream = << >>
  /\ host = [l \in Layers |-> [q \in Slots |-> [input |-> None, output |-> None]]]
  /\ task = [l \in Layers |-> [q \in Qlens |-> None]]
  /\ queue = [l \in Layers |-> << >>]
  /\ thread = [l \in Layers |-> Idle]
  /\ done = {}
  /\ output = [l \in Layers |-> [part \in {"now", "deferred"} |-> None]]
  /\ result = [s \in Steps |-> [l \in Layers |-> {}]]
  /\ exit = [l \in Layers |-> FALSE]

-----------------------------------------------------------------------------
(* What the Python thread puts on the stream.                               *)

Op(op, l, slot, tag) == [op |-> op, l |-> l, slot |-> slot, tag |-> tag]
CopyIn(l, slot, tag) == Op("d2h", l, slot, tag)
Enqueue(l, slot, tag) == Op("enqueue", l, slot, tag)
Wait(l, slot, tag) == Op("wait", l, slot, tag)
CopyOut(l, slot, tag) == Op("h2d", l, slot, tag)

\* The result of a layer is its output and, if it has waited for a deferred
\* call, what that has put in its buffer.
Merge(l, s, prev) == [op |-> "merge", l |-> l, step |-> s, prev |-> prev]

\* cpu_decode_nowait and cpu_decode_wait.
NowaitOps(l, q, tag) == <<CopyIn(l, q, tag), Enqueue(l, q, tag)>>
WaitOps(l, q, tag) == <<Wait(l, q, tag), CopyOut(l, q, tag)>>

\* Mutant: the output is copied without the wait.
DecodeOps_NoWait(l, q, tag) == NowaitOps(l, q, tag) \o <<CopyOut(l, q, tag)>>

\* cpu_decode.
DecodeOps(l, q, tag) == NowaitOps(l, q, tag) \o WaitOps(l, q, tag)

\* The wait for the deferred call that is pending.
PendingOps(p) ==
  IF p = {} THEN << >>
  ELSE LET d == CHOOSE d \in p : TRUE
       IN WaitOps(d.layer, d.qlen, <<d.step, d.layer, "deferred">>)

\* Mutant: the last layer may defer experts too.
MaxDeferred_LastToo(l) == IF DeferredExperts < top_k THEN DeferredExperts ELSE top_k

\* _lk_max_deferred_experts
MaxDeferred(l) ==
  IF l = num_hidden_layers - 1 THEN 0
  ELSE IF DeferredExperts < top_k THEN DeferredExperts ELSE top_k

\* deferred_enabled and deferred_count > 0
Defers(l, q, sync) ==
  /\ MaxDeferred(l) > 0 /\ ~ sync /\ q <= DeferredMaxQlen
  /\ top_k > 1

\* Mutant: the pending call is waited for after the layer's own.
LayerOps_WaitLast(s, l, q, p, defers) ==
  DecodeOps(l, q, <<s, l, "now">>) \o PendingOps(p)
  \o <<Merge(l, s, {d.layer : d \in p})>>
  \o (IF defers THEN NowaitOps(l, q, <<s, l, "deferred">>) ELSE << >>)

\* What an asynchronous call puts on the stream.
LayerOps(s, l, q, p, defers) ==
  PendingOps(p) \o DecodeOps(l, q, <<s, l, "now">>)
  \o <<Merge(l, s, {d.layer : d \in p})>>
  \o (IF defers THEN NowaitOps(l, q, <<s, l, "deferred">>) ELSE << >>)

-----------------------------------------------------------------------------
(* The Python thread.                                                       *)

\* The model has not been dropped.
InUse == \A l \in Layers : ~ exit[l]

\* The model runs a step of q tokens.
StartStep(q, sync) ==
  /\ py.at = "step" /\ py.step < MaxSteps /\ InUse
  /\ py' = [at |-> "layer", step |-> py.step + 1, layer |-> 0, qlen |-> q,
            sync |-> sync, prev |-> {}]
  /\ UNCHANGED <<pending, stream, host, task, queue, thread, done, output, result, exit>>

\* The layer has returned.
NextLayer ==
  IF py.layer + 1 = NumLayers
  THEN [py EXCEPT !.at = "step", !.prev = {}]
  ELSE [py EXCEPT !.at = "layer", !.layer = @ + 1, !.prev = {}]

\* The pending call has the shape of this one. (Or else a RuntimeError ends the
\* step, and what follows is Destroy.)
ShapesMatch == \A d \in pending : d.qlen = py.qlen

\* Mutant: the call that has been waited for stays pending.
LeftPending_Kept(p, new) == IF new = {} THEN p ELSE new

\* pop takes the pending call, and a layer that defers leaves its own.
LeftPending(p, new) == new

\* A layer on the asynchronous path.
LayerCall ==
  /\ py.at = "layer" /\ ~ py.sync /\ ShapesMatch /\ InUse
  /\ LET defers == Defers(py.layer, py.qlen, py.sync)
         own == [step |-> py.step, layer |-> py.layer, qlen |-> py.qlen]
     IN /\ stream' = stream \o LayerOps(py.step, py.layer, py.qlen, pending, defers)
        /\ pending' = LeftPending(pending, IF defers THEN {own} ELSE {})
  /\ py' = NextLayer
  /\ UNCHANGED <<host, task, queue, thread, done, output, result, exit>>

\* A layer on the synchronous path copies its inputs and waits for the stream,
SyncCall ==
  /\ py.at = "layer" /\ py.sync /\ ShapesMatch /\ InUse
  /\ stream' = stream \o PendingOps(pending)
               \o <<CopyIn(py.layer, SyncSlot, <<py.step, py.layer, "now">>)>>
  /\ py' = [py EXCEPT !.at = "sync", !.prev = {d.layer : d \in pending}]
  /\ pending' = {}
  /\ UNCHANGED <<host, task, queue, thread, done, output, result, exit>>

\* then computes,
SyncForward ==
  /\ py.at = "sync" /\ stream = << >>
  /\ py' = [py EXCEPT !.at = "forward"]
  /\ UNCHANGED <<pending, stream, host, task, queue, thread, done, output, result, exit>>

\* and copies the output back.
SyncReturn ==
  /\ py.at = "forward"
  /\ host' = [host EXCEPT ![py.layer][SyncSlot].output = host[py.layer][SyncSlot].input]
  /\ stream' = stream \o <<CopyOut(py.layer, SyncSlot, <<py.step, py.layer, "now">>),
                           Merge(py.layer, py.step, py.prev)>>
  /\ py' = NextLayer
  /\ UNCHANGED <<pending, task, queue, thread, done, output, result, exit>>

\* ~MOE, between two steps or when one has failed between two layers. The model
\* runner, which drops the layers one by one, waits for the stream before it does so
\* (torch.accelerator.synchronize) but for no deferred call. _lk_deferred_pending
\* keeps the MOE of a call that is left in it until the interpreter ends.
Destroy(l) ==
  /\ py.at \in {"step", "layer"} /\ stream = << >> /\ ~ exit[l]
  /\ \A m \in Layers : exit[m] => thread[m].at = "exited"
  /\ ShapesMatch => \A d \in pending : d.layer = l => \A m \in Layers \ {l} : exit[m]
  /\ exit' = [exit EXCEPT ![l] = TRUE]
  /\ UNCHANGED <<py, pending, stream, host, task, queue, thread, done, output, result>>

-----------------------------------------------------------------------------
(* The CUDA stream.                                                         *)

StreamOp(op) ==
  /\ stream # << >> /\ Head(stream).op = op
  /\ stream' = Tail(stream)

\* The inputs arrive in the slot's host buffers.
StreamCopyIn ==
  /\ StreamOp("d2h")
  /\ LET o == Head(stream) IN host' = [host EXCEPT ![o.l][o.slot].input = o.tag]
  /\ UNCHANGED <<py, pending, task, queue, thread, done, output, result, exit>>

\* enqueue_decode_task
StreamEnqueue ==
  /\ StreamOp("enqueue")
  /\ LET o == Head(stream) IN
     /\ task' = [task EXCEPT ![o.l][o.slot] = o.tag]
     /\ queue' = [queue EXCEPT ![o.l] = Append(@, [tag |-> o.tag, slot |-> o.slot])]
  /\ UNCHANGED <<py, pending, host, thread, done, output, result, exit>>

\* wait_decode_task. (A task that is missing ends the program: no step.)
StreamWait ==
  /\ StreamOp("wait")
  /\ LET o == Head(stream) IN
     /\ task[o.l][o.slot] \in done
     /\ task' = [task EXCEPT ![o.l][o.slot] = None]
  /\ UNCHANGED <<py, pending, host, queue, thread, done, output, result, exit>>

\* The slot's output buffer is copied to the GPU.
StreamCopyOut ==
  /\ StreamOp("h2d")
  /\ LET o == Head(stream) IN
     output' = [output EXCEPT ![o.l][o.tag[3]] = host[o.l][o.slot].output]
  /\ UNCHANGED <<py, pending, host, task, queue, thread, done, result, exit>>

\* output + prev_output
StreamMerge ==
  /\ StreamOp("merge")
  /\ LET o == Head(stream) IN
     result' = [result EXCEPT ![o.step][o.l] =
       {output[o.l]["now"]} \cup {output[p]["deferred"] : p \in o.prev}]
  /\ UNCHANGED <<py, pending, host, task, queue, thread, done, output, exit>>

-----------------------------------------------------------------------------
(* The decode threads.                                                      *)

\* cpu_decode_task_loop takes a task and enters forward
TakeTask(l) ==
  /\ thread[l].at = "idle" /\ queue[l] # << >>
  /\ LET t == Head(queue[l]) IN
     thread' = [thread EXCEPT ![l] = [at |-> "forward", tag |-> t.tag, slot |-> t.slot,
                                      seen |-> host[l][t.slot].input]]
  /\ queue' = [queue EXCEPT ![l] = Tail(@)]
  /\ UNCHANGED <<py, pending, stream, host, task, done, output, result, exit>>

\* and returns from it with the task done.
FinishTask(l) ==
  /\ thread[l].at = "forward"
  /\ LET t == thread[l] IN
     /\ host' = [host EXCEPT ![l][t.slot].output =
          IF host[l][t.slot].input = t.seen THEN t.seen ELSE None]
     /\ done' = done \cup {t.tag}
  /\ thread' = [thread EXCEPT ![l] = Idle]
  /\ UNCHANGED <<py, pending, stream, task, queue, output, result, exit>>

\* Mutant: the thread returns with a task left in its queue.
ThreadExits_AtOnce(l) == exit[l]

\* The condition on which the loop returns.
ThreadExits(l) == exit[l] /\ queue[l] = << >>

ExitThread(l) ==
  /\ thread[l].at = "idle" /\ ThreadExits(l)
  /\ thread' = [thread EXCEPT ![l].at = "exited"]
  /\ UNCHANGED <<py, pending, stream, host, task, queue, done, output, result, exit>>

-----------------------------------------------------------------------------
PyStep == LayerCall \/ SyncCall \/ SyncForward \/ SyncReturn

StreamStep ==
  StreamCopyIn \/ StreamEnqueue \/ StreamWait \/ StreamCopyOut \/ StreamMerge

ThreadStep(l) == TakeTask(l) \/ FinishTask(l) \/ ExitThread(l)

Next ==
  \/ \E q \in Qlens, sync \in SyncSteps : StartStep(q, sync)
  \/ PyStep \/ StreamStep
  \/ \E l \in Layers : Destroy(l) \/ ThreadStep(l)

\* The Python thread goes through the layers of a step it has started, the GPU
\* through its stream, and a decode thread through its tasks.
Spec ==
  /\ Init /\ [][Next]_vars
  /\ WF_vars(PyStep) /\ WF_vars(StreamStep)
  /\ \A l \in Layers : WF_vars(ThreadStep(l))

-----------------------------------------------------------------------------
(* Properties.                                                              *)

\* The types, and how far the structures grow: an MOE never has more than one
\* task waiting.
TypeOK ==
  /\ py.at \in {"step", "layer", "sync", "forward"}
  /\ py.step \in 0 .. MaxSteps /\ py.layer \in Layers
  /\ pending \subseteq [step : Steps, layer : Layers, qlen : Qlens]
  /\ host \in [Layers -> [Slots -> [input : Tag \cup {None}, output : Tag \cup {None}]]]
  /\ task \in [Layers -> [Qlens -> Tag \cup {None}]]
  /\ \A l \in Layers : Len(queue[l]) <= 1
  /\ \A l \in Layers : thread[l].at \in {"idle", "forward", "exited"}
  /\ done \subseteq Tag /\ exit \in [Layers -> BOOLEAN]
  /\ \A s \in Steps, l \in Layers : result[s][l] \subseteq Tag \cup {None}

\* At most one thread is in forward: neither the decode threads of two layers
\* nor the Python thread meet in the Backend, which takes a single caller.
BackendExclusive ==
  /\ \A l, m \in Layers : (thread[l].at = "forward" /\ thread[m].at = "forward") => l = m
  /\ py.at = "forward" => \A l \in Layers : thread[l].at # "forward"

\* A layer's result sums up its own call and the deferred call of the layer
\* before it in the same step if there is one, each computed from its own inputs: no buffer is
\* overwritten while a copy or forward uses it, nothing is merged into another
\* step.
ResultsRight ==
  \A s \in Steps, l \in Layers : result[s][l] # {} =>
    result[s][l] = {<<s, l, "now">>} \cup (done \cap {<<s, l - 1, "deferred">>})

\* Every step that is started gets all its results, unless it fails and the model is
\* dropped: no wait is for a task that never comes, and the deferred call a layer
\* finds is of its own shape.
StepsComplete ==
  \A s \in Steps :
    (py.step >= s) ~> (~ InUse \/ \A l \in Layers : result[s][l] # {})

\* ~MOE joins its decode thread, even if a deferred call that nobody waits for is
\* in its queue or in forward, and the thread has then finished that call.
DestructorsReturn ==
  \A l \in Layers : exit[l] ~>
    /\ thread[l].at = "exited" /\ queue[l] = << >>
    /\ \A q \in Qlens : task[l][q] # None => task[l][q] \in done
=============================================================================
