------------------------- MODULE FreeBlockQueueSpec -------------------------
(***************************************************************************)
(* What FreeKVCacheBlockQueue (vllm/v1/core/kv_cache_utils.py) promises to  *)
(* the block pool: a queue of distinct free blocks in eviction order, the   *)
(* next block to be evicted first, from which a block can also be taken out *)
(* of the middle.                                                           *)
(***************************************************************************)
EXTENDS Naturals, Sequences, SequencesExt

CONSTANT NumBlocks  \* len(blocks), the block ids are 0 .. NumBlocks - 1

VARIABLE queue

Blocks == 0 .. (NumBlocks - 1)

\* The sequences of different blocks that are not in the queue.
Batches == {s \in SeqOf(Blocks \ ToSet(queue), NumBlocks) : IsInjective(s)}

Init == queue = [i \in 1 .. NumBlocks |-> i - 1]

popleft_n(n) ==
  /\ n <= Len(queue)
  /\ queue' = SubSeq(queue, n + 1, Len(queue))

remove(b) == \E i \in DOMAIN queue : queue[i] = b /\ queue' = RemoveAt(queue, i)

prepend_n(s) == s \in Batches /\ queue' = s \o queue

append_n(s) == s \in Batches /\ queue' = queue \o s

Next ==
  \/ \E n \in 1 .. NumBlocks : popleft_n(n)
  \/ \E b \in Blocks : remove(b)
  \/ \E s \in Batches : prepend_n(s) \/ append_n(s)

Spec == Init /\ [][Next]_queue
=============================================================================
