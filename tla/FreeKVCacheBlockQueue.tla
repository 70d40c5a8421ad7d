------------------------ MODULE FreeKVCacheBlockQueue ------------------------
(***************************************************************************)
(* The free list of vllm/v1/core/kv_cache_utils.py: a doubly linked list    *)
(* threaded through the prev_free_block and next_free_block fields of the   *)
(* blocks, between a fake head and a fake tail, with a separate counter.    *)
(* A block that is not in the list has both fields None.                    *)
(***************************************************************************)
EXTENDS Integers, Sequences, SequencesExt

CONSTANT NumBlocks  \* len(blocks) given to __init__

ASSUME NumBlocksAssumption == NumBlocks \in Nat \ {0}

VARIABLES prev_free_block,  \* node -> node or None
          next_free_block,  \* node -> node or None
          num_free_blocks

vars == <<prev_free_block, next_free_block, num_free_blocks>>

Blocks == 0 .. (NumBlocks - 1)
FakeHead == -1  \* fake_free_list_head
FakeTail == -2  \* fake_free_list_tail
None == -3
Nodes == Blocks \cup {FakeHead, FakeTail}

-----------------------------------------------------------------------------
(* Operators named X_Y are X with a mistake, used to test the properties.   *)
(* Setting next_free_block and prev_free_block along a chain of nodes, each *)
(* one linked to the one after it.                                          *)

LinkNext(chain) ==
  [x \in Nodes |->
     IF \E i \in 1 .. (Len(chain) - 1) : chain[i] = x
     THEN chain[(CHOOSE i \in 1 .. (Len(chain) - 1) : chain[i] = x) + 1]
     ELSE next_free_block[x]]

\* Mutant: the node after the chain is not pointed back at the chain.
LinkPrev_NoBacklink(chain) ==
  [x \in Nodes |->
     IF \E i \in 2 .. (Len(chain) - 1) : chain[i] = x
     THEN chain[(CHOOSE i \in 2 .. (Len(chain) - 1) : chain[i] = x) - 1]
     ELSE prev_free_block[x]]

LinkPrev(chain) ==
  [x \in Nodes |->
     IF \E i \in 2 .. Len(chain) : chain[i] = x
     THEN chain[(CHOOSE i \in 2 .. Len(chain) : chain[i] = x) - 1]
     ELSE prev_free_block[x]]

\* The node reached from the fake head in k steps along next_free_block.
Walk[k \in 0 .. (NumBlocks + 1)] ==
  IF k = 0 THEN FakeHead
  ELSE IF Walk[k - 1] = None THEN None ELSE next_free_block[Walk[k - 1]]

\* Blocks outside the list, one or several in any order: what the pool may put back.
Unlinked == {b \in Blocks : next_free_block[b] = None}
Batches == {s \in SeqOf(Unlinked, NumBlocks) : IsInjective(s)}

-----------------------------------------------------------------------------
Init ==
  /\ next_free_block = [x \in Nodes |->
       CASE x = FakeTail -> None
         [] x = FakeHead -> 0
         [] x = NumBlocks - 1 -> FakeTail
         [] OTHER -> x + 1]
  /\ prev_free_block = [x \in Nodes |->
       CASE x = FakeHead -> None
         [] x = FakeTail -> NumBlocks - 1
         [] x = 0 -> FakeHead
         [] OTHER -> x - 1]
  /\ num_free_blocks = NumBlocks

\* With an empty list popleft raises ValueError and changes nothing.
popleft ==
  LET first == next_free_block[FakeHead]
      second == next_free_block[first]
  IN /\ first # FakeTail /\ first # None
     /\ second # None
     /\ next_free_block' = [next_free_block EXCEPT ![FakeHead] = second, ![first] = None]
     /\ prev_free_block' = [prev_free_block EXCEPT ![second] = FakeHead, ![first] = None]
     /\ num_free_blocks' = num_free_blocks - 1

popleft_n(n) ==
  LET ret == {Walk[k] : k \in 1 .. n}
      curr == Walk[n + 1]
  IN /\ num_free_blocks >= n
     /\ None \notin ret
     /\ num_free_blocks' = num_free_blocks - n
     /\ next_free_block' =
          [x \in Nodes |-> IF x \in ret THEN None
                           ELSE IF x = FakeHead /\ curr # None THEN curr
                           ELSE next_free_block[x]]
     /\ prev_free_block' =
          [x \in Nodes |-> IF x \in ret THEN None
                           ELSE IF x = curr THEN FakeHead
                           ELSE prev_free_block[x]]

\* remove() raises on a block that is not linked.
remove(b) ==
  /\ prev_free_block[b] # None /\ next_free_block[b] # None
  /\ LET chain == <<prev_free_block[b], next_free_block[b]>>
     IN /\ next_free_block' = [LinkNext(chain) EXCEPT ![b] = None]
        /\ prev_free_block' = [LinkPrev(chain) EXCEPT ![b] = None]
  /\ num_free_blocks' = num_free_blocks - 1

append(b) ==
  LET chain == <<prev_free_block[FakeTail], b, FakeTail>>
  IN /\ prev_free_block[FakeTail] # None
     /\ next_free_block' = LinkNext(chain)
     /\ prev_free_block' = LinkPrev(chain)
     /\ num_free_blocks' = num_free_blocks + 1

\* Mutant: each block in turn is pushed on the front, which reverses them.
prepend_n_Reversed(s) ==
  LET chain == <<FakeHead>> \o Reverse(s) \o <<next_free_block[FakeHead]>>
  IN /\ s # <<>>
     /\ next_free_block' = LinkNext(chain)
     /\ prev_free_block' = LinkPrev(chain)
     /\ num_free_blocks' = num_free_blocks + Len(s)

prepend_n(s) ==
  LET chain == <<FakeHead>> \o s \o <<next_free_block[FakeHead]>>
  IN /\ s # <<>>
     /\ next_free_block' = LinkNext(chain)
     /\ prev_free_block' = LinkPrev(chain)
     /\ num_free_blocks' = num_free_blocks + Len(s)

append_n(s) ==
  LET chain == <<prev_free_block[FakeTail]>> \o s \o <<FakeTail>>
  IN /\ s # <<>>
     /\ next_free_block' = LinkNext(chain)
     /\ prev_free_block' = LinkPrev(chain)
     /\ num_free_blocks' = num_free_blocks + Len(s)

Next ==
  \/ popleft
  \/ \E n \in 1 .. NumBlocks : popleft_n(n)
  \/ \E b \in Blocks : remove(b)
  \/ \E b \in Unlinked : append(b)
  \/ \E s \in Batches : prepend_n(s)
  \/ \E s \in Batches : append_n(s)

Spec == Init /\ [][Next]_vars

-----------------------------------------------------------------------------
\* get_all_free_blocks(): the blocks met from the fake head until a node
\* without a next_free_block, which is the fake tail.
get_all_free_blocks ==
  LET last == CHOOSE k \in 0 .. NumBlocks :
                /\ Walk[k + 1] \notin Blocks
                /\ \A j \in 1 .. k : Walk[j] \in Blocks
  IN [k \in 1 .. last |-> Walk[k]]

\* After any sequence of calls the list walked forwards ends at the fake tail,
\* walked backwards it is the same list, a block outside it has neither link,
\* and the counter get_new_blocks trusts is its length ("num_free_blocks is out
\* of sync with the free list" is the assertion of popleft).
ListInSync ==
  LET list == get_all_free_blocks
      chain == <<FakeHead>> \o list \o <<FakeTail>>
  IN /\ num_free_blocks = Len(list)
     /\ Walk[Len(list) + 1] = FakeTail
     /\ \A i \in 2 .. Len(chain) : prev_free_block[chain[i]] = chain[i - 1]
     /\ \A b \in Blocks \ ToSet(list) :
          prev_free_block[b] = None /\ next_free_block[b] = None

\* The queue that the list stands for.
Queue == INSTANCE FreeBlockQueueSpec WITH queue <- get_all_free_blocks

\* Each method of the list is the method of the same name of the queue.
MethodsMatch ==
  /\ popleft => Queue!popleft_n(1)
  /\ \A n \in 1 .. NumBlocks : popleft_n(n) => Queue!popleft_n(n)
  /\ \A b \in Blocks : remove(b) => Queue!remove(b)
  /\ \A b \in Unlinked : append(b) => Queue!append_n(<<b>>)
  /\ \A s \in Batches : /\ prepend_n(s) => Queue!prepend_n(s)
                        /\ append_n(s) => Queue!append_n(s)

\* The linked list implements the queue of free blocks in eviction order: every
\* method of FreeKVCacheBlockQueue does to the list what it does to the queue,
\* and nothing else happens to the queue.
ImplementsQueue == Queue!Spec /\ [][MethodsMatch]_vars
=============================================================================
