----------------------------- MODULE BlockPool -----------------------------
(***************************************************************************)
(* BlockPool of block_pool.py for one KV-cache group: the free queue, the   *)
(* reference counts, and the map from block hashes to cached blocks. Its    *)
(* methods are functions from a pool to a pool, because the handlers of the *)
(* callers run several of them without interruption.                        *)
(*                                                                          *)
(* The free queue is the sequence that module FreeBlockQueueSpec gives and  *)
(* the linked list of module FreeKVCacheBlockQueue implements. The map is a *)
(* set of hash and block pairs: get_one_block "gets any block with the      *)
(* given block hash key". Block 0 is the null block and never in the queue. *)
(***************************************************************************)
EXTENDS Integers, Sequences, FiniteSets, SequencesExt

CONSTANTS num_gpu_blocks  \* blocks of the pool, the null block included

ASSUME PoolAssumption == num_gpu_blocks \in Nat \ {0}

Blocks == 1 .. (num_gpu_blocks - 1)
NoHash == << >>

\* A pool: the free queue, the reference counts, the block_hash of every block
\* and the pairs of cached_block_hash_to_block.
InitPool ==
  [free |-> [i \in Blocks |-> i], ref |-> [b \in Blocks |-> 0],
   hash |-> [b \in Blocks |-> NoHash], cached |-> {}]

get_num_free_blocks(p) == Len(p.free)

\* The elements of s that are in S, in their order.
Filter(s, S) ==
  LET filtered[i \in 0 .. Len(s)] ==
        IF i = 0 THEN << >>
        ELSE IF s[i] \in S THEN Append(filtered[i - 1], s[i]) ELSE filtered[i - 1]
  IN filtered[Len(s)]

\* The blocks cached under hash h (get_cached_block returns one of them).
get_cached_block(p, h) == {e[2] : e \in {c \in p.cached : c[1] = h}}

\* _maybe_evict_cached_block of every block of bs: the block loses its hash and
\* the map its entry.
EvictCached(p, bs) ==
  [p EXCEPT !.hash = [b \in Blocks |-> IF b \in bs THEN NoHash ELSE @[b]],
            !.cached = {e \in @ : e[2] \notin bs}]

\* Mutant: the hash of a reused block stays in the map.
get_new_blocks_KeepHash(p, n) ==
  [p EXCEPT !.free = SubSeq(@, n + 1, Len(@)),
            !.ref = [b \in Blocks |->
                       IF b \in ToSet(SubSeq(p.free, 1, n)) THEN @[b] + 1 ELSE @[b]]]

\* get_new_blocks takes the first n blocks of the queue. (NewBlocks names them.)
NewBlocks(p, n) == SubSeq(p.free, 1, n)
get_new_blocks(p, n) ==
  LET bs == ToSet(NewBlocks(p, n))
  IN [EvictCached(p, bs) EXCEPT
        !.free = SubSeq(@, n + 1, Len(@)),
        !.ref = [b \in Blocks |-> IF b \in bs THEN @[b] + 1 ELSE @[b]]]

\* touch a list of distinct blocks.
touch(p, blocks) ==
  [p EXCEPT !.free = Filter(@, Blocks \ ToSet(blocks)),
            !.ref = [b \in Blocks |-> IF b \in ToSet(blocks) THEN @[b] + 1 ELSE @[b]]]

\* free_blocks of a list of distinct blocks, the first to be evicted first:
\* blocks without a hash go to the front of the queue, the others to its end.
free_blocks(p, blocks) ==
  LET freed == Filter(blocks, {b \in Blocks : p.ref[b] = 1})
      unhashed == {b \in Blocks : p.hash[b] = NoHash}
  IN [p EXCEPT
        !.ref = [b \in Blocks |-> IF b \in ToSet(blocks) THEN @[b] - 1 ELSE @[b]],
        !.free = Filter(freed, unhashed) \o @ \o Filter(freed, Blocks \ unhashed)]

\* cache_full_blocks with _insert_block_hash: block blocks[i] gets hash hashes[i],
\* for the full blocks first .. last of a request.
cache_full_blocks(p, blocks, hashes, first, last) ==
  LET new == {<<hashes[i], blocks[i]>> : i \in first .. last}
  IN [p EXCEPT
        !.hash = [b \in Blocks |->
                    IF \E e \in new : e[2] = b
                    THEN (CHOOSE e \in new : e[2] = b)[1] ELSE @[b]],
        !.cached = @ \cup new]

\* reset_prefix_cache succeeds when every block but the null block is free.
CanReset(p) == get_num_free_blocks(p) = num_gpu_blocks - 1
reset_prefix_cache(p) == EvictCached(p, Blocks)

-----------------------------------------------------------------------------
(* Properties of a pool.                                                    *)

\* The free queue holds the unreferenced blocks, each once.
FreeQueueExact(p) ==
  /\ ToSet(p.free) = {b \in Blocks : p.ref[b] = 0}
  /\ Len(p.free) = Cardinality(ToSet(p.free))

\* The map and the hashes kept in the blocks agree.
MapMatchesHashes(p) ==
  p.cached = {<<p.hash[b], b>> : b \in {c \in Blocks : p.hash[c] # NoHash}}
=============================================================================
