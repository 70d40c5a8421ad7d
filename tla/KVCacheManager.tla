--------------------------- MODULE KVCacheManager ---------------------------
(***************************************************************************)
(* KVCacheManager over one full-attention group (kv_cache_manager.py with   *)
(* SingleTypeKVCacheManager and FullAttentionManager of                     *)
(* single_type_kv_cache_manager.py): the block table of every request, how  *)
(* much of it is cached, and the prefix lookup. A manager m is a record of  *)
(* the pool, req_to_blocks and num_cached_block, with an empty table and 0  *)
(* for a request that has no entry.                                         *)
(*                                                                          *)
(* What the KV of a token depends on is the tokens up to it. Requests are   *)
(* numbers, Prompt gives their prompts, and the model is deterministic, so  *)
(* PrefixId[r][n], one of the requests with the same n tokens as r paired   *)
(* with n, stands for a prefix: it is the chained block hash and the        *)
(* content of a KV slot.                                                    *)
(***************************************************************************)
EXTENDS BlockPool

CONSTANTS block_size,  \* tokens per block
          NumReqs,     \* requests are 1 .. NumReqs
          Prompt,      \* the prompt of each request, a sequence of tokens
          max_tokens   \* output tokens at which a request stops

ASSUME ManagerAssumption ==
  /\ block_size \in Nat \ {0} /\ NumReqs \in Nat \ {0} /\ max_tokens \in Nat \ {0}
  /\ DOMAIN Prompt = 1 .. NumReqs
  /\ \A r \in 1 .. NumReqs : Len(Prompt[r]) \in Nat \ {0}

Reqs == 1 .. NumReqs
num_prompt_tokens(r) == Len(Prompt[r])
MaxLen(r) == num_prompt_tokens(r) + max_tokens

\* The n-th token of r; sampled tokens are all alike.
Token(r, n) == IF n <= num_prompt_tokens(r) THEN Prompt[r][n] ELSE 0

\* The requests whose first n tokens are those of r.
SamePrefix(r, n) ==
  {q \in Reqs : n <= MaxLen(q) /\ \A i \in 1 .. n : Token(q, i) = Token(r, i)}

PrefixId ==
  [r \in Reqs |-> [n \in 1 .. MaxLen(r) |-> <<CHOOSE q \in SamePrefix(r, n) : TRUE, n>>]]

cdiv(n, d) == (n + d - 1) \div d
AtLeast0(n) == IF n < 0 THEN 0 ELSE n
Min2(a, b) == IF a < b THEN a ELSE b
BlockHash(r, i) == PrefixId[r][i * block_size]
block_hashes(r) == [i \in 1 .. (MaxLen(r) \div block_size) |-> BlockHash(r, i)]

InitManager ==
  [pool |-> InitPool, req_to_blocks |-> [r \in Reqs |-> << >>],
   num_cached_block |-> [r \in Reqs |-> 0]]

\* get_computed_blocks: the longest run of cached blocks, of at most
\* num_tokens - 1 tokens so that the last one is recomputed. The result is the
\* set of block lists the lookup may return.
get_computed_blocks(m, r, num_tokens) ==
  LET most == (num_tokens - 1) \div block_size
      Hit(k) == \A i \in 1 .. k : get_cached_block(m.pool, BlockHash(r, i)) # {}
      k == CHOOSE n \in 0 .. most : Hit(n) /\ \A j \in 0 .. most : Hit(j) => j <= n
  IN {h \in [1 .. k -> Blocks] :
        \A i \in 1 .. k : h[i] \in get_cached_block(m.pool, BlockHash(r, i))}

\* get_num_blocks_to_allocate for num_tokens slots: the hits that are eviction
\* candidates leave the free queue too, so they count.
num_blocks_to_allocate(m, r, num_tokens, hits) ==
  LET evictable == Cardinality({b \in ToSet(hits) : m.pool.ref[b] = 0})
  IN AtLeast0(cdiv(num_tokens, block_size) - Len(hits) - Len(m.req_to_blocks[r]))
       + evictable

\* cache_blocks: the full blocks among the first num_tokens tokens.
cache_blocks(m, r, num_tokens) ==
  LET cached == m.num_cached_block[r]
      full == num_tokens \div block_size
  IN IF cached >= full THEN m
     ELSE [m EXCEPT !.pool = cache_full_blocks(@, m.req_to_blocks[r], block_hashes(r),
                                               cached + 1, full),
                    !.num_cached_block[r] = full]

\* The allocation in allocate_slots, once enough blocks are known to be free:
\* the hits are touched and enter the table, and new blocks follow until it
\* holds num_tokens tokens.
allocate_blocks(m, r, hits, num_tokens) ==
  LET p1 == touch(m.pool, hits)
      table == m.req_to_blocks[r] \o hits
      need == AtLeast0(cdiv(num_tokens, block_size) - Len(table))
  IN [pool |-> get_new_blocks(p1, need),
      req_to_blocks |-> [m.req_to_blocks EXCEPT ![r] = table \o NewBlocks(p1, need)],
      num_cached_block |-> [m.num_cached_block EXCEPT ![r] = @ + Len(hits)]]

\* allocate_slots of num_new tokens behind num_computed ones, which count the
\* hits' tokens: the blocks that the scheduled tokens fill are cached at once,
\* up to the tokens that are final (num_tokens).
allocate_slots(m, r, hits, num_computed, num_new, num_tokens) ==
  cache_blocks(allocate_blocks(m, r, hits, num_computed + num_new), r,
               Min2(num_computed + num_new, num_tokens))

\* The entries of the request are dropped; its blocks stay referenced.
pop_blocks_for_free(m, r) ==
  [m EXCEPT !.req_to_blocks[r] = << >>, !.num_cached_block[r] = 0]

\* free: the blocks go back to the pool, the last block first.
free(m, r) ==
  [pop_blocks_for_free(m, r) EXCEPT !.pool = free_blocks(@, Reverse(m.req_to_blocks[r]))]
=============================================================================
