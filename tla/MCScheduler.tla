---------------------------- MODULE MCScheduler ----------------------------
(* Prompts and priorities for the runs of module Scheduler.                 *)
EXTENDS Scheduler

\* Two requests that share a block of two tokens, and one of their own.
MCPrompt2 == << <<1, 2, 3>>, <<1, 2>> >>
MCPrompt3 == << <<1, 2, 3>>, <<1, 2>>, <<4>> >>
\* A prompt that takes three chunks of three tokens, and a short one.
MCPromptLong == << <<1, 2, 3, 4, 5, 6, 7, 8, 9>>, <<10, 11>> >>
\* The request that arrives first is the first to give way.
MCPriority2 == <<1, 0>>
MCPriority3 == <<2, 1, 0>>
\* The default configuration; deferred frees with the full reservation of
\* prompts; a connector that loads (and so defers the frees), with each policy.
Config(reserve, defer, policy_on_failure, resets_max) ==
  [reserve_full_isl |-> reserve, defer_block_free |-> defer,
   kv_load |-> policy_on_failure, max_resets |-> resets_max]
MCDefault == {Config(FALSE, FALSE, "none", 1)}
MCDefer == {Config(TRUE, TRUE, "none", 1)}
MCLoads == {Config(FALSE, TRUE, "recompute", 0), Config(TRUE, TRUE, "fail", 0)}
MCAllConfigs == MCDefault \cup MCDefer \cup MCLoads
=============================================================================
