CONSTANTS
  num_gpu_blocks = 5
  block_size = 2
  NumReqs = 3
  Prompt <- MCPrompt3
  max_tokens = 3
  policy = "priority"
  Priority <- MCPriority3
  async_scheduling = FALSE
  pp_size = 2
  max_num_scheduled_tokens = 4
  long_prefill_token_threshold = 0
  max_num_running_reqs = 3
  watermark_blocks = 1
  Configurations <- MCDefault
  requires_kv_delivery = TRUE
  MaxAborts = 0
  MaxLoads = 0
SPECIFICATION Spec
INVARIANTS ComputedTokensHaveKV OutputInOrder
CHECK_DEADLOCK FALSE
