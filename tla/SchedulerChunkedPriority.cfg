CONSTANTS
  num_gpu_blocks = 7
  block_size = 2
  NumReqs = 2
  Prompt <- MCPromptLong
  max_tokens = 2
  policy = "priority"
  Priority <- MCPriority2
  async_scheduling = TRUE
  pp_size = 1
  max_num_scheduled_tokens = 5
  long_prefill_token_threshold = 3
  max_num_running_reqs = 2
  watermark_blocks = 0
  Configurations <- MCDefault
  requires_kv_delivery = FALSE
  MaxAborts = 0
  MaxLoads = 0
SPECIFICATION Spec
INVARIANT ComputedTokensHaveKV
CHECK_DEADLOCK FALSE
