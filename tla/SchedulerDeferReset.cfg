CONSTANTS
  num_gpu_blocks = 4
  block_size = 2
  NumReqs = 2
  Prompt <- MCPrompt2
  max_tokens = 3
  policy = "fcfs"
  Priority <- MCPriority2
  async_scheduling = TRUE
  pp_size = 2
  max_num_scheduled_tokens = 4
  long_prefill_token_threshold = 0
  max_num_running_reqs = 2
  watermark_blocks = 0
  Configurations <- MCDefer
  requires_kv_delivery = FALSE
  MaxAborts = 1
  MaxLoads = 0
SPECIFICATION Spec
INVARIANT ResetSucceeds
CHECK_DEADLOCK FALSE
