CONSTANTS
  n_reader = 1
  max_chunks = 2
  MaxMsgs = 3
  n_remote_reader = 0
  Timeouts = {"recv"}
SPECIFICATION TimeoutSpec
INVARIANT AnnouncedBodyIsNext
CHECK_DEADLOCK FALSE
