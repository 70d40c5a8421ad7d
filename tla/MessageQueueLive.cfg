CONSTANTS
  n_reader = 1
  max_chunks = 2
  MaxMsgs = 3
  n_remote_reader = 1
  Timeouts = {"read"}
SPECIFICATION LiveSpec
PROPERTIES EveryMessageDelivered ShutdownStops
CHECK_DEADLOCK FALSE
