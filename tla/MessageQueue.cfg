CONSTANTS
  n_reader = 2
  max_chunks = 2
  MaxMsgs = 3
  n_remote_reader = 0
  Timeouts = {"read"}
SPECIFICATION Spec
INVARIANTS RingTypeOK ReadsInOrder NoOverwriteWhileReading WriterWithinRing
           AnnouncedBodyIsNext
PROPERTIES PublishedUntilReadByAll ImplementsBroadcast
CHECK_DEADLOCK FALSE
