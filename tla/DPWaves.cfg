CONSTANTS
  dp_size = 2
  NumClients = 1
  MaxCalls = 2
  Lengths = {2}
  SyncInterval = 2
  MaxFirstReq = 2
  PauseModes = {"abort", "wait", "keep"}
  ResumeQuiesced = TRUE
SPECIFICATION FairSpec
INVARIANTS TypeOK WavesAgree PauseHolds
PROPERTIES ForwardCompletes RequestsServed FlagsSettle
CHECK_DEADLOCK FALSE
