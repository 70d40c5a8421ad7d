CONSTANTS
  dp_size = 2
  NumClients = 1
  MaxCalls = 2
  Lengths = {2}
  SyncInterval = 2
  MaxFirstReq = 1
  PauseModes = {"keep"}
  ResumeQuiesced = FALSE
SPECIFICATION FairSpec
PROPERTY ForwardCompletes
CHECK_DEADLOCK FALSE
