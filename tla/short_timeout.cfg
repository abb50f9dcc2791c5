SPECIFICATION FairSpec
CONSTANTS
  Clients = {c1, c2}
  NumClients = 2
  MinNumWorkers = 2
  GlobalEpoch = 2
  Patience = 1
  FedLC = FALSE
  WatchdogArmed = TRUE
  TimeoutCoversWork = FALSE
  NoTestData = {}
  UpdateFailures = {}
  MaxConn = 1
  Failures = {}
INVARIANTS NoSummaryOfAbortedRun
CHECK_DEADLOCK FALSE
