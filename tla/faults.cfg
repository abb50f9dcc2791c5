SPECIFICATION FairSpec
CONSTANTS
  Clients = {c1, c2}
  NumClients = 2
  MinNumWorkers = 2
  GlobalEpoch = 2
  Patience = 1
  FedLC = FALSE
  WatchdogArmed = TRUE
  TimeoutCoversWork = TRUE
  NoTestData = {}
  UpdateFailures = {"unpickle", "aggregate"}
  MaxConn = 2
  Failures = {"connect", "keys", "train", "eval", "drop", "restart"}
INVARIANTS TypeOK OneRegistrationPerClient UpdatesCountOnce NoSummaryOfAbortedRun
PROPERTIES FollowsProtocol RoundsInOrder TrainingEnds
CHECK_DEADLOCK FALSE
