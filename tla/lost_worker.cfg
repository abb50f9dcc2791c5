SPECIFICATION FairSpec
CONSTANTS
  Clients = {c1, c2, c3}
  NumClients = 3
  MinNumWorkers = 2
  GlobalEpoch = 3
  Patience = 1
  FedLC = TRUE
  WatchdogArmed = TRUE
  TimeoutCoversWork = TRUE
  NoTestData = {c3}
  UpdateFailures = {"unpickle", "aggregate"}
  MaxConn = 1
  Failures = {"connect", "keys", "train"}
INVARIANTS EvaluationsOfTheirRound OneUserOfLocalModel CalibratedBeforeTraining AnswersSuffice
PROPERTIES TestMetricsFinal RunEnds
