CONSTANTS
  a = a
  b = b
  c = c
  Classes <- MCClasses
  Source <- MCSource
  Namings <- MCNamings
  SplitRequests <- MCSplitRequests
  MaxAttempts = 2
  StratifyFrom = 4
  ValidShare = 3
  MaxSplits = 2
  TestSets <- MCTestSets
  Corruptions = {"fog_s5", "impulse_noise_s5"}
  DrawsGlobal = {"fog_s5"}
  DrawsOwn = {"impulse_noise_s5"}
  Entropy = {1, 2}
  Missing = {1}
  BuildRequests <- MCBuildRequests
  NoImage = NoImage
  MaxBuilds = 2
SPECIFICATION Spec
INVARIANTS TypeOK OnceOnDisk SignsTogether ValidationAsAsked LabelsAgree SameWheneverBuilt FinishedIsComplete
CHECK_DEADLOCK FALSE
