SPECIFICATION StreamSpec
CONSTANTS
  NumLayers = 4
  Upstream <- MCUpstream
  BankConditions <- MCBank
  Stream <- MCStream
  TrainAt = 0
  Jitter <- MCJitter
  BatchesPerCondition = 2
  CalibrationBatches = 2
  Percentile = 95
  SettingChoices <- MCSettings
INVARIANTS TypeOK SweptIsFixedPoint ModelLeftAsFound DescriptorOfBatchAlone LagIsOneBatch
PROPERTIES ArmsAsPrescribed
CHECK_DEADLOCK FALSE
