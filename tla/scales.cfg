SPECIFICATION Spec
CONSTANTS
  Configs <- AllConfigs
  GridScale = 4
  GlobalEpoch = 3
  TotalSizes = {1, 3}
INVARIANTS TypeOK PayloadsDescale DeltasAddToTheirStart KindsAgree CheckpointIsBestModel
CHECK_DEADLOCK FALSE
