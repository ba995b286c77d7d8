SPECIFICATION Spec
CONSTANTS
  f1 = f1
  f2 = f2
  part = part
  Fields <- MCFields
  Part <- MCPart
  Batches <- StreamBatches
  Endpoints <- StreamEndpoints
  MaxTasks = 3
  MaxStreams = 1
INVARIANTS
  TypeOK NoLostWakeup BatchesAccountedFor StopLeavesNoHalfBatch NoConflictingUpdates
  NoStaleItem NoMissingItem ItemsAddedOnce
