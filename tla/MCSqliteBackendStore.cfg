SPECIFICATION FairSpec
CONSTANTS
  f1 = f1
  f2 = f2
  part = part
  Fields <- MCFields
  Part <- MCPart
  Batches <- StoreBatches
  Endpoints <- StoreEndpoints
  MaxTasks = 2
  MaxStreams = 2
PROPERTIES
  ImplementsStore BatchesAnswered StreamsGetItems StopReturns
