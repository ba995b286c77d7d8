SPECIFICATION FairSpec
CONSTANTS
  c1 = c1
  c2 = c2
  f1 = f1
  f2 = f2
  part = part
  Clients = {c1}
  Fields <- MCFields
  Part <- MCPart
  Batches <- MCProgressBatches
  Endpoints <- MCEndpoints
  MaxTasks = 2
  MaxStreams = 0
  MaxFailures = 1
  AcceptMayFail = TRUE
  MaxStops = 1
INVARIANTS
  ResultsAreOfTheBatch
PROPERTIES
  BatchesAnswered StopReturns ServerStopReturns
