SPECIFICATION Spec
CONSTANTS
  c1 = c1
  c2 = c2
  f1 = f1
  f2 = f2
  part = part
  Clients = {c1}
  Fields <- MCFields
  Part <- MCPart
  Batches <- MCClearBatches
  Endpoints <- MCEndpoints
  MaxTasks = 2
  MaxStreams = 1
  MaxFailures = 0
  AcceptMayFail = FALSE
  MaxStops = 0
INVARIANTS
  RemovingAllItemsClearsStreams
