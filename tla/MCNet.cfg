SPECIFICATION Spec
CONSTANTS
  c1 = c1
  c2 = c2
  f1 = f1
  f2 = f2
  part = part
  Clients = {c1, c2}
  Fields <- MCFields
  Part <- MCPart
  Batches <- MCStreamBatches
  Endpoints <- MCEndpoints
  MaxTasks = 1
  MaxStreams = 1
  MaxFailures = 1
  AcceptMayFail = FALSE
  MaxStops = 0
SYMMETRY MCSymmetry
INVARIANTS
  NoMessageStuck StreamsFollowServer ReadYourWrites
