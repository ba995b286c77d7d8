SPECIFICATION FairSpec
CONSTANTS
  d1 = d1
  d2 = d2
  d3 = d3
  part = part
  Fields <- MCFields
  Part <- MCPart
  Stored <- MCStored
  Ours <- MCOurs
  Theirs <- MCTheirs
  FormMax = 1
  MaxSaves = 2
  MaxOthers = 2
INVARIANTS
  NoChangeWaits FormFollowsReference SaveKeepsOthersChanges OffersNewestVersion
PROPERTIES
  SaveEnds
