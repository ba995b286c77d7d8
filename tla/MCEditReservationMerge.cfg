SPECIFICATION Spec
CONSTANTS
  d1 = d1
  d2 = d2
  d3 = d3
  part = part
  Fields <- MCFields
  Part <- MCPart
  Stored <- MCStored
  Ours <- MCOurs
  Theirs <- MCTheirs
  FormMax = 1
  MaxSaves = 0
  MaxOthers = 2
INVARIANTS
  EditsReferenceVersion
