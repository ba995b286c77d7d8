SPECIFICATION FairSpec
CONSTANTS
  Continuations = 2
  MaxValues = 3
  Workers = {"worker 1", "worker 2"}
INVARIANTS
  OneRunner ValuesInOrder
PROPERTIES
  AllArrives
