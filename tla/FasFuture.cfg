SPECIFICATION FairSpec
CONSTANTS
  Continuations = 3
INVARIANTS
  ContinuationsRunOnceInOrder NoLostJob
PROPERTIES
  ResetPreventsStart ChainCompletes StopReturns
