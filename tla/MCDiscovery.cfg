CONSTANTS
  Aggregate = 12
  Cleanup = 3
  GroupTail = 1
  SignalWait = 1
  Response = 2
  MaxAttempts = 3
  Backoff <- MCBackoff
SPECIFICATION FairSpec
INVARIANTS
  DiscoveryTypeOK
  GoneBeforeNext
  WithinBudget
PROPERTIES
  AnsweredIsFinal
  DiscoveryEnds
