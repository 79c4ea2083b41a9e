\* The executor fails after the lease has run out.
CONSTANTS
  Runs = {r1}
  Workers = {w1, w2}
  Me = w1
  Invocations = {v1}
  Instructions = {i1, i2}
  Results = {good, bare}
  Evidenced = {good}
  Keys = {claim, result, blocker}
  ClaimKey = claim
  ResultKey = result
  BlockerKey = blocker
  LeaseTime = 1
  None = None
  NoKey = NoKey
  NoOp = NoOp
  NoLease = NoLease
  CreateScope = CreateScope
  Durations = {1}
  Ceiling = 2
  MaxClaims = 2
  MaxProgress = 0
  MaxPauses = 0
SPECIFICATION CommandSpec
CHECK_DEADLOCK FALSE
INVARIANTS
  FailuresEscalate
