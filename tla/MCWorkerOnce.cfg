\* Two invocations of the command with the same keys, next to MCP workers.
CONSTANTS
  Runs = {r1}
  Workers = {w1, w2}
  Me = w1
  Invocations = {v1, v2}
  Instructions = {i1, i2}
  Results = {good, bare}
  Evidenced = {good}
  Keys = {claim, result, blocker}
  ClaimKey = claim
  ResultKey = result
  BlockerKey = blocker
  LeaseTime = 1
  None = None
  NoKey = NoKey
  NoOp = NoOp
  NoLease = NoLease
  CreateScope = CreateScope
  Durations = {1}
  Ceiling = 2
  MaxClaims = 3
  MaxProgress = 0
  MaxPauses = 1
SPECIFICATION CommandSpec
SYMMETRY Symmetry
CHECK_DEADLOCK FALSE
INVARIANTS
  SuccessIsRecorded
  EscalationHolds
