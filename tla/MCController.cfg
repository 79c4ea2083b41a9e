\* One run, every operation, one idempotency key that is reused at every call.
CONSTANTS
  Runs = {r1}
  Workers = {w1, w2}
  Instructions = {i1, i2, i3}
  Results = {good, bare}
  Evidenced = {good}
  Keys = {k1}
  None = None
  NoKey = NoKey
  NoOp = NoOp
  NoLease = NoLease
  CreateScope = CreateScope
  Durations = {1}
  Ceiling = 2
  MaxClaims = 3
  MaxProgress = 1
  MaxPauses = 1
SPECIFICATION Spec
SYMMETRY Symmetry
CHECK_DEADLOCK FALSE
INVARIANTS
  TypeOK
  LeaseMatchesTurn
  ReplayAgrees
  NoRestingReview
  OneResultPerInstruction
  CompletionIsEvidenced
PROPERTIES
  HistoryIsFinal
  AnswersAreFenced
  LiveLeaseNotStolen
  ImplementsTurnLoop
