\* Two runs in one database: the shared clock, the sweep of every expired lease
\* in one transaction, equal keys on both.  Liveness: time passes and workers
\* poll; planner, control and the worker that holds a lease owe nothing.
CONSTANTS
  Runs = {r1, r2}
  Workers = {w1}
  Instructions = {i1}
  Results = {good}
  Evidenced = {good}
  Keys = {k1}
  None = None
  NoKey = NoKey
  NoOp = NoOp
  NoLease = NoLease
  CreateScope = CreateScope
  Durations = {1, 2}
  Ceiling = 1
  MaxClaims = 3
  MaxProgress = 0
  MaxPauses = 0
SPECIFICATION FairSpec
CHECK_DEADLOCK FALSE
INVARIANTS
  KeyedEffectOnce
PROPERTIES
  ImplementsTurnLoop
  ClaimsEnd
