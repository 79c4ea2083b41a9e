\* Two results for one sequence, kills and moves of the frontier anywhere.
CONSTANTS
  Requests = {q1, q2}
  Absent = Absent
  Frontier = Frontier
  Moved = Moved
SPECIFICATION Spec
SYMMETRY Symmetry
INVARIANTS
  PubTypeOK
  StateNamesArtifacts
  OneResultPublished
PROPERTIES
  StaleCallsPublishNothing
