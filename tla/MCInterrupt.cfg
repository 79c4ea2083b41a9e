CONSTANTS
  Pilots = {p1}
  Basenames = {b1}
  NoPilot = NoPilot
SPECIFICATION Spec
CHECK_DEADLOCK FALSE
INVARIANTS
  NothingBegunBeforeList
